--------------------------- MODULE RequestsProofs ---------------------------
(***************************************************************************)
(* Proofs about Requests, for any number of callers, keys, nodes, retries  *)
(* and faults, and a cache of any capacity.                                *)
(*                                                                         *)
(* Two invariants, one on top of the other: Shape (types, and which caller *)
(* has a request in flight) and Truthful (what a caller and the cache know *)
(* compared with what the node knows by now).                              *)
(***************************************************************************)
EXTENDS Requests, SequenceTheorems, TLAPS

-----------------------------------------------------------------------------
(***************************************************************************)
(* Shape.                                                                  *)
(***************************************************************************)
Items == [key : Keys, version : Versions]

CacheTypes == items \in Seq(Items) /\ Len(items) <= Capacity

CallTypes ==
  /\ inFlight \in [Keys -> Callers \cup {None}]
  /\ call \in [Callers -> {"idle", "ask", "body", "join", "work", "silent"}]
  /\ request \in [Callers -> [node : 0 .. Nodes, first : BOOLEAN, left : 0 .. MaxTries,
                              backoff : Nat, version : Versions, sure : BOOLEAN]]
  /\ want \in [Callers -> Keys \cup {None}]
  /\ since \in [Callers -> Versions]

WorldTypes ==
  /\ truth \in [Keys -> Versions] /\ final \subseteq Keys /\ down \subseteq 1 .. Nodes
  /\ faults \in 0 .. MaxFaults /\ outdated \subseteq Keys

Requesting(c) == call[c] \in {"ask", "body"}

(* Who is not idle wants a key; the promise of a key is in flight exactly  *)
(* while its caller requests it; who joined has a promise to wait for.     *)
FlightInv ==
  /\ \A c \in Callers : call[c] # "idle" => want[c] \in Keys
  /\ \A c \in Callers : Requesting(c) /\ ShouldCache(want[c]) => inFlight[want[c]] = c
  /\ \A k \in Keys, c \in Callers :
       inFlight[k] = c => Requesting(c) /\ want[c] = k /\ ShouldCache(k)
  /\ \A c \in Callers :
       call[c] = "join" => ShouldCache(want[c]) /\ inFlight[want[c]] \in Callers

Shape == CacheTypes /\ CallTypes /\ WorldTypes /\ FlightInv

-----------------------------------------------------------------------------
(***************************************************************************)
(* Truthful.                                                               *)
(***************************************************************************)
FixedInv ==
  /\ Fixed \subseteq final
  /\ \A k \in Fixed : truth[k] = 1

(* What a caller asked for was then as old as truth, and is no newer now.  *)
AskedInv ==
  \A c \in Callers :
    call[c] \in {"ask", "body", "join"} =>
      since[c] <= truth[want[c]] /\ (want[c] \in Fixed => since[c] = 1)

AnsweredInv ==
  \A c \in Callers :
    call[c] = "body" =>
      /\ since[c] <= request[c].version /\ request[c].version <= truth[want[c]]
      /\ want[c] \in Fixed => request[c].version = 1
      /\ request[c].sure /\ request[c].version > 0 =>
           want[c] \in final /\ request[c].version = truth[want[c]]

Truthful ==
  FixedInv /\ AskedInv /\ AnsweredInv /\ CacheIsNeverStale /\ AnswersAreCurrent

-----------------------------------------------------------------------------
(* The sorts of the constants. *)
LEMMA KeySorts ==
  /\ States \subseteq Fixed /\ Fixed \subseteq Keys /\ Keys = Fixed \cup Dynamic \cup Children
  /\ Fixed \cap Dynamic = {} /\ Fixed \cap Children = {} /\ Dynamic \cap Children = {}
  /\ \A c \in Callers : Needs[c] \subseteq Keys
  /\ None \notin Keys /\ None \notin Callers
  /\ Capacity \in Nat \ {0} /\ Nodes \in Nat \ {0} /\ MaxTries \in Nat
  /\ RetryDelay \in Nat \ {0} /\ MaxBackoff \in Nat
  /\ MaxVersion \in Nat \ {0} /\ MaxFaults \in Nat
BY RequestsConstants, NoneIsNobody DEF Keys

(***************************************************************************)
(* The cache.                                                              *)
(***************************************************************************)
(* Every item of s is one of the items, or new.                            *)
Only(s, new) == \A i \in DOMAIN s : s[i] = new \/ \E j \in DOMAIN items : s[i] = items[j]

(* A cache holds at most Capacity items after an insertion, and nothing    *)
(* but what it held and the new item.                                      *)
LEMMA InsertKeeps ==
  ASSUME CacheTypes, NEW k \in Keys, NEW v \in Versions
  PROVE  /\ Insert(k, v) \in Seq(Items) /\ Len(Insert(k, v)) <= Capacity
         /\ Only(Insert(k, v), [key |-> k, version |-> v])
<1> DEFINE item == [key |-> k, version |-> v]
           new == Append(items, item)
<1>1. item \in Items
  BY DEF Items
<1>2. /\ items \in Seq(Items) /\ Len(items) \in Nat /\ DOMAIN items = 1 .. Len(items)
      /\ Len(items) <= Capacity /\ Capacity \in Nat \ {0}
  BY LenProperties, KeySorts DEF CacheTypes
<1>3. /\ new \in Seq(Items) /\ Len(new) = Len(items) + 1 /\ new # <<>>
      /\ \A i \in 1 .. Len(items) : new[i] = items[i]
      /\ new[Len(items) + 1] = item
  BY <1>1, <1>2, AppendProperties
<1>4. DOMAIN new = 1 .. Len(items) + 1
  BY <1>3, LenProperties
<1>5. Only(new, item)
  BY <1>2, <1>3, <1>4 DEF Only
<1>6. CASE Len(new) > Capacity
  <2>1. /\ Tail(new) \in Seq(Items) /\ Len(Tail(new)) = Len(new) - 1
        /\ \A i \in 1 .. Len(Tail(new)) : Tail(new)[i] = new[i + 1]
    BY <1>3, HeadTailProperties
  <2>2. DOMAIN Tail(new) = 1 .. Len(items)
    BY <1>2, <1>3, <2>1, LenProperties
  <2>3. Only(Tail(new), item)
    BY <1>2, <1>3, <1>4, <1>5, <2>1, <2>2 DEF Only
  <2> QED
    BY <1>2, <1>3, <1>6, <2>1, <2>3 DEF Insert
<1>7. CASE ~(Len(new) > Capacity)
  BY <1>2, <1>3, <1>5, <1>7 DEF Insert
<1> QED
  BY <1>6, <1>7

(* A hit moves the item to the end, and changes nothing else.              *)
LEMMA TouchKeeps ==
  ASSUME CacheTypes, NEW i \in DOMAIN items
  PROVE  LET touched == Append(Without(i), items[i])
         IN  /\ touched \in Seq(Items) /\ Len(touched) <= Capacity
             /\ Only(touched, items[i])
<1> DEFINE before == SubSeq(items, 1, i - 1)
           after  == SubSeq(items, i + 1, Len(items))
           rest   == before \o after
           touched == Append(rest, items[i])
<1>1. /\ items \in Seq(Items) /\ Len(items) \in Nat /\ DOMAIN items = 1 .. Len(items)
      /\ Len(items) <= Capacity /\ Capacity \in Nat /\ i \in 1 .. Len(items)
      /\ \A j \in 1 .. Len(items) : items[j] \in Items
  BY LenProperties, ElementOfSeq, KeySorts DEF CacheTypes
<1>2. /\ before \in Seq(Items) /\ Len(before) = i - 1
      /\ \A j \in 1 .. i - 1 : before[j] = items[j]
  BY <1>1, SubSeqProperties
<1>3. /\ after \in Seq(Items) /\ Len(after) = Len(items) - i
      /\ \A j \in 1 .. Len(items) - i : after[j] = items[i + j]
  BY <1>1, SubSeqProperties
<1>4. /\ rest \in Seq(Items) /\ Len(rest) = Len(items) - 1
      /\ \A j \in 1 .. Len(items) - 1 : \E n \in DOMAIN items : rest[j] = items[n]
  <2>1. /\ rest \in Seq(Items) /\ Len(rest) = Len(before) + Len(after)
        /\ \A j \in 1 .. Len(before) + Len(after) :
             rest[j] = IF j <= Len(before) THEN before[j] ELSE after[j - Len(before)]
    <3> HIDE DEF before, after
    <3> QED
      BY <1>2, <1>3, ConcatProperties
  <2>2. Len(rest) = Len(items) - 1
    BY <1>1, <1>2, <1>3, <2>1
  <2>3. ASSUME NEW j \in 1 .. Len(items) - 1
        PROVE  \E n \in DOMAIN items : rest[j] = items[n]
    <3> HIDE DEF before, after, rest
    <3>1. CASE j <= i - 1
      <4>1. rest[j] = items[j] /\ j \in DOMAIN items
        BY <1>1, <1>2, <1>3, <2>1, <3>1
      <4> QED
        BY <4>1
    <3>2. CASE ~(j <= i - 1)
      <4>1. rest[j] = after[j - (i - 1)] /\ j - (i - 1) \in 1 .. Len(items) - i
        BY <1>1, <1>2, <1>3, <2>1, <3>2
      <4>2. rest[j] = items[i + (j - (i - 1))] /\ i + (j - (i - 1)) \in DOMAIN items
        BY <1>1, <1>3, <4>1
      <4> QED
        BY <4>2
    <3> QED
      BY <3>1, <3>2
  <2> QED
    BY <2>1, <2>2, <2>3
<1>5. /\ touched \in Seq(Items) /\ Len(touched) = Len(items)
      /\ \A j \in 1 .. Len(items) - 1 : touched[j] = rest[j]
      /\ touched[Len(items)] = items[i]
  <2> HIDE DEF rest
  <2>1. /\ touched \in Seq(Items) /\ Len(touched) = Len(rest) + 1
        /\ \A j \in 1 .. Len(rest) : touched[j] = rest[j]
        /\ touched[Len(rest) + 1] = items[i]
    <3>1. items[i] \in Items
      BY <1>1
    <3>2. /\ Append(rest, items[i]) \in Seq(Items)
          /\ Len(Append(rest, items[i])) = Len(rest) + 1
          /\ \A j \in 1 .. Len(rest) : Append(rest, items[i])[j] = rest[j]
          /\ Append(rest, items[i])[Len(rest) + 1] = items[i]
      BY <1>4, <3>1, AppendProperties
    <3> QED
      BY <3>2
  <2> QED
    BY <1>1, <1>4, <2>1
<1>6. DOMAIN touched = 1 .. Len(items)
  BY <1>5, LenProperties
<1>7. Only(touched, items[i])
  <2> HIDE DEF touched, rest
  <2> QED
    BY <1>1, <1>4, <1>5, <1>6 DEF Only
<1> QED
  BY <1>1, <1>5, <1>7 DEF Without

-----------------------------------------------------------------------------
(***************************************************************************)
(* Shape is inductive.                                                     *)
(***************************************************************************)
(* A request begins at some node, without a retry.                         *)
LEMMA FreshRequest ==
  ASSUME NEW n \in 0 .. Nodes
  PROVE  [NoRequest EXCEPT !.node = n] \in
           [node : 0 .. Nodes, first : BOOLEAN, left : 0 .. MaxTries, backoff : Nat,
            version : Versions, sure : BOOLEAN]
<1>1. NoRequest \in [node : 0 .. Nodes, first : BOOLEAN, left : 0 .. MaxTries,
                     backoff : Nat, version : Versions, sure : BOOLEAN]
  BY KeySorts DEF NoRequest, Versions
<1> QED
  BY <1>1, Zenon

(* Initially nobody asks and nothing is cached.                            *)
LEMMA ShapeInit == Init => Shape
<1> SUFFICES ASSUME Init PROVE Shape
  OBVIOUS
<1>1. CacheTypes
  BY EmptySeq, KeySorts DEF Init, CacheTypes
<1>2. WorldTypes
  BY KeySorts DEF Init, WorldTypes, Versions
<1>3. NoRequest \in [node : 0 .. Nodes, first : BOOLEAN, left : 0 .. MaxTries,
                     backoff : Nat, version : Versions, sure : BOOLEAN]
  BY KeySorts DEF NoRequest, Versions
<1>4. CallTypes
  BY <1>3, KeySorts DEF Init, CallTypes, Versions
<1>5. FlightInv
  BY KeySorts DEF Init, FlightInv, Requesting
<1> QED
  BY <1>1, <1>2, <1>4, <1>5 DEF Shape

(* The promise of a key resolves: who waited for it is idle or at work,    *)
(* and the others are not concerned.                                       *)
LEMMA AnswerShape ==
  ASSUME CallTypes, WorldTypes, NEW C \in SUBSET Callers, NEW k \in Keys, NEW v, NEW a,
         Answer(C, k, v, a)
  PROVE  /\ call' \in [Callers -> {"idle", "ask", "body", "join", "work", "silent"}]
         /\ want' \in [Callers -> Keys \cup {None}]
         /\ outdated' \subseteq Keys
         /\ \A c \in Callers \ C : call'[c] = call[c] /\ want'[c] = want[c]
         /\ \A c \in C : call'[c] = "idle" \/ (call'[c] = "work" /\ want'[c] = k)
BY DEF Answer, CallTypes, WorldTypes

(* Who has an answer no longer remembers when it asked.                    *)
LEMMA ForgetTypes ==
  ASSUME CallTypes, NEW C \in SUBSET Callers, Forget(C)
  PROVE  since' \in [Callers -> Versions]
BY KeySorts DEF Forget, CallTypes, Versions

(* An error of the request of c sends all who wait for it back to idle.    *)
LEMMA RejectShape ==
  ASSUME Shape, NEW c \in Callers, Requesting(c), Reject(c)
  PROVE  CallTypes' /\ FlightInv' /\ UNCHANGED outdated
<1>1. NoRequest \in [node : 0 .. Nodes, first : BOOLEAN, left : 0 .. MaxTries,
                     backoff : Nat, version : Versions, sure : BOOLEAN]
  BY KeySorts DEF NoRequest, Versions
<1>2. Waiting(c) \in SUBSET Callers
  BY DEF Waiting
<1>3. since' \in [Callers -> Versions]
  BY <1>2, ForgetTypes DEF Reject, Shape
<1>4. CallTypes'
  BY <1>1, <1>3 DEF Reject, Land, Shape, CallTypes
<1>5. FlightInv'
  BY KeySorts DEF Reject, Land, Shape, CallTypes, FlightInv, Requesting, Waiting, At,
     ShouldCache
<1> QED
  BY <1>4, <1>5 DEF Reject

(* A retry goes on asking for the same key.                                *)
LEMMA RetryShape ==
  ASSUME Shape, NEW c \in Callers, Requesting(c), CallFails(c)
  PROVE  CallTypes' /\ FlightInv' /\ UNCHANGED outdated
<1> DEFINE R == [node : 0 .. Nodes, first : BOOLEAN, left : 0 .. MaxTries,
                 backoff : Nat, version : Versions, sure : BOOLEAN]
           r == request[c]
<1>1. r \in R
  BY DEF Shape, CallTypes
<1>2. ASSUME NEW q \in R, Retry(c, q)
      PROVE  CallTypes' /\ FlightInv' /\ UNCHANGED outdated
  <2>1. CallTypes'
    BY <1>2 DEF Retry, Shape, CallTypes, history
  <2>2. FlightInv'
    BY <1>2 DEF Retry, Shape, CallTypes, FlightInv, Requesting
  <2> QED
    BY <1>2, <2>1, <2>2 DEF Retry, history
<1>3. CASE Retry(c, [r EXCEPT !.first = FALSE, !.left = MaxTries, !.backoff = RetryDelay])
  <2>1. [r EXCEPT !.first = FALSE, !.left = MaxTries, !.backoff = RetryDelay] \in R
    <3>1. FALSE \in BOOLEAN /\ MaxTries \in 0 .. MaxTries /\ RetryDelay \in Nat
      BY KeySorts
    <3>2. [r EXCEPT !.first = FALSE] \in R
      BY <1>1, <3>1, Zenon
    <3>3. [[r EXCEPT !.first = FALSE] EXCEPT !.left = MaxTries, !.backoff = RetryDelay] \in R
      BY <3>1, <3>2, Zenon
    <3> QED
      BY <3>3, Zenon
  <2> QED
    BY <1>2, <1>3, <2>1
<1>4. CASE /\ MayRetry(r)
           /\ Retry(c, [r EXCEPT !.left = @ - 1, !.backoff = 2 * @])
  <2>1. /\ r.left \in 0 .. MaxTries /\ r.left - 1 \in 0 .. MaxTries
        /\ 2 * r.backoff \in Nat
    BY <1>1, <1>4, KeySorts DEF MayRetry
  <2>2. [r EXCEPT !.left = @ - 1, !.backoff = 2 * @] \in R
    BY <1>1, <2>1
  <2> QED
    BY <1>2, <1>4, <2>2
<1>5. CASE r.node < Nodes /\ Retry(c, [NoRequest EXCEPT !.node = r.node + 1])
  <2>1. r.node + 1 \in 0 .. Nodes
    BY <1>1, <1>5, KeySorts
  <2>2. [NoRequest EXCEPT !.node = r.node + 1] \in R
    BY <2>1, FreshRequest
  <2> QED
    BY <1>2, <1>5, <2>2
<1>6. CASE Reject(c)
  BY <1>6, RejectShape
<1> QED
  BY <1>3, <1>4, <1>5, <1>6 DEF CallFails

(* getOrFetch joins a promise that is in flight, or makes the only one.    *)
LEMMA FetchShape ==
  ASSUME Shape, NEW c \in Callers, NEW k \in Keys, call[c] = "idle", GetOrFetch(c, k)
  PROVE  CallTypes' /\ CacheTypes' /\ FlightInv' /\ outdated' \subseteq Keys
<1> DEFINE R == [node : 0 .. Nodes, first : BOOLEAN, left : 0 .. MaxTries,
                 backoff : Nat, version : Versions, sure : BOOLEAN]
<1>1. CallTypes /\ WorldTypes /\ CacheTypes /\ FlightInv
  BY DEF Shape
<1>2. truth[k] \in Versions
  BY <1>1 DEF WorldTypes
<1>3. ASSUME NEW i \in Cached(k), items' = Append(Without(i), items[i]),
             Answer({c}, k, items[i].version, truth[k]),
             UNCHANGED <<inFlight, request, since>>
      PROVE  CallTypes' /\ CacheTypes' /\ FlightInv' /\ outdated' \subseteq Keys
  <2>1. CacheTypes'
    BY <1>1, <1>3, TouchKeeps DEF Cached, CacheTypes
  <2>2. /\ call' \in [Callers -> {"idle", "ask", "body", "join", "work", "silent"}]
        /\ want' \in [Callers -> Keys \cup {None}]
        /\ outdated' \subseteq Keys
        /\ \A d \in Callers \ {c} : call'[d] = call[d] /\ want'[d] = want[d]
        /\ call'[c] = "idle" \/ (call'[c] = "work" /\ want'[c] = k)
    BY <1>1, <1>3, AnswerShape
  <2>3. CallTypes'
    BY <1>1, <1>3, <2>2 DEF CallTypes
  <2>4. FlightInv'
    BY <1>1, <1>3, <2>2 DEF FlightInv, Requesting, ShouldCache
  <2> QED
    BY <2>1, <2>2, <2>3, <2>4
<1>4. ASSUME ShouldCache(k), inFlight[k] # None, call' = [call EXCEPT ![c] = "join"],
             want' = [want EXCEPT ![c] = k], since' = [since EXCEPT ![c] = truth[k]],
             UNCHANGED <<items, inFlight, request, outdated>>
      PROVE  CallTypes' /\ CacheTypes' /\ FlightInv' /\ outdated' \subseteq Keys
  <2>1. CallTypes'
    BY <1>1, <1>2, <1>4 DEF CallTypes
  <2>2. FlightInv'
    BY <1>1, <1>4 DEF FlightInv, Requesting, ShouldCache, CallTypes
  <2> QED
    BY <1>1, <1>4, <2>1, <2>2 DEF CacheTypes, WorldTypes
<1>5. ASSUME inFlight[k] = None,
             inFlight' = IF ShouldCache(k) THEN [inFlight EXCEPT ![k] = c] ELSE inFlight,
             Ask(c), want' = [want EXCEPT ![c] = k],
             since' = [since EXCEPT ![c] = truth[k]], UNCHANGED <<items, outdated>>
      PROVE  CallTypes' /\ CacheTypes' /\ FlightInv' /\ outdated' \subseteq Keys
  <2>1. [NoRequest EXCEPT !.node = 1] \in R
    BY KeySorts, FreshRequest
  <2>2. CallTypes'
    BY <1>1, <1>2, <1>5, <2>1 DEF CallTypes, Ask
  <2>3. FlightInv'
    BY <1>1, <1>5, KeySorts DEF FlightInv, Requesting, ShouldCache, CallTypes, Ask
  <2> QED
    BY <1>1, <1>5, <2>2, <2>3 DEF CacheTypes, WorldTypes
<1>6. ShouldCache(k) \/ inFlight[k] = None
  BY <1>1, KeySorts DEF CallTypes, FlightInv
<1> QED
  BY <1>3, <1>4, <1>5, <1>6 DEF GetOrFetch

(* A worker ends, with or without its result.                              *)
LEMMA WorkEndsShape ==
  ASSUME Shape, NEW c \in Callers, ~Requesting(c), call[c] # "join",
         NEW result \in BOOLEAN, WorkEnds(c, result)
  PROVE  CallTypes' /\ FlightInv' /\ UNCHANGED <<items, nodeVars, outdated>>
<1>1. want' \in [Callers -> Keys \cup {None}]
      /\ \A d \in Callers \ {c} : want'[d] = want[d]
  <2>1. CASE result
    BY <2>1 DEF WorkEnds, Shape, CallTypes
  <2>2. CASE ~result
    BY <2>2 DEF WorkEnds, Shape, CallTypes
  <2> QED
    BY <2>1, <2>2
<1>2. CallTypes'
  BY <1>1 DEF WorkEnds, Shape, CallTypes, history
<1>3. FlightInv'
  BY <1>1 DEF WorkEnds, Shape, CallTypes, FlightInv, Requesting, ShouldCache
<1> QED
  BY <1>2, <1>3 DEF WorkEnds, history

(* Every step keeps the types and the requests in flight.                  *)
LEMMA ShapeNext == Shape /\ [Next]_vars => Shape'
<1> SUFFICES ASSUME Shape, [Next]_vars PROVE Shape'
  OBVIOUS
<1>a. CacheTypes /\ CallTypes /\ WorldTypes /\ FlightInv
  BY DEF Shape
<1>b. ASSUME UNCHANGED <<nodeVars, faults>> \/ (UNCHANGED nodeVars /\ Fault),
             CacheTypes', CallTypes', FlightInv', outdated' \subseteq Keys
      PROVE  Shape'
  <2>1. UNCHANGED nodeVars /\ faults' \in 0 .. MaxFaults
    BY <1>a, <1>b, KeySorts DEF WorldTypes, Fault
  <2> QED
    BY <1>a, <1>b, <2>1 DEF Shape, WorldTypes, nodeVars
<1>1. CASE Advance \/ Finalize \/ Break \/ Repair
  <2>1. UNCHANGED <<items, inFlight, call, request, want, faults, history>>
    BY <1>1 DEF Advance, Finalize, Break, Repair
  <2>2. WorldTypes'
    <3>1. CASE Advance
      BY <1>a, <2>1, <3>1, KeySorts DEF Advance, WorldTypes, Versions, history
    <3>2. CASE Finalize
      BY <1>a, <2>1, <3>2 DEF Finalize, WorldTypes, history, Keys
    <3>3. CASE Break \/ Repair
      BY <1>a, <2>1, <3>3 DEF Break, Repair, WorldTypes, history
    <3> QED
      BY <1>1, <3>1, <3>2, <3>3
  <2>3. CacheTypes' /\ CallTypes' /\ FlightInv'
    BY <1>a, <2>1 DEF CacheTypes, CallTypes, FlightInv, Requesting, history
  <2> QED
    BY <2>2, <2>3 DEF Shape
<1>2. ASSUME NEW c \in Callers, Begin(c) \/ Repeat(c) PROVE Shape'
  <2>1. PICK k \in Keys : GetOrFetch(c, k)
    BY <1>a, <1>2, KeySorts DEF Begin, Repeat, CallTypes
  <2>2. call[c] = "idle" /\ UNCHANGED <<nodeVars, faults>>
    BY <1>2 DEF Begin, Repeat, At
  <2> QED
    BY <1>b, <2>1, <2>2, FetchShape
<1>3. ASSUME NEW c \in Callers, Respond(c) PROVE Shape'
  <2> DEFINE R == [node : 0 .. Nodes, first : BOOLEAN, left : 0 .. MaxTries,
                   backoff : Nat, version : Versions, sure : BOOLEAN]
  <2>1. /\ want[c] \in Keys /\ truth[want[c]] \in Versions /\ call[c] = "ask"
    BY <1>a, <1>3 DEF Respond, At, FlightInv, WorldTypes
  <2>2. PICK sure \in BOOLEAN :
          request' = [request EXCEPT ![c] =
                        [@ EXCEPT !.version = truth[want[c]], !.sure = sure]]
    BY <1>3, Zenon DEF Respond
  <2>3. request[c] \in R
    BY <1>a DEF CallTypes
  <2>4. /\ call' = [call EXCEPT ![c] = "body"]
        /\ UNCHANGED <<nodeVars, items, inFlight, want, faults, history>>
    BY <1>3 DEF Respond
  <2>5. request' \in [Callers -> R]
    <3>1. [request[c] EXCEPT !.version = truth[want[c]], !.sure = sure] \in R
      BY <2>1, <2>3, Zenon
    <3> HIDE DEF R
    <3> QED
      BY <1>a, <2>2, <3>1, Zenon DEF CallTypes, R
  <2>6. CallTypes'
    BY <1>a, <2>4, <2>5 DEF CallTypes, history
  <2>7. FlightInv'
    BY <1>a, <2>1, <2>4 DEF FlightInv, CallTypes, Requesting, ShouldCache
  <2> QED
    BY <1>a, <1>b, <2>4, <2>6, <2>7 DEF CacheTypes, WorldTypes, history
<1>4. ASSUME NEW c \in Callers, Refuse(c) PROVE Shape'
  <2>1. CallTypes' /\ FlightInv' /\ UNCHANGED outdated
    BY <1>4, RetryShape DEF Refuse, At, Requesting
  <2> QED
    BY <1>a, <1>b, <1>4, <2>1 DEF Refuse, CacheTypes, WorldTypes
<1>5. ASSUME NEW c \in Callers, ReadBody(c) PROVE Shape'
  <2>1. call[c] = "body" /\ want[c] \in Keys /\ request[c].version \in Versions
    BY <1>a, <1>5 DEF ReadBody, At, FlightInv, CallTypes
  <2>2. Waiting(c) \in SUBSET Callers
    BY DEF Waiting
  <2>3. /\ call' \in [Callers -> {"idle", "ask", "body", "join", "work", "silent"}]
        /\ want' \in [Callers -> Keys \cup {None}]
        /\ outdated' \subseteq Keys
        /\ \A d \in Callers \ Waiting(c) : call'[d] = call[d] /\ want'[d] = want[d]
        /\ \A d \in Waiting(c) : call'[d] = "idle" \/ (call'[d] = "work" /\ want'[d] = want[c])
    <3>1. Answer(Waiting(c), want[c], request[c].version, MaxAsked(Waiting(c)))
      BY <1>5 DEF ReadBody
    <3> QED
      BY <1>a, <2>1, <2>2, <3>1 DEF Answer, CallTypes, WorldTypes
  <2>4. since' \in [Callers -> Versions]
    BY <1>a, <1>5, <2>2, ForgetTypes DEF ReadBody
  <2>5. NoRequest \in [node : 0 .. Nodes, first : BOOLEAN, left : 0 .. MaxTries,
                       backoff : Nat, version : Versions, sure : BOOLEAN]
    BY KeySorts DEF NoRequest, Versions
  <2>6. CallTypes'
    BY <1>a, <1>5, <2>3, <2>4, <2>5 DEF ReadBody, Land, CallTypes
  <2>7. FlightInv'
    <3>1. inFlight' = [k \in Keys |-> IF inFlight[k] = c THEN None ELSE inFlight[k]]
      BY <1>5 DEF ReadBody, Land
    <3>2. /\ c \in Waiting(c)
          /\ \A d \in Callers : call[d] = "join" /\ want[d] \in Keys /\ inFlight[want[d]] = c
               => d \in Waiting(c)
      BY <1>a, <2>1 DEF FlightInv, Waiting, At, Requesting
    <3>3. \A d \in Callers : call'[d] \notin {"idle", "work"} =>
            d # c /\ d \notin Waiting(c) /\ call'[d] = call[d] /\ want'[d] = want[d]
      BY <2>3, <3>2
    <3>4. \A d \in Callers : call'[d] # "idle" => want'[d] \in Keys
      BY <1>a, <2>1, <2>3 DEF FlightInv
    <3>5. \A d \in Callers : Requesting(d)' /\ ShouldCache(want'[d])
                               => inFlight'[want'[d]] = d
      BY <1>a, <3>1, <3>3 DEF FlightInv, Requesting
    <3>6. ASSUME NEW k \in Keys, NEW d \in Callers, inFlight'[k] = d
          PROVE  Requesting(d)' /\ want'[d] = k /\ ShouldCache(k)
      <4>1. inFlight[k] = d /\ d # c
        BY <3>1, <3>6, KeySorts
      <4>2. Requesting(d) /\ want[d] = k /\ ShouldCache(k) /\ d \notin Waiting(c)
        BY <1>a, <4>1 DEF FlightInv, Waiting, At, Requesting
      <4> QED
        BY <2>3, <4>2 DEF Requesting
    <3>7. \A d \in Callers :
            call'[d] = "join" => ShouldCache(want'[d]) /\ inFlight'[want'[d]] \in Callers
      BY <1>a, <3>1, <3>2, <3>3 DEF FlightInv
    <3> QED
      BY <3>4, <3>5, <3>6, <3>7 DEF FlightInv, ShouldCache
  <2>8. CacheTypes'
    BY <1>a, <1>5, <2>1, InsertKeeps DEF ReadBody, CacheTypes
  <2> QED
    BY <1>b, <1>5, <2>3, <2>6, <2>7, <2>8 DEF ReadBody
<1>6. ASSUME NEW c \in Callers, BreakBody(c) PROVE Shape'
  <2>1. CallTypes' /\ FlightInv' /\ UNCHANGED outdated
    BY <1>6, RetryShape, RejectShape DEF BreakBody, At, Requesting
  <2> QED
    BY <1>a, <1>b, <1>6, <2>1 DEF BreakBody, CacheTypes, WorldTypes
<1>7. ASSUME NEW c \in Callers, NEW result \in BOOLEAN, WorkEnds(c, result),
             call[c] \in {"work", "silent"}, Fault \/ UNCHANGED faults
      PROVE  Shape'
  <2>1. CallTypes' /\ FlightInv' /\ UNCHANGED <<items, nodeVars, outdated>>
    BY <1>7, WorkEndsShape DEF Requesting
  <2> QED
    BY <1>a, <1>b, <1>7, <2>1 DEF CacheTypes, WorldTypes
<1>8. ASSUME NEW c \in Callers, PostMessage(c) \/ WorkFails(c) \/ WorkerTimeout(c)
      PROVE  Shape'
  BY <1>7, <1>8 DEF PostMessage, WorkFails, WorkerTimeout, At
<1>9. ASSUME NEW c \in Callers, ExitSilently(c) PROVE Shape'
  <2>1. /\ call[c] = "work" /\ call' = [call EXCEPT ![c] = "silent"] /\ Fault
        /\ UNCHANGED <<nodeVars, items, inFlight, request, want, history>>
    BY <1>9 DEF ExitSilently, At
  <2>2. CallTypes' /\ FlightInv'
    BY <1>a, <2>1 DEF CallTypes, FlightInv, Requesting, ShouldCache, history
  <2> QED
    BY <1>a, <1>b, <2>1, <2>2 DEF CacheTypes, WorldTypes, history
<1>10. CASE UNCHANGED vars
  BY <1>a, <1>10 DEF vars, nodeVars, history, Shape, CacheTypes, CallTypes, WorldTypes,
     FlightInv, Requesting
<1> QED
  BY <1>1, <1>2, <1>3, <1>4, <1>5, <1>6, <1>8, <1>9, <1>10 DEF Next, Proceed

-----------------------------------------------------------------------------
(***************************************************************************)
(* Truthful is inductive, given Shape.                                     *)
(***************************************************************************)
Pending(c) == call[c] \in {"ask", "body", "join"}

(* Nobody has asked initially, and nothing is cached.                      *)
LEMMA TruthfulInit == Init => Truthful
BY KeySorts DEF Init, Truthful, FixedInv, AskedInv, AnsweredInv, CacheIsNeverStale,
   AnswersAreCurrent

(* A step that begins no request and gives no answer.                      *)
LEMMA TruthfulQuiet ==
  ASSUME Truthful, UNCHANGED <<truth, final, items, outdated>>,
         \A c \in Callers : Pending(c)' =>
           Pending(c) /\ want'[c] = want[c] /\ since'[c] = since[c],
         \A c \in Callers : call'[c] = "body" =>
           call[c] = "body" /\ request'[c] = request[c]
  PROVE  Truthful'
<1>1. FixedInv' /\ CacheIsNeverStale' /\ AnswersAreCurrent'
  BY DEF Truthful, FixedInv, CacheIsNeverStale, AnswersAreCurrent
<1>2. AskedInv'
  BY DEF Truthful, AskedInv, Pending
<1>3. AnsweredInv'
  BY DEF Truthful, AnsweredInv, Pending
<1> QED
  BY <1>1, <1>2, <1>3 DEF Truthful

(* A call that fails is retried, or given up for all who wait for it.      *)
LEMMA FailTruthful ==
  ASSUME Shape, Truthful, NEW c \in Callers, Requesting(c),
         CallFails(c) \/ Reject(c), UNCHANGED <<nodeVars, items>>
  PROVE  Truthful'
<1>1. call \in [Callers -> {"idle", "ask", "body", "join", "work", "silent"}]
      /\ request \in [Callers -> [node : 0 .. Nodes, first : BOOLEAN, left : 0 .. MaxTries,
                                  backoff : Nat, version : Versions, sure : BOOLEAN]]
      /\ c \in Waiting(c)
  BY DEF Shape, CallTypes, Waiting
<1>2. CASE Reject(c)
  BY <1>1, <1>2, TruthfulQuiet DEF Reject, Land, Forget, Pending, nodeVars
<1>3. ASSUME NEW r, Retry(c, r) PROVE Truthful'
  <2>1. /\ call' = [call EXCEPT ![c] = "ask"] /\ request' = [request EXCEPT ![c] = r]
        /\ UNCHANGED <<truth, final, items, outdated, want, since>>
    BY <1>3 DEF Retry, nodeVars, history
  <2>2. \A d \in Callers : Pending(d)' =>
          Pending(d) /\ want'[d] = want[d] /\ since'[d] = since[d]
    BY <1>1, <2>1 DEF Pending, Requesting
  <2>3. \A d \in Callers : call'[d] = "body" =>
          call[d] = "body" /\ request'[d] = request[d]
    BY <1>1, <2>1
  <2> QED
    BY <2>1, <2>2, <2>3, TruthfulQuiet
<1> QED
  BY <1>2, <1>3 DEF CallFails

(* What getOrFetch finds in the cache is what the node knows.              *)
LEMMA FetchTruthful ==
  ASSUME Shape, Truthful, NEW c \in Callers, NEW k \in Keys, call[c] = "idle",
         GetOrFetch(c, k), UNCHANGED nodeVars
  PROVE  Truthful'
<1>1. CacheTypes /\ CallTypes /\ WorldTypes /\ truth[k] \in Nat
      /\ FixedInv /\ AskedInv /\ AnsweredInv /\ CacheIsNeverStale /\ AnswersAreCurrent
  BY KeySorts DEF Shape, Truthful, WorldTypes, Versions
<1>2. UNCHANGED <<truth, final>> /\ FixedInv'
  BY <1>1 DEF nodeVars, FixedInv
<1>3. ASSUME NEW i \in Cached(k), items' = Append(Without(i), items[i]),
             Answer({c}, k, items[i].version, truth[k]),
             UNCHANGED <<inFlight, request, since>>
      PROVE  Truthful'
  <2>1. items[i].version = truth[k]
    BY <1>1, <1>3 DEF Cached, CacheIsNeverStale
  <2>2. UNCHANGED outdated
    BY <1>1, <1>3, <2>1 DEF Answer
  <2>3. /\ \A d \in Callers \ {c} : call'[d] = call[d] /\ want'[d] = want[d]
        /\ call'[c] \in {"idle", "work"}
    BY <1>3 DEF Answer
  <2>4. AskedInv' /\ AnsweredInv'
    BY <1>1, <1>2, <1>3, <2>3 DEF AskedInv, AnsweredInv
  <2>5. Only(items', items[i]) /\ i \in DOMAIN items
    BY <1>1, <1>3, TouchKeeps DEF Cached
  <2>6. CacheIsNeverStale'
    BY <1>1, <1>2, <2>5 DEF CacheIsNeverStale, Only
  <2> QED
    BY <1>1, <1>2, <2>2, <2>4, <2>6 DEF Truthful, AnswersAreCurrent
<1>4. ASSUME call' \in {[call EXCEPT ![c] = "join"], [call EXCEPT ![c] = "ask"]},
             \A d \in Callers \ {c} : request'[d] = request[d],
             want' = [want EXCEPT ![c] = k], since' = [since EXCEPT ![c] = truth[k]],
             UNCHANGED <<items, outdated>>
      PROVE  Truthful'
  <2>1. AskedInv'
    BY <1>1, <1>2, <1>4 DEF AskedInv, CallTypes, FixedInv
  <2>2. AnsweredInv'
    BY <1>1, <1>2, <1>4 DEF AnsweredInv, CallTypes
  <2> QED
    BY <1>1, <1>2, <1>4, <2>1, <2>2 DEF Truthful, CacheIsNeverStale, AnswersAreCurrent
<1> QED
  BY <1>1, <1>3, <1>4 DEF GetOrFetch, Ask, CallTypes

(* The body of an answer is no older than what any of those who wait for   *)
(* it asked for, unless it is a list of children; and it is cached only    *)
(* when it is final.                                                       *)
LEMMA ReadTruthful ==
  ASSUME Shape, Truthful, NEW c \in Callers, ReadBody(c)
  PROVE  Truthful'
<1> DEFINE k == want[c]
           v == request[c].version
<1>1. /\ CacheTypes /\ CallTypes /\ WorldTypes /\ FlightInv
      /\ FixedInv /\ AskedInv /\ AnsweredInv /\ CacheIsNeverStale /\ AnswersAreCurrent
  BY DEF Shape, Truthful
<1>2. /\ call[c] = "body" /\ k \in Keys /\ v \in Versions /\ truth[k] \in Versions
  BY <1>1 DEF ReadBody, At, FlightInv, CallTypes, WorldTypes
<1>3. UNCHANGED <<truth, final>> /\ FixedInv'
  BY <1>1 DEF ReadBody, nodeVars, FixedInv
<1>4. \A d \in Callers : call'[d] = call[d] \/ call'[d] \in {"idle", "work"}
  BY DEF ReadBody, Answer
<1>5. \A d \in Callers : Pending(d)' =>
        /\ call'[d] = call[d] /\ want'[d] = want[d] /\ since'[d] = since[d]
        /\ request'[d] = request[d]
  BY <1>1, <1>2 DEF ReadBody, Answer, Forget, Land, Pending, CallTypes, Waiting
<1>6. AskedInv' /\ AnsweredInv'
  BY <1>1, <1>3, <1>5 DEF AskedInv, AnsweredInv, Pending
<1>7. CacheIsNeverStale'
  <2>1. CASE items' = items
    BY <1>1, <1>3, <2>1 DEF CacheIsNeverStale
  <2>2. CASE ShouldCache(k) /\ ShouldCacheValue(k, v, request[c].sure) /\ items' = Insert(k, v)
    <3>1. k \in final /\ v = truth[k]
      BY <1>1, <1>2, <2>2, KeySorts
         DEF ShouldCache, ShouldCacheValue, AnsweredInv, FixedInv, Versions
    <3>2. Only(items', [key |-> k, version |-> v])
      BY <1>1, <1>2, <2>2, InsertKeeps
    <3> QED
      BY <1>1, <1>3, <3>1, <3>2 DEF CacheIsNeverStale, Only
  <2> QED
    BY <2>1, <2>2 DEF ReadBody
<1>8. AnswersAreCurrent'
  <2>1. CASE k \in Children
    BY <1>1, <2>1 DEF ReadBody, Answer, AnswersAreCurrent
  <2>2. CASE k \notin Children
    <3>1. \A d \in Waiting(c) : since[d] = since[c]
      <4>1. CASE k \in Fixed
        BY <1>1, <1>2, <4>1 DEF Waiting, AskedInv, At
      <4>2. CASE k \in Dynamic
        BY <1>1, <1>2, <4>2 DEF Waiting, FlightInv, ShouldCache, At
      <4> QED
        BY <1>2, <2>2, <4>1, <4>2, KeySorts
    <3>2. c \in Waiting(c)
      BY DEF Waiting
    <3>3. {since[d] : d \in Waiting(c)} = {since[c]}
      BY <3>1, <3>2
    <3>4. since[c] \in Nat /\ since[c] <= since[c]
      BY <1>1, KeySorts DEF CallTypes, Versions
    <3>5. MaxAsked(Waiting(c)) = since[c]
      BY <3>1, <3>2, <3>3, <3>4 DEF MaxAsked
    <3>6. ~(v < MaxAsked(Waiting(c)))
      BY <1>1, <1>2, <3>4, <3>5, KeySorts DEF AnsweredInv, Versions
    <3> QED
      BY <1>1, <3>6 DEF ReadBody, Answer, AnswersAreCurrent
  <2> QED
    BY <2>1, <2>2
<1> QED
  BY <1>3, <1>6, <1>7, <1>8 DEF Truthful

(* Every step keeps what is known in accordance with the node.             *)
LEMMA TruthfulNext == Shape /\ Truthful /\ [Next]_vars => Truthful'
<1> SUFFICES ASSUME Shape, Truthful, [Next]_vars PROVE Truthful'
  OBVIOUS
<1>a. /\ CacheTypes /\ CallTypes /\ WorldTypes /\ FlightInv
      /\ FixedInv /\ AskedInv /\ AnsweredInv /\ CacheIsNeverStale /\ AnswersAreCurrent
  BY DEF Shape, Truthful
<1>1. CASE Advance
  <2>1. /\ UNCHANGED <<final, items, call, request, want, since, outdated>>
        /\ \A k \in Keys : truth[k] \in Nat /\ truth'[k] \in Nat /\ truth[k] <= truth'[k]
        /\ \A k \in final : truth'[k] = truth[k]
    BY <1>a, <1>1, KeySorts DEF Advance, WorldTypes, Versions, history
  <2>2. FixedInv' /\ CacheIsNeverStale'
    BY <1>a, <2>1 DEF FixedInv, CacheIsNeverStale
  <2>3. \A c \in Callers : Pending(c) => want[c] \in Keys /\ since[c] \in Nat
                                           /\ request[c].version \in Nat
    BY <1>a, KeySorts DEF Pending, FlightInv, CallTypes, Versions
  <2>4. AskedInv'
    BY <1>a, <2>1, <2>3 DEF AskedInv, Pending
  <2>5. AnsweredInv'
    BY <1>a, <2>1, <2>3 DEF AnsweredInv, Pending
  <2> QED
    BY <1>a, <2>1, <2>2, <2>4, <2>5 DEF Truthful, AnswersAreCurrent
<1>2. CASE Finalize
  BY <1>a, <1>2 DEF Finalize, history, Truthful, FixedInv, AskedInv, AnsweredInv,
     CacheIsNeverStale, AnswersAreCurrent
<1>3. CASE Break \/ Repair
  BY <1>a, <1>3, TruthfulQuiet DEF Break, Repair, history, Pending
<1>4. ASSUME NEW c \in Callers, Begin(c) \/ Repeat(c) PROVE Truthful'
  <2>1. PICK k \in Keys : GetOrFetch(c, k)
    BY <1>a, <1>4, KeySorts DEF Begin, Repeat, CallTypes
  <2> QED
    BY <1>4, <2>1, FetchTruthful DEF Begin, Repeat, At
<1>5. ASSUME NEW c \in Callers, Respond(c) PROVE Truthful'
  <2> DEFINE k == want[c]
  <2>1. /\ k \in Keys /\ truth[k] \in Nat /\ since[c] \in Nat /\ call[c] = "ask"
    BY <1>a, <1>5, KeySorts DEF Respond, At, FlightInv, WorldTypes, CallTypes, Versions
  <2>2. PICK sure \in BOOLEAN :
          /\ sure => k \in final \/ truth[k] = 0
          /\ request' = [request EXCEPT ![c] =
                           [@ EXCEPT !.version = truth[k], !.sure = sure]]
    BY <1>5, Zenon DEF Respond
  <2>3. /\ call' = [call EXCEPT ![c] = "body"]
        /\ UNCHANGED <<truth, final, items, want, since, outdated>>
    BY <1>5 DEF Respond, nodeVars, history
  <2>4. request'[c].version = truth[k] /\ request'[c].sure = sure
    BY <1>a, <2>2 DEF CallTypes
  <2>5. \A d \in Callers \ {c} : request'[d] = request[d] /\ call'[d] = call[d]
    BY <1>a, <2>2, <2>3 DEF CallTypes
  <2>6. AskedInv'
    BY <1>a, <2>1, <2>3, <2>5 DEF AskedInv
  <2>7. AnsweredInv'
    BY <1>a, <2>1, <2>2, <2>3, <2>4, <2>5 DEF AnsweredInv, AskedInv, FixedInv
  <2> QED
    BY <1>a, <2>3, <2>6, <2>7 DEF Truthful, FixedInv, CacheIsNeverStale, AnswersAreCurrent
<1>6. ASSUME NEW c \in Callers, Refuse(c) \/ BreakBody(c) PROVE Truthful'
  BY <1>6, FailTruthful DEF Refuse, BreakBody, At, Requesting
<1>7. ASSUME NEW c \in Callers, ReadBody(c) PROVE Truthful'
  BY <1>7, ReadTruthful
<1>8. ASSUME NEW c \in Callers, NEW result, WorkEnds(c, result), ~Requesting(c),
             call[c] # "join"
      PROVE  Truthful'
  <2>1. /\ call' = [call EXCEPT ![c] = "idle"]
        /\ UNCHANGED <<truth, final, items, outdated, request, since>>
    BY <1>8 DEF WorkEnds, nodeVars, history
  <2>2. \A d \in Callers \ {c} : want'[d] = want[d]
    BY <1>a, <1>8 DEF WorkEnds, CallTypes
  <2> QED
    BY <1>a, <2>1, <2>2, TruthfulQuiet DEF Pending, CallTypes
<1>9. ASSUME NEW c \in Callers, PostMessage(c) \/ WorkFails(c) \/ WorkerTimeout(c)
      PROVE  Truthful'
  BY <1>8, <1>9 DEF PostMessage, WorkFails, WorkerTimeout, At, Requesting
<1>10. ASSUME NEW c \in Callers, ExitSilently(c) PROVE Truthful'
  BY <1>a, <1>10, TruthfulQuiet DEF ExitSilently, At, nodeVars, history, Pending, CallTypes
<1>11. CASE UNCHANGED vars
  BY <1>11, TruthfulQuiet DEF vars, nodeVars, history, Pending
<1> QED
  BY <1>1, <1>2, <1>3, <1>4, <1>5, <1>6, <1>7, <1>9, <1>10, <1>11 DEF Next, Proceed

-----------------------------------------------------------------------------
(***************************************************************************)
(* The theorems.                                                           *)
(***************************************************************************)
(* Shape and Truthful hold in every reachable state.                       *)
LEMMA Invariance == Spec => [](Shape /\ Truthful)
<1>1. Init => Shape /\ Truthful
  BY ShapeInit, TruthfulInit
<1>2. (Shape /\ Truthful) /\ [Next]_vars => (Shape /\ Truthful)'
  BY ShapeNext, TruthfulNext
<1> QED
  BY <1>1, <1>2, PTL DEF Spec

(* Every variable keeps its type, and the cache its capacity.              *)
THEOREM TypeCorrect == Spec => []TypeOK
<1>1. Shape => TypeOK
  BY DEF Shape, CacheTypes, CallTypes, WorldTypes, TypeOK, Items
<1> QED
  BY <1>1, Invariance, PTL

(* Whatever answers arrive late, and whatever is evicted, what the cache   *)
(* holds is final and is what the node would answer now.                   *)
THEOREM CacheStaysTrue == Spec => []CacheIsNeverStale
<1>1. Truthful => CacheIsNeverStale
  BY DEF Truthful
<1> QED
  BY <1>1, Invariance, PTL

(* Two callers never request the same cacheable key at once, also after    *)
(* failures, retries and answers that were not cached.                     *)
THEOREM RequestsAreShared == Spec => []OneRequestPerKey
<1>1. Shape => OneRequestPerKey
  BY KeySorts DEF Shape, FlightInv, CallTypes, OneRequestPerKey, Requesting, ShouldCache
<1> QED
  BY <1>1, Invariance, PTL

(* But for a list of children, no answer is older than the question, of    *)
(* however many callers it is the answer.                                  *)
THEOREM NoAnswerIsOutdated == Spec => []AnswersAreCurrent
<1>1. Truthful => AnswersAreCurrent
  BY DEF Truthful
<1> QED
  BY <1>1, Invariance, PTL
=============================================================================
