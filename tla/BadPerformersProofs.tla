------------------------ MODULE BadPerformersProofs ------------------------
(***************************************************************************)
(* Proofs about BadPerformers, for every set of keys, trees and            *)
(* parameters, any number of names for calls and any number of faults.     *)
(*                                                                         *)
(* That a processed tree is done is not inductive: the mark is set from    *)
(* what a call has kept in its list since it read the caches.  Accounted   *)
(* says what the list of each suspension point still stands for, Single    *)
(* that no other call changes the caches meanwhile, and Monotone that the  *)
(* views never run back, so that a tree once marked is not compared with   *)
(* a newer cached one.                                                     *)
(***************************************************************************)
EXTENDS BadPerformers, FiniteSetTheorems, TLAPS

Single == \A r, s \in Rounds : ~At(r, "idle") /\ ~At(s, "idle") => r = s

Monotone ==
  /\ final.tree <= justified.tree /\ justified.tree <= head.tree
  /\ final.ejected \subseteq justified.ejected /\ justified.ejected \subseteq head.ejected
  /\ currentTree <= final.tree /\ lastProcessed <= currentTree
  /\ \A r \in Rounds :
       /\ call[r].view.ejected \subseteq head.ejected
       /\ ~At(r, "idle") => /\ currentTree <= call[r].view.tree
                            /\ call[r].view.tree <= final.tree

Due == BadOf(currentTree, currentParams)

(* The due keys that a call has not dropped as proven are in its list. *)
Accounted(r) ==
  /\ call[r].at \in {"idle", "limit", "prepare", "keys"} =>
       call[r].list = {} /\ call[r].picked = NoTree
  /\ call[r].at \in {"unproven", "withdrawn", "cap", "batch"} => call[r].picked = currentTree
  /\ At(r, "unproven") => Due \subseteq call[r].list
  /\ At(r, "withdrawn") => Due \subseteq call[r].list \cup head.ejected
  /\ At(r, "cap") => Due \subseteq call[r].list \cup Proven
  /\ At(r, "batch") /\ call[r].all => Due \subseteq call[r].list \cup Proven

(* The caches are filled together. *)
CachesFilled == currentTree # NoTree => currentParams # NoParams

Inv ==
  /\ TypeOK /\ Single /\ Monotone /\ CachesFilled
  /\ \A r \in Rounds : Accounted(r)
  /\ ProcessedTreeIsDone

-----------------------------------------------------------------------------
(* The sorts of the constants. *)
LEMMA TaskTypes ==
  /\ NumTrees \in Nat /\ Params \subseteq Nat \ {NoParams} /\ FirstParams \in Params
  /\ Keys \subseteq Nat /\ IsFiniteSet(Keys)
  /\ \A t \in Trees \cup {NoTree}, p \in Params : BadOf(t, p) \subseteq Keys
  /\ BatchSize \in Nat \ {0} /\ MaxLimit \in Nat \ {0}
  /\ MaxParamChanges \in Nat /\ MaxFaults \in Nat
  /\ Trees \subseteq Nat /\ NoTree \in Nat /\ Trees \cup {NoTree} = 0 .. NumTrees
  /\ FirstView \in Views /\ NoCall \in Calls
<1>1. FirstView \in Views /\ NoCall \in Calls
  <2>1. FirstView \in Views
    BY TaskConstants DEF FirstView, Views
  <2>2. /\ "idle" \in Steps /\ {} \in SUBSET Keys /\ FALSE \in BOOLEAN
        /\ NoTree \in Trees \cup {NoTree}
    BY DEF Steps
  <2>3. NoCall \in Calls
    BY <2>1, <2>2, Zenon DEF NoCall, Calls
  <2> QED
    BY <2>1, <2>3
<1>2. \A t \in Trees \cup {NoTree}, p \in Params : BadOf(t, p) \subseteq Keys
  <2> TAKE t \in Trees \cup {NoTree}, p \in Params
  <2>1. CASE t = NoTree
    BY <2>1 DEF BadOf
  <2>2. CASE t # NoTree
    <3>1. <<t, p>> \in Trees \X Params
      BY <2>2
    <3>2. Bad[<<t, p>>] \in SUBSET Keys
      BY <3>1, TaskConstants
    <3> QED
      BY <2>2, <3>2 DEF BadOf
  <2> QED
    BY <2>1, <2>2
<1> QED
  BY <1>1, <1>2, TaskConstants DEF Trees, NoTree

(* slice(0, n) of a list no longer than n is the list, so that `all` means *)
(* that nothing was deferred.                                              *)
LEMMA WholeListFits ==
  ASSUME NEW list \in SUBSET Keys, NEW n \in Nat, n >= Cardinality(list)
  PROVE  First(n, list) = list
<1>1. IsFiniteSet(list)
  BY TaskTypes, FS_Subset
<1>2. \A k \in list : Cardinality({j \in list : j <= k}) <= n
  <2> TAKE k \in list
  <2> DEFINE below == {j \in list : j <= k}
  <2>1. below \subseteq list
    OBVIOUS
  <2>2. Cardinality(below) <= Cardinality(list) /\ IsFiniteSet(below)
    BY <1>1, <2>1, FS_Subset
  <2>3. Cardinality(below) \in Nat /\ Cardinality(list) \in Nat
    BY <1>1, <2>2, FS_CardinalityType
  <2> HIDE DEF below
  <2>4. Cardinality(below) <= n
    BY <2>2, <2>3
  <2> QED
    BY <2>4 DEF below
<1> QED
  BY <1>2 DEF First

(* A list is cut, never extended. *)
LEMMA CutsAreLists ==
  ASSUME NEW list \in SUBSET Keys, NEW n \in Int
  PROVE  First(n, list) \in SUBSET Keys /\ BatchOf(list) \in SUBSET Keys
BY DEF First, BatchOf

(* The number of a batch is a natural number. *)
LEMMA BatchSizes ==
  ASSUME NEW list \in SUBSET Keys
  PROVE  Cardinality(BatchOf(list)) \in Nat
BY TaskTypes, CutsAreLists, FS_Subset, FS_CardinalityType DEF BatchOf

-----------------------------------------------------------------------------
(* The initial state satisfies the invariant. *)
LEMMA InvInit == Init => Inv
<1> SUFFICES ASSUME Init PROVE Inv
  OBVIOUS
<1> USE DEF Init, ServiceInit
<1>1. TypeOK
  <2>1. NoTree \in Trees \cup {NoTree}
    OBVIOUS
  <2> QED
    BY <2>1, TaskTypes DEF TypeOK
<1>2. Single /\ (\A r \in Rounds : Accounted(r))
  BY DEF Single, Accounted, At, NoCall
<1>3. Monotone
  BY DEF Monotone, At, NoCall, FirstView, NoTree
<1>4. ProcessedTreeIsDone /\ CachesFilled
  BY DEF ProcessedTreeIsDone, CachesFilled
<1> QED
  BY <1>1, <1>2, <1>3, <1>4 DEF Inv

-----------------------------------------------------------------------------
(* What an environment step may do: views, ejections and withdrawals only  *)
(* grow, and the caches and the calls are left alone.                      *)
LEMMA ChainStep ==
  ASSUME Inv, TypeOK', UNCHANGED <<call, serviceVars>>,
         withdrawn \subseteq withdrawn',
         head.ejected \subseteq head'.ejected, final.tree <= final'.tree,
         final'.tree <= justified'.tree, justified'.tree <= head'.tree,
         final'.ejected \subseteq justified'.ejected,
         justified'.ejected \subseteq head'.ejected
  PROVE  Inv'
<1> USE DEF serviceVars, cacheVars, markVars
<1>1. Single'
  BY DEF Inv, Single, At
<1>2. Monotone'
  <2>1. /\ final.tree \in Nat /\ final'.tree \in Nat /\ currentTree \in Nat
        /\ \A r \in Rounds : call[r].view.tree \in Nat
    BY TaskTypes DEF Inv, TypeOK, Views, Calls
  <2> QED
    BY <2>1 DEF Inv, Monotone, At
<1>3. \A r \in Rounds : Accounted(r)'
  <2> TAKE r \in Rounds
  <2>1. Accounted(r)
    BY DEF Inv
  <2> QED
    BY <2>1 DEF Accounted, At, Due, Proven
<1>4. ProcessedTreeIsDone' /\ CachesFilled'
  BY DEF Inv, ProcessedTreeIsDone, Proven, CachesFilled
<1> QED
  BY <1>1, <1>2, <1>3, <1>4 DEF Inv

(* A step of the running call: by Single the other calls are idle, and     *)
(* nothing is said of an idle call but that it holds no list.              *)
LEMMA CallStep ==
  ASSUME Inv, TypeOK', NEW r \in Rounds, ~At(r, "idle"),
         \A s \in Rounds \ {r} : call'[s] = call[s],
         final' = final, justified' = justified, head'.tree = head.tree,
         head.ejected \subseteq head'.ejected,
         currentTree' <= final.tree, lastProcessed' <= currentTree',
         call'[r].view.ejected \subseteq head.ejected,
         ~At(r, "idle")' => currentTree' <= call'[r].view.tree /\ call'[r].view.tree <= final.tree,
         Accounted(r)', ProcessedTreeIsDone', CachesFilled'
  PROVE  Inv'
<1>1. \A s \in Rounds \ {r} : At(s, "idle") /\ At(s, "idle")'
  BY DEF Inv, Single, At
<1>2. Single'
  BY <1>1 DEF Single
<1>3. Monotone'
  BY <1>1 DEF Inv, Monotone, At
<1>4. \A s \in Rounds : Accounted(s)'
  <2> TAKE s \in Rounds
  <2>1. CASE s = r
    BY <2>1
  <2>2. CASE s # r
    <3>1. Accounted(s) /\ call'[s] = call[s] /\ call[s].at = "idle"
      BY <1>1, <2>2 DEF Inv, At
    <3> QED
      BY <3>1 DEF Accounted, At
  <2> QED
    BY <2>1, <2>2
<1> QED
  BY <1>2, <1>3, <1>4 DEF Inv

(* A call that returns or throws holds nothing. *)
LEMMA CallEnds ==
  ASSUME Inv, NEW r \in Rounds, ~At(r, "idle"), End(r)
  PROVE  /\ call' \in [Rounds -> Calls]
         /\ \A s \in Rounds \ {r} : call'[s] = call[s]
         /\ At(r, "idle")' /\ Accounted(r)'
         /\ call'[r].view.ejected \subseteq head.ejected
<1>1. call' \in [Rounds -> Calls] /\ call'[r] = NoCall
  BY TaskTypes DEF Inv, TypeOK, End
<1>2. \A s \in Rounds \ {r} : call'[s] = call[s]
  BY DEF Inv, TypeOK, End
<1>3. At(r, "idle")' /\ Accounted(r)' /\ call'[r].view.ejected \subseteq head.ejected
  BY <1>1 DEF At, Accounted, NoCall, FirstView
<1> QED
  BY <1>1, <1>2, <1>3

(* A call that ends leaving the caches and the mark alone. *)
LEMMA QuietEnd ==
  ASSUME Inv, TypeOK', NEW r \in Rounds, ~At(r, "idle"), End(r),
         UNCHANGED serviceVars, final' = final, justified' = justified,
         head'.tree = head.tree, head.ejected \subseteq head'.ejected,
         withdrawn \subseteq withdrawn'
  PROVE  Inv'
<1> USE DEF serviceVars, cacheVars, markVars
<1>1. ProcessedTreeIsDone' /\ CachesFilled'
  BY DEF Inv, ProcessedTreeIsDone, Proven, CachesFilled
<1>2. currentTree' <= final.tree /\ lastProcessed' <= currentTree'
  BY DEF Inv, Monotone
<1> QED
  BY <1>1, <1>2, CallEnds, CallStep

(* A call that ends having accounted for every due key may mark the tree. *)
LEMMA MarkedEnd ==
  ASSUME Inv, TypeOK', NEW r \in Rounds, ~At(r, "idle"), End(r),
         MarkProcessed, Due \subseteq Proven',
         UNCHANGED cacheVars, final' = final, justified' = justified,
         head'.tree = head.tree, head.ejected \subseteq head'.ejected
  PROVE  Inv'
<1>1. ProcessedTreeIsDone' /\ CachesFilled'
  BY DEF Inv, ProcessedTreeIsDone, Due, MarkProcessed, CachesFilled, cacheVars
<1>2. currentTree' <= final.tree /\ lastProcessed' <= currentTree'
  <2>1. currentTree \in Int
    BY TaskTypes DEF Inv, TypeOK
  <2> QED
    BY <2>1 DEF Inv, Monotone, MarkProcessed, cacheVars
<1> QED
  BY <1>1, <1>2, CallEnds, CallStep

(* Narrowing the list keeps every due key accounted for. *)
LEMMA KeepsAccounts ==
  ASSUME Inv, NEW r \in Rounds, NEW list \in SUBSET Keys,
         NEW next \in {"unproven", "withdrawn", "cap"},
         call[r].at \in {"keys", "unproven", "withdrawn"},
         next = "unproven" => Due \subseteq list,
         next = "withdrawn" => Due \subseteq list \cup head.ejected,
         Due \subseteq list \cup Proven,
         Keep(r, list, next),
         UNCHANGED <<chainVars, faults, fresh, cacheVars, deferred>>
  PROVE  Inv'
<1>1. ~At(r, "idle")
  BY DEF At
<1>2. CASE list = {} /\ MarkProcessed /\ End(r)
  <2>1. TypeOK'
    BY <1>1, <1>2, CallEnds DEF Inv, TypeOK, MarkProcessed, chainVars, cacheVars
  <2>2. Due \subseteq Proven'
    BY <1>2 DEF Proven, chainVars
  <2> QED
    BY <1>1, <1>2, <2>1, <2>2, MarkedEnd DEF chainVars, cacheVars
<1>3. CASE /\ list # {}
           /\ call' = [call EXCEPT ![r].list = list, ![r].at = next,
                                   ![r].picked = IF @ = NoTree THEN currentTree ELSE @]
           /\ UNCHANGED markVars
  <2> USE DEF chainVars, cacheVars, markVars
  <2>1. /\ call[r] \in Calls /\ call \in [Rounds -> Calls]
        /\ currentTree \in Trees \cup {NoTree} /\ next \in Steps
    BY DEF Inv, TypeOK, Steps
  <2>2. (IF call[r].picked = NoTree THEN currentTree ELSE call[r].picked) = currentTree
    BY DEF Inv, Accounted, At
  <2>3. call' \in [Rounds -> Calls]
    <3> DEFINE c == [call[r] EXCEPT !.list = list, !.at = next, !.picked = currentTree]
    <3>1. c \in Calls
      BY <2>1 DEF Calls
    <3>2. call' = [call EXCEPT ![r] = c]
      BY <1>3, <2>1, <2>2 DEF Calls
    <3> QED
      BY <2>1, <3>1, <3>2
  <2>4. /\ call'[r].list = list /\ call'[r].at = next
        /\ call'[r].picked = currentTree /\ call'[r].view = call[r].view
        /\ \A s \in Rounds \ {r} : call'[s] = call[s]
    BY <1>3, <2>1, <2>2 DEF Calls
  <2>5. TypeOK'
    BY <1>3, <2>3 DEF Inv, TypeOK
  <2>6. Accounted(r)'
    <3>1. Due' = Due /\ Proven' = Proven /\ currentTree' = currentTree /\ head' = head
      BY DEF Due, Proven
    <3> QED
      BY <2>4, <3>1 DEF Accounted, At
  <2>7. ProcessedTreeIsDone' /\ CachesFilled'
    BY <1>3 DEF Inv, ProcessedTreeIsDone, Proven, CachesFilled
  <2>8. /\ currentTree' <= final.tree /\ lastProcessed' <= currentTree'
        /\ call'[r].view.ejected \subseteq head.ejected
        /\ currentTree' <= call'[r].view.tree /\ call'[r].view.tree <= final.tree
    BY <1>1, <1>3, <2>4 DEF Inv, Monotone
  <2> QED
    BY <1>1, <2>4, <2>5, <2>6, <2>7, <2>8, CallStep
<1> QED
  BY <1>2, <1>3 DEF Keep

-----------------------------------------------------------------------------
(* The chain's own steps. *)
LEMMA ChainKeepsInv ==
  ASSUME Inv, PublishTree \/ ChangeParams \/ ProveWithdrawal \/ Replenish \/ UsedByOthers \/ Finalize
  PROVE  Inv'
<1> USE DEF chainVars
<1>0. /\ head \in Views /\ justified \in Views /\ final \in Views
      /\ final.tree \in Nat /\ justified.tree \in Nat /\ head.tree \in Nat
      /\ limit \in 0 .. MaxLimit /\ MaxLimit \in Nat
      /\ faults \in 0 .. MaxFaults /\ MaxFaults \in Nat
      /\ changes \in 0 .. MaxParamChanges /\ MaxParamChanges \in Nat
  BY TaskTypes DEF Inv, TypeOK, Views
<1>1. ASSUME PublishTree PROVE Inv'
  <2>1. head' \in Views /\ head'.tree = head.tree + 1 /\ head'.ejected = head.ejected
    <3>1. head.tree + 1 \in Trees
      BY <1>0, <1>1, TaskTypes DEF PublishTree, Trees
    <3> QED
      BY <1>0, <1>1, <3>1 DEF PublishTree, Views
  <2>2. TypeOK'
    BY <1>1, <2>1 DEF Inv, TypeOK, PublishTree, serviceVars, cacheVars, markVars
  <2> QED
    BY <1>0, <1>1, <2>1, <2>2, ChainStep DEF PublishTree, Inv, Monotone
<1>2. ASSUME ChangeParams PROVE Inv'
  <2>1. head' \in Views /\ head'.tree = head.tree /\ head'.ejected = head.ejected
    BY <1>0, <1>2 DEF ChangeParams, Views
  <2>2. TypeOK'
    BY <1>0, <1>2, <2>1 DEF Inv, TypeOK, ChangeParams, serviceVars, cacheVars, markVars
  <2> QED
    BY <1>0, <1>2, <2>1, <2>2, ChainStep DEF ChangeParams, Inv, Monotone
<1>3. ASSUME ProveWithdrawal PROVE Inv'
  <2>1. withdrawn' \subseteq Keys /\ withdrawn \subseteq withdrawn'
    BY <1>3, TaskConstants DEF ProveWithdrawal, Inv, TypeOK
  <2>2. TypeOK'
    BY <1>3, <2>1 DEF Inv, TypeOK, ProveWithdrawal, serviceVars, cacheVars, markVars
  <2> QED
    BY <1>0, <1>3, <2>1, <2>2, ChainStep DEF ProveWithdrawal, Inv, Monotone
<1>4. ASSUME Replenish PROVE Inv'
  <2>1. TypeOK'
    BY <1>0, <1>4 DEF Inv, TypeOK, Replenish, serviceVars, cacheVars, markVars
  <2> QED
    BY <1>0, <1>4, <2>1, ChainStep DEF Replenish, Inv, Monotone
<1>5. ASSUME UsedByOthers PROVE Inv'
  <2>1. limit' \in 0 .. MaxLimit /\ faults' \in 0 .. MaxFaults
    BY <1>0, <1>5 DEF UsedByOthers, Fault
  <2>2. TypeOK'
    BY <1>5, <2>1 DEF Inv, TypeOK, UsedByOthers, serviceVars, cacheVars, markVars
  <2> QED
    BY <1>0, <1>5, <2>2, ChainStep DEF UsedByOthers, Inv, Monotone
<1>6. ASSUME Finalize PROVE Inv'
  <2>1. TypeOK'
    BY <1>6 DEF Inv, TypeOK, Finalize, serviceVars, cacheVars, markVars
  <2> QED
    BY <1>0, <1>6, <2>1, ChainStep DEF Finalize, Inv, Monotone
<1> QED
  BY <1>1, <1>2, <1>3, <1>4, <1>5, <1>6

(* A call is started only when none runs, so that it is the only one. *)
LEMMA PollKeepsInv ==
  ASSUME Inv, Poll
  PROVE  Inv'
<1> USE DEF chainVars, serviceVars, cacheVars, markVars
<1>1. CASE Busy /\ UNCHANGED call
  <2>1. TypeOK'
    BY <1>1 DEF Poll, Inv, TypeOK
  <2>2. final.tree \in Nat
    BY TaskTypes DEF Inv, TypeOK, Views
  <2>3. UNCHANGED <<call, serviceVars, head, justified, final, withdrawn>>
    BY <1>1 DEF Poll
  <2>4. /\ final.tree <= justified.tree /\ justified.tree <= head.tree
        /\ final.ejected \subseteq justified.ejected /\ justified.ejected \subseteq head.ejected
    BY DEF Inv, Monotone
  <2> QED
    BY <2>1, <2>2, <2>3, <2>4, ChainStep
<1>2. ASSUME ~Busy, NEW r \in Rounds, At(r, "idle"),
             call' = [call EXCEPT ![r].at = "limit", ![r].view = final]
      PROVE  Inv'
  <2> DEFINE c == [call[r] EXCEPT !.at = "limit", !.view = final]
  <2>1. c \in Calls /\ call' = [call EXCEPT ![r] = c] /\ call \in [Rounds -> Calls]
    BY <1>2 DEF Inv, TypeOK, Calls, Steps
  <2>2. /\ call'[r].at = "limit" /\ call'[r].view = final
        /\ call'[r].list = call[r].list /\ call'[r].picked = call[r].picked
        /\ \A s \in Rounds \ {r} : call'[s] = call[s]
    BY <2>1 DEF Calls
  <2>3. \A s \in Rounds : At(s, "idle") /\ Accounted(s)
    BY <1>2 DEF Busy, Inv
  <2>4. TypeOK'
    BY <2>1, <1>2 DEF Poll, Inv, TypeOK
  <2>5. Single'
    BY <2>2, <2>3 DEF Single, At
  <2>6. \A s \in Rounds : Accounted(s)'
    <3> TAKE s \in Rounds
    <3>1. call[s].list = {} /\ call[s].picked = NoTree /\ call'[s].at \in {"idle", "limit"}
      BY <2>2, <2>3 DEF Accounted, At
    <3>2. call'[s].list = {} /\ call'[s].picked = NoTree
      BY <3>1, <2>2
    <3> QED
      BY <3>1, <3>2 DEF Accounted, At
  <2>7. Monotone'
    <3>0. UNCHANGED <<head, justified, final, currentTree, lastProcessed>>
      BY DEF Poll
    <3>1. Monotone
      BY DEF Inv
    <3>2. final.tree <= final.tree /\ final.ejected \subseteq head.ejected
      BY <3>1, TaskTypes DEF Monotone, Inv, TypeOK, Views
    <3>3. \A s \in Rounds \ {r} : call'[s] = call[s] /\ At(s, "idle")
      BY <2>2, <2>3
    <3> QED
      BY <2>2, <3>0, <3>1, <3>2, <3>3 DEF Monotone, At
  <2>8. ProcessedTreeIsDone' /\ CachesFilled'
    BY DEF Poll, Inv, ProcessedTreeIsDone, Proven, CachesFilled
  <2> QED
    BY <2>4, <2>5, <2>6, <2>7, <2>8 DEF Inv
<1> QED
  BY <1>1, <1>2 DEF Poll

(* A restart forgets the calls and the mark. *)
LEMMA RestartKeepsInv ==
  ASSUME Inv, Restart
  PROVE  Inv'
<1> USE DEF chainVars
<1>1. TypeOK'
  <2>1. faults' \in 0 .. MaxFaults /\ NoTree \in Trees \cup {NoTree}
    BY TaskTypes DEF Inv, TypeOK, Restart, Fault
  <2> QED
    BY <2>1, TaskTypes DEF Inv, TypeOK, Restart
<1>2. Single' /\ (\A r \in Rounds : Accounted(r)')
  BY DEF Restart, Single, Accounted, At, NoCall
<1>3. Monotone'
  BY TaskTypes DEF Restart, Inv, TypeOK, Views, Monotone, At, NoCall, FirstView, NoTree
<1>4. ProcessedTreeIsDone' /\ CachesFilled'
  BY DEF Restart, ProcessedTreeIsDone, CachesFilled
<1> QED
  BY <1>1, <1>2, <1>3, <1>4 DEF Inv

-----------------------------------------------------------------------------
(* The steps of a call. *)
LEMMA CheckLimitKeepsInv ==
  ASSUME Inv, NEW r \in Rounds, CheckLimit(r)
  PROVE  Inv'
<1> USE DEF chainVars
<1>0. ~At(r, "idle")
  BY DEF CheckLimit, At
<1>1. CASE End(r)
  <2>1. TypeOK'
    BY <1>0, <1>1, CallEnds DEF CheckLimit, Inv, TypeOK, serviceVars, cacheVars, markVars
  <2> QED
    BY <1>0, <1>1, <2>1, QuietEnd DEF CheckLimit
<1>2. CASE Goto(r, "prepare")
  <2> DEFINE c == [call[r] EXCEPT !.at = "prepare"]
  <2>1. c \in Calls /\ call' = [call EXCEPT ![r] = c] /\ call \in [Rounds -> Calls]
    BY <1>2 DEF Goto, Inv, TypeOK, Calls, Steps
  <2>2. /\ call'[r].at = "prepare" /\ call'[r].view = call[r].view
        /\ call'[r].list = call[r].list /\ call'[r].picked = call[r].picked
        /\ \A s \in Rounds \ {r} : call'[s] = call[s]
    BY <2>1 DEF Calls
  <2>3. UNCHANGED <<chainVars, faults, fresh, serviceVars>>
    BY DEF CheckLimit
  <2> USE DEF serviceVars, cacheVars, markVars
  <2>4. TypeOK'
    BY <2>1, <2>3 DEF Inv, TypeOK
  <2>5. Accounted(r)'
    <3>1. call[r].list = {} /\ call[r].picked = NoTree
      BY DEF Inv, Accounted, CheckLimit, At
    <3> QED
      BY <2>2, <3>1 DEF Accounted, At
  <2>6. ProcessedTreeIsDone' /\ CachesFilled'
    BY <2>3 DEF Inv, ProcessedTreeIsDone, Proven, CachesFilled
  <2>7. /\ currentTree' <= final.tree /\ lastProcessed' <= currentTree'
        /\ call'[r].view.ejected \subseteq head.ejected
        /\ currentTree' <= call'[r].view.tree /\ call'[r].view.tree <= final.tree
    BY <1>0, <2>2, <2>3 DEF Inv, Monotone
  <2> QED
    BY <1>0, <2>2, <2>3, <2>4, <2>5, <2>6, <2>7, CallStep
<1> QED
  BY <1>1, <1>2 DEF CheckLimit

(* A view is never older than the cached tree, and the cached tree never   *)
(* older than the processed one: what the early return marks is marked.    *)
LEMMA PrepareKeepsInv ==
  ASSUME Inv, NEW r \in Rounds, Prepare(r)
  PROVE  Inv'
<1> USE DEF chainVars, cacheVars, markVars
<1> DEFINE v == call[r].view
<1>0. ~At(r, "idle")
  BY DEF Prepare, At
<1>t. /\ call \in [Rounds -> Calls] /\ v \in Views /\ v.tree \in Nat
      /\ currentTree \in Nat /\ lastProcessed \in Nat
      /\ currentTree <= v.tree /\ v.tree <= final.tree /\ lastProcessed <= currentTree
      /\ v.ejected \subseteq head.ejected /\ currentTree <= final.tree /\ final.tree \in Nat
  BY <1>0, TaskTypes DEF Inv, TypeOK, Calls, Views, Monotone
<1>1. ASSUME v.tree = NoTree \/ AlreadyProcessed(v),
             lastProcessed' = IF currentTree = NoTree THEN lastProcessed ELSE currentTree,
             End(r), UNCHANGED <<cacheVars, doneUnder, deferred>>
      PROVE  Inv'
  <2>1. lastProcessed' = lastProcessed
    BY <1>t, <1>1 DEF AlreadyProcessed, NoTree
  <2>2. UNCHANGED serviceVars
    BY <1>1, <2>1 DEF serviceVars
  <2>3. TypeOK'
    BY <1>0, <1>1, <2>2, CallEnds DEF Prepare, Inv, TypeOK, serviceVars
  <2>4. UNCHANGED chainVars
    BY DEF Prepare
  <2> QED
    BY <1>0, <1>1, <2>2, <2>3, <2>4, QuietEnd
<1>2. ASSUME v.tree # NoTree, ~AlreadyProcessed(v),
             currentTree' = v.tree, currentParams' = v.params,
             deferred' = IF v.tree = currentTree /\ v.params = currentParams THEN deferred ELSE {},
             Goto(r, "keys"), UNCHANGED markVars
      PROVE  Inv'
  <2> DEFINE c == [call[r] EXCEPT !.at = "keys"]
  <2>1. c \in Calls /\ call' = [call EXCEPT ![r] = c]
    BY <1>t, <1>2 DEF Goto, Calls, Steps
  <2>2. /\ call'[r].at = "keys" /\ call'[r].view = v
        /\ call'[r].list = call[r].list /\ call'[r].picked = call[r].picked
        /\ \A s \in Rounds \ {r} : call'[s] = call[s]
    BY <1>t, <2>1 DEF Calls
  <2>3. UNCHANGED <<chainVars, faults, fresh>>
    BY DEF Prepare
  <2>4. TypeOK'
    <3>1. call' \in [Rounds -> Calls]
      BY <1>t, <2>1
    <3>2. /\ currentTree' \in Trees \cup {NoTree} /\ currentParams' \in Params \cup {NoParams}
          /\ deferred' \subseteq Keys
      BY <1>t, <1>2 DEF Views, Inv, TypeOK
    <3> QED
      BY <1>2, <2>3, <3>1, <3>2 DEF Inv, TypeOK
  <2>5. Accounted(r)'
    <3>1. call[r].list = {} /\ call[r].picked = NoTree
      BY DEF Inv, Accounted, Prepare, At
    <3> QED
      BY <2>2, <3>1 DEF Accounted, At
  <2>6. ProcessedTreeIsDone' /\ CachesFilled'
    <3>1. currentParams' # NoParams
      BY <1>t, <1>2, TaskTypes DEF Views
    <3> QED
      BY <1>2, <2>3, <3>1 DEF Inv, ProcessedTreeIsDone, Proven, CachesFilled
  <2>7. /\ currentTree' <= final.tree /\ lastProcessed' <= currentTree'
        /\ call'[r].view.ejected \subseteq head.ejected
        /\ currentTree' <= call'[r].view.tree /\ call'[r].view.tree <= final.tree
    BY <1>t, <1>2, <2>2
  <2> QED
    BY <1>0, <2>2, <2>3, <2>4, <2>5, <2>6, <2>7, CallStep
<1> QED
  BY <1>1, <1>2 DEF Prepare

(* Every due key is found, or the call throws. *)
LEMMA FindKeysKeepsInv ==
  ASSUME Inv, NEW r \in Rounds, FindKeys(r)
  PROVE  Inv'
<1>0. At(r, "keys") /\ ~At(r, "idle") /\ call[r].at = "keys"
  BY DEF FindKeys, At
<1>1. CASE Keep(r, BadOf(currentTree, currentParams), "unproven")
  <2>1. BadOf(currentTree, currentParams) \in SUBSET Keys
    <3>1. CASE currentTree = NoTree
      BY <3>1 DEF BadOf
    <3>2. CASE currentTree # NoTree
      <4>1. currentTree \in Trees \cup {NoTree} /\ currentParams \in Params
        BY <1>0, <3>2 DEF Inv, TypeOK, CachesFilled
      <4> QED
        BY <4>1, TaskTypes
    <3> QED
      BY <3>1, <3>2
  <2>2. UNCHANGED <<chainVars, faults, fresh, cacheVars, deferred>>
    BY DEF FindKeys
  <2> QED
    BY <1>0, <1>1, <2>1, <2>2, KeepsAccounts DEF Due
<1>2. CASE End(r) /\ UNCHANGED markVars
  <2>1. TypeOK'
    BY <1>0, <1>2, CallEnds DEF FindKeys, Inv, TypeOK, chainVars, cacheVars, markVars
  <2> QED
    BY <1>0, <1>2, <2>1, QuietEnd DEF FindKeys, chainVars, serviceVars
<1> QED
  BY <1>1, <1>2 DEF FindKeys

(* Proven keys are dropped from the list. *)
LEMMA NarrowingKeepsInv ==
  ASSUME Inv, NEW r \in Rounds, KeepUnproven(r) \/ KeepNonWithdrawn(r)
  PROVE  Inv'
<1>t. call[r].list \subseteq Keys
  BY DEF Inv, TypeOK, Calls
<1>1. ASSUME KeepUnproven(r) PROVE Inv'
  <2>1. call[r].at = "unproven" /\ Due \subseteq call[r].list
    BY <1>1 DEF KeepUnproven, At, Inv, Accounted
  <2>2. call[r].view.ejected \subseteq head.ejected
    BY DEF Inv, Monotone
  <2> DEFINE list == call[r].list \ call[r].view.ejected
  <2>3. Due \subseteq list \cup head.ejected /\ Due \subseteq list \cup Proven /\ list \in SUBSET Keys
    BY <1>t, <2>1, <2>2 DEF Proven
  <2>4. /\ Keep(r, list, "withdrawn")
        /\ UNCHANGED <<chainVars, faults, fresh, cacheVars, deferred>>
    BY <1>1 DEF KeepUnproven
  <2> HIDE DEF list
  <2> QED
    BY <2>1, <2>3, <2>4, KeepsAccounts
<1>2. ASSUME KeepNonWithdrawn(r) PROVE Inv'
  <2>1. call[r].at = "withdrawn" /\ Due \subseteq call[r].list \cup head.ejected
    BY <1>2 DEF KeepNonWithdrawn, At, Inv, Accounted
  <2> DEFINE list == call[r].list \ withdrawn
  <2>2. Due \subseteq list \cup Proven /\ list \in SUBSET Keys
    BY <1>t, <2>1 DEF Proven
  <2>3. /\ Keep(r, list, "cap")
        /\ UNCHANGED <<chainVars, faults, fresh, cacheVars, deferred>>
    BY <1>2 DEF KeepNonWithdrawn
  <2> HIDE DEF list
  <2> QED
    BY <2>1, <2>2, <2>3, KeepsAccounts
<1> QED
  BY <1>1, <1>2

(* The flag `all` is set only when the cut list is the whole list. *)
LEMMA CapKeepsInv ==
  ASSUME Inv, NEW r \in Rounds, Cap(r)
  PROVE  Inv'
<1> USE DEF chainVars, cacheVars, markVars
<1> DEFINE list == call[r].list
           cut  == First(limit, list)
<1>0. ~At(r, "idle") /\ call[r].at = "cap"
  BY DEF Cap, At
<1>t. /\ list \in SUBSET Keys /\ limit \in Nat /\ call \in [Rounds -> Calls]
      /\ Cardinality(list) \in Nat
  BY TaskTypes, FS_Subset, FS_CardinalityType DEF Inv, TypeOK, Calls
<1>c. cut \in SUBSET Keys
  BY <1>t, CutsAreLists
<1>d. deferred' \subseteq Keys
  BY <1>t DEF Cap
<1>u. UNCHANGED <<chainVars, faults, fresh, cacheVars, markVars>>
  BY DEF Cap
<1>p. ProcessedTreeIsDone' /\ CachesFilled'
  BY <1>u DEF Inv, ProcessedTreeIsDone, Proven, CachesFilled
<1>m. /\ currentTree' <= final.tree /\ lastProcessed' <= currentTree'
      /\ call[r].view.ejected \subseteq head.ejected
      /\ currentTree' <= call[r].view.tree /\ call[r].view.tree <= final.tree
  BY <1>0, <1>u DEF Inv, Monotone
<1>1. CASE End(r)
  <2>1. TypeOK'
    BY <1>0, <1>1, <1>d, <1>u, CallEnds DEF Inv, TypeOK
  <2> QED
    BY <1>0, <1>1, <1>u, <1>p, <1>m, <2>1, CallEnds, CallStep
<1>2. CASE call' = [call EXCEPT ![r].all = limit >= Cardinality(list),
                                ![r].list = cut, ![r].at = "batch"]
  <2> DEFINE all == limit >= Cardinality(list)
             c   == [call[r] EXCEPT !.all = all, !.list = cut, !.at = "batch"]
  <2>1. call[r] \in Calls /\ all \in BOOLEAN
    BY <1>t
  <2> HIDE DEF all, cut
  <2>2. c \in Calls
    BY <1>c, <2>1 DEF Calls, Steps
  <2>3. call' = [call EXCEPT ![r] = c]
    BY <1>2, <1>t DEF Calls, all
  <2>4. call'[r] = c /\ call' \in [Rounds -> Calls] /\ (\A s \in Rounds \ {r} : call'[s] = call[s])
    BY <1>t, <2>2, <2>3
  <2>5. /\ call'[r].at = "batch" /\ call'[r].list = cut
        /\ call'[r].picked = call[r].picked /\ call'[r].view = call[r].view
    BY <2>1, <2>4 DEF Calls
  <2>6. call'[r].all => all
    BY <2>1, <2>4 DEF Calls
  <2>7. all => cut = list
    BY <1>t, WholeListFits DEF all, cut
  <2>8. TypeOK'
    BY <1>d, <1>u, <2>4 DEF Inv, TypeOK
  <2>9. Accounted(r)'
    <3>1. call[r].picked = currentTree /\ Due \subseteq list \cup Proven
      BY <1>0 DEF Inv, Accounted, At
    <3>2. Due' = Due /\ Proven' = Proven /\ currentTree' = currentTree
      BY <1>u DEF Due, Proven
    <3>3. call'[r].all => Due' \subseteq call'[r].list \cup Proven'
      BY <2>5, <2>6, <2>7, <3>1, <3>2
    <3> QED
      BY <2>5, <3>1, <3>2, <3>3 DEF Accounted, At
  <2> QED
    BY <1>0, <1>u, <1>p, <1>m, <2>4, <2>5, <2>8, <2>9, CallStep
<1> QED
  BY <1>1, <1>2 DEF Cap

(* What an accepted batch does to the chain. *)
LEMMA EjectGrows ==
  ASSUME Inv, NEW batch \in SUBSET Keys, Accepted(batch), Eject(batch),
         Cardinality(batch) \in Nat
  PROVE  /\ head' \in Views /\ limit' \in 0 .. MaxLimit
         /\ head'.tree = head.tree /\ head'.ejected = head.ejected \cup batch
         /\ Proven' = Proven \cup batch
         /\ UNCHANGED <<justified, final, withdrawn, changes>>
<1>1. head \in Views /\ limit \in 0 .. MaxLimit /\ MaxLimit \in Nat
  BY TaskTypes DEF Inv, TypeOK
<1>2. /\ head' \in Views /\ head'.tree = head.tree
      /\ head'.ejected = head.ejected \cup batch
  BY <1>1 DEF Eject, Views
<1>3. limit' \in 0 .. MaxLimit
  BY <1>1 DEF Eject, Accepted
<1> QED
  BY <1>2, <1>3 DEF Eject, Proven

(* A batch leaves the list when its keys are ejected; the last one of the  *)
(* full set marks the tree.                                                *)
LEMMA SendBatchKeepsInv ==
  ASSUME Inv, NEW r \in Rounds, SendBatch(r)
  PROVE  Inv'
<1> DEFINE list  == call[r].list
           batch == BatchOf(list)
<1>0. ~At(r, "idle") /\ call[r].at = "batch"
  BY DEF SendBatch, At
<1>t. /\ list \in SUBSET Keys /\ call \in [Rounds -> Calls]
      /\ batch \in SUBSET Keys /\ Cardinality(batch) \in Nat
  BY CutsAreLists, BatchSizes DEF Inv, TypeOK, Calls
<1>e. /\ head' \in Views /\ limit' \in 0 .. MaxLimit
      /\ head'.tree = head.tree /\ head'.ejected = head.ejected \cup batch
      /\ Proven' = Proven \cup batch
      /\ UNCHANGED <<justified, final, withdrawn, changes>>
  <2>1. Accepted(batch) /\ Eject(batch)
    BY DEF SendBatch
  <2> HIDE DEF batch
  <2> QED
    BY <1>t, <2>1, EjectGrows
<1>u. UNCHANGED <<faults, fresh, currentTree, currentParams, deferred>>
  BY DEF SendBatch, cacheVars
<1>a. /\ call[r].picked = currentTree
      /\ call[r].all => Due \subseteq list \cup Proven
  BY <1>0 DEF Inv, Accounted, At
<1>1. ASSUME list # batch, call' = [call EXCEPT ![r].list = @ \ batch], UNCHANGED markVars
      PROVE  Inv'
  <2> DEFINE c == [call[r] EXCEPT !.list = @ \ batch]
  <2> HIDE DEF batch
  <2>1. c \in Calls /\ call' = [call EXCEPT ![r] = c]
    BY <1>t, <1>1 DEF Calls
  <2>2. call'[r] = c /\ call' \in [Rounds -> Calls] /\ (\A s \in Rounds \ {r} : call'[s] = call[s])
    BY <1>t, <2>1
  <2>3. /\ call'[r].at = "batch" /\ call'[r].list = list \ batch
        /\ call'[r].picked = call[r].picked /\ call'[r].view = call[r].view
        /\ call'[r].all = call[r].all
    BY <1>0, <1>t, <2>2 DEF Calls
  <2>4. TypeOK'
    BY <1>e, <1>u, <1>1, <2>2 DEF Inv, TypeOK, markVars
  <2>5. Accounted(r)'
    <3>1. Due' = Due
      BY <1>u DEF Due
    <3>2. call[r].all => Due \subseteq (list \ batch) \cup Proven'
      BY <1>a, <1>e
    <3> QED
      BY <1>a, <1>u, <2>3, <3>1, <3>2 DEF Accounted, At
  <2>6. ProcessedTreeIsDone' /\ CachesFilled'
    BY <1>e, <1>u, <1>1 DEF Inv, ProcessedTreeIsDone, CachesFilled, markVars
  <2>7. /\ currentTree' <= final.tree /\ lastProcessed' <= currentTree'
        /\ call'[r].view.ejected \subseteq head.ejected
        /\ currentTree' <= call'[r].view.tree /\ call'[r].view.tree <= final.tree
    BY <1>0, <1>u, <1>1, <2>3 DEF Inv, Monotone, markVars
  <2> QED
    BY <1>0, <1>e, <2>2, <2>4, <2>5, <2>6, <2>7, CallStep
<1>2. ASSUME list = batch, MarkIfAll(r), End(r) PROVE Inv'
  <2>1. CASE call[r].all
    <3>1. MarkProcessed
      BY <1>2, <2>1 DEF MarkIfAll
    <3>2. TypeOK'
      BY <1>0, <1>2, <1>e, <1>u, <3>1, CallEnds DEF Inv, TypeOK, MarkProcessed
    <3>3. Due \subseteq Proven'
      BY <1>a, <1>e, <1>2, <2>1
    <3> QED
      BY <1>0, <1>2, <1>e, <1>u, <3>1, <3>2, <3>3, MarkedEnd DEF cacheVars
  <2>2. CASE ~call[r].all
    <3>1. UNCHANGED serviceVars
      BY <1>2, <1>u, <2>2 DEF MarkIfAll, serviceVars, cacheVars
    <3>2. TypeOK'
      BY <1>0, <1>2, <1>e, <1>u, <3>1, CallEnds DEF Inv, TypeOK, serviceVars, markVars
    <3> QED
      BY <1>0, <1>2, <1>e, <3>1, <3>2, QuietEnd
  <2> QED
    BY <2>1, <2>2
<1> QED
  BY <1>1, <1>2 DEF SendBatch

(* The other ends of a call: the caches and the mark stay as they are. *)
LEMMA InterruptionsKeepInv ==
  ASSUME Inv, NEW r \in Rounds, SendRejected(r) \/ SentButFailed(r) \/ Fail(r)
  PROVE  Inv'
<1>0. ~At(r, "idle") /\ End(r)
  BY DEF SendRejected, SentButFailed, Fail, At
<1>f. (Fault => faults' \in 0 .. MaxFaults) /\ faults \in 0 .. MaxFaults
  BY TaskTypes DEF Inv, TypeOK, Fault
<1>1. ASSUME SendRejected(r) \/ Fail(r) PROVE Inv'
  <2>1. UNCHANGED <<chainVars, fresh, serviceVars>> /\ faults' \in 0 .. MaxFaults
    BY <1>1, <1>f DEF SendRejected, Fail
  <2>2. TypeOK'
    BY <1>0, <2>1, CallEnds DEF Inv, TypeOK, chainVars, serviceVars, cacheVars, markVars
  <2> QED
    BY <1>0, <2>1, <2>2, QuietEnd DEF chainVars
<1>2. ASSUME SentButFailed(r) PROVE Inv'
  <2> DEFINE batch == BatchOf(call[r].list)
  <2>1. batch \in SUBSET Keys /\ Cardinality(batch) \in Nat
    BY CutsAreLists, BatchSizes DEF Inv, TypeOK, Calls
  <2>2. Accepted(batch) /\ Eject(batch) /\ UNCHANGED <<fresh, serviceVars>> /\ faults' \in 0 .. MaxFaults
    BY <1>2, <1>f DEF SentButFailed
  <2> HIDE DEF batch
  <2>3. /\ head' \in Views /\ limit' \in 0 .. MaxLimit
        /\ head'.tree = head.tree /\ head'.ejected = head.ejected \cup batch
        /\ UNCHANGED <<justified, final, withdrawn, changes>>
    BY <2>1, <2>2, EjectGrows
  <2>4. TypeOK'
    BY <1>0, <2>2, <2>3, CallEnds DEF Inv, TypeOK, serviceVars, cacheVars, markVars
  <2> QED
    BY <1>0, <2>2, <2>3, <2>4, QuietEnd
<1> QED
  BY <1>1, <1>2

-----------------------------------------------------------------------------
(* Every step keeps the invariant. *)
LEMMA InvNext == Inv /\ [Next]_vars => Inv'
<1> SUFFICES ASSUME Inv, [Next]_vars PROVE Inv'
  OBVIOUS
<1>1. CASE UNCHANGED vars
  <2> USE <1>1 DEF vars, chainVars, serviceVars, cacheVars, markVars
  <2>1. TypeOK'
    BY DEF Inv, TypeOK
  <2>2. final.tree \in Nat /\ justified.tree \in Nat /\ head.tree \in Nat
    BY TaskTypes DEF Inv, TypeOK, Views
  <2> QED
    BY <2>1, <2>2, ChainStep DEF Inv, Monotone
<1>2. CASE PublishTree \/ ChangeParams \/ ProveWithdrawal \/ Replenish \/ UsedByOthers \/ Finalize
  BY <1>2, ChainKeepsInv
<1>3. CASE Poll
  BY <1>3, PollKeepsInv
<1>4. CASE Restart
  BY <1>4, RestartKeepsInv
<1>5. ASSUME NEW r \in Rounds, Work(r) PROVE Inv'
  BY <1>5, CheckLimitKeepsInv, PrepareKeepsInv, FindKeysKeepsInv, NarrowingKeepsInv,
     CapKeepsInv, SendBatchKeepsInv, InterruptionsKeepInv DEF Work
<1>6. ASSUME NEW r \in Rounds, SentButFailed(r) \/ Fail(r) PROVE Inv'
  BY <1>6, InterruptionsKeepInv
<1> QED
  BY <1>1, <1>2, <1>3, <1>4, <1>5, <1>6 DEF Next

(* The invariant holds in every reachable state. *)
LEMMA Invariance == Spec => []Inv
BY InvInit, InvNext, PTL DEF Spec

(* Type correctness of the task, its calls and the contracts it reads. *)
THEOREM TaskTypeCorrect == Spec => []TypeOK
<1>1. Inv => TypeOK
  BY DEF Inv
<1> QED
  BY <1>1, Invariance, PTL

(* Whatever was deferred, rejected, retried or interrupted, the tree that  *)
(* bad-performers.service.ts marks as processed (lines 63-68 and 94-97)    *)
(* has each of its bad performers ejected or withdrawn.                    *)
THEOREM MarkedTreeIsDone == Spec => []ProcessedTreeIsDone
<1>1. Inv => ProcessedTreeIsDone
  BY DEF Inv
<1> QED
  BY <1>1, Invariance, PTL

(* The singleton guard keeps the current tree under a running call the one *)
(* its leaves were taken from, so that no proof mixes two trees.           *)
THEOREM ProofsAreOfOneTree == Spec => []BatchesMatchTheirTree
<1>1. Inv => BatchesMatchTheirTree
  <2> SUFFICES ASSUME Inv, NEW r \in Rounds, call[r].list # {} PROVE call[r].picked = currentTree
    BY DEF BatchesMatchTheirTree
  <2>1. call[r].at \in Steps /\ Accounted(r)
    BY DEF Inv, TypeOK, Calls
  <2> QED
    BY <2>1 DEF Accounted, At, Steps
<1> QED
  BY <1>1, Invariance, PTL
-----------------------------------------------------------------------------
(* That the task keeps the report.  A call that has come so far as to look *)
(* for keys has a tree, so that what it marks is one.                      *)
InWork == {"keys", "unproven", "withdrawn", "cap", "batch"}

HasTree == \A r \in Rounds : call[r].at \in InWork => currentTree # NoTree

(* No call gets into its work without the caches being filled. *)
LEMMA HasTreeNext ==
  ASSUME Inv, HasTree, [Next]_vars
  PROVE  HasTree'
<1> USE DEF serviceVars, cacheVars
<1>t. call \in [Rounds -> Calls] /\ \A r \in Rounds : call[r] \in Calls
  BY DEF Inv, TypeOK
<1>1. ASSUME UNCHANGED <<call, serviceVars>> PROVE HasTree'
  BY <1>1 DEF HasTree
<1>2. ASSUME Poll PROVE HasTree'
  <2>1. \A r \in Rounds : call'[r].at \in InWork => call[r].at \in InWork
    <3>1. CASE UNCHANGED call
      BY <3>1
    <3>2. ASSUME NEW s \in Rounds, call' = [call EXCEPT ![s].at = "limit", ![s].view = final]
          PROVE  \A r \in Rounds : call'[r].at \in InWork => call[r].at \in InWork
      BY <1>t, <3>2 DEF InWork, Calls
    <3> QED
      BY <1>2, <3>1, <3>2 DEF Poll
  <2> QED
    BY <1>2, <2>1 DEF Poll, HasTree
<1>3. ASSUME Restart PROVE HasTree'
  BY <1>3 DEF Restart, HasTree, NoCall, InWork
<1>4. ASSUME NEW r \in Rounds, End(r), UNCHANGED cacheVars PROVE HasTree'
  <2>1. \A s \in Rounds : call'[s].at \in InWork => call[s].at \in InWork
    BY <1>4, <1>t DEF End, NoCall, InWork
  <2> QED
    BY <1>4, <2>1 DEF HasTree
<1>5. ASSUME NEW r \in Rounds, Work(r) PROVE HasTree'
  <2>1. ASSUME NEW s \in Rounds, call'[s].at \in InWork, ~Prepare(r) PROVE call[s].at \in InWork
    <3>1. CASE s # r
      BY <1>5, <1>t, <2>1, <3>1
      DEF Work, CheckLimit, FindKeys, KeepUnproven, KeepNonWithdrawn, Cap, SendBatch,
          SendRejected, Keep, End, Goto
    <3>2. CASE s = r /\ CheckLimit(r)
      BY <1>t, <2>1, <3>2 DEF CheckLimit, Goto, End, NoCall, InWork, Calls
    <3>3. CASE s = r /\ ~CheckLimit(r)
      BY <1>5, <2>1, <3>3
      DEF Work, FindKeys, KeepUnproven, KeepNonWithdrawn, Cap, SendBatch, SendRejected, At, InWork
    <3> QED
      BY <3>1, <3>2, <3>3
  <2>2. ASSUME ~Prepare(r) PROVE HasTree'
    <3>1. currentTree' = currentTree
      BY <1>5, <2>2
      DEF Work, CheckLimit, FindKeys, KeepUnproven, KeepNonWithdrawn, Cap, SendBatch, SendRejected
    <3> QED
      BY <2>1, <2>2, <3>1 DEF HasTree
  <2>3. ASSUME Prepare(r) PROVE HasTree'
    <3>1. CASE End(r) /\ UNCHANGED cacheVars
      BY <1>4, <3>1
    <3>2. CASE currentTree' # NoTree
      BY <3>2 DEF HasTree
    <3> QED
      BY <2>3, <3>1, <3>2 DEF Prepare
  <2> QED
    BY <2>2, <2>3
<1>6. ASSUME NEW r \in Rounds, SentButFailed(r) \/ Fail(r) PROVE HasTree'
  BY <1>4, <1>6 DEF SentButFailed, Fail
<1>7. ASSUME PublishTree \/ ChangeParams \/ ProveWithdrawal \/ Replenish \/ UsedByOthers \/ Finalize
      PROVE  HasTree'
  BY <1>1, <1>7 DEF PublishTree, ChangeParams, ProveWithdrawal, Replenish, UsedByOthers, Finalize
<1>8. CASE UNCHANGED vars
  BY <1>1, <1>8 DEF vars
<1> QED
  BY <1>2, <1>3, <1>5, <1>6, <1>7, <1>8 DEF Next

(* A call that reaches its work runs under Invariance all the way. *)
LEMMA TasksHaveTrees == Spec => [](Inv /\ HasTree)
<1>1. Init => Inv /\ HasTree
  BY InvInit DEF Init, ServiceInit, HasTree, InWork, NoCall
<1>2. Inv /\ HasTree /\ [Next]_vars => (Inv /\ HasTree)'
  BY InvNext, HasTreeNext
<1> QED
  BY <1>1, <1>2, PTL DEF Spec

-----------------------------------------------------------------------------
(* A step that leaves the mark alone and takes no proof back. *)
LEMMA ReportQuiet ==
  ASSUME TypeOK', UNCHANGED markVars, Proven \subseteq Proven'
  PROVE  [Report!Next]_(Report!reportVars)
<1>1. Proven' \in SUBSET Keys
  BY DEF TypeOK, Proven, Views
<1>2. Report!Prove
  BY <1>1 DEF Report!Prove, Report!Grow, markVars
<1> QED
  BY <1>2 DEF Report!Next

(* A step of a call in its work that marks the cached tree: by Monotone    *)
(* the tree is no older than the marked one, and by the invariant after    *)
(* the step it is done.                                                    *)
LEMMA ReportMarks ==
  ASSUME Inv, HasTree, Inv', NEW r \in Rounds, call[r].at \in InWork,
         MarkProcessed, Proven \subseteq Proven'
  PROVE  [Report!Next]_(Report!reportVars)
<1>1. currentTree \in Trees /\ currentParams \in Params
  BY DEF HasTree, Inv, TypeOK, CachesFilled
<1>2. Proven' \in SUBSET Keys
  BY DEF Inv, TypeOK, Proven, Views
<1>3. /\ lastProcessed' \in 1 .. NumTrees /\ lastProcessed <= lastProcessed'
      /\ doneUnder' \in Params
  BY <1>1 DEF MarkProcessed, Inv, Monotone, Trees
<1>4. Bad[lastProcessed', doneUnder'] \subseteq Proven'
  <2>1. lastProcessed' # NoTree
    BY <1>3, TaskTypes DEF NoTree
  <2>2. BadOf(lastProcessed, doneUnder)' \subseteq Proven'
    BY <2>1 DEF Inv, ProcessedTreeIsDone
  <2> QED
    BY <2>1, <2>2, Zenon DEF BadOf
<1>5. Report!Mark
  BY <1>2, <1>3, <1>4 DEF Report!Mark, Report!Grow
<1> QED
  BY <1>5 DEF Report!Next

(* The early return of prepareStrikesTreeForProcessing marks what is       *)
(* marked: neither the header nor the cache is older than the mark.        *)
LEMMA EarlyReturnMarksNothing ==
  ASSUME Inv, NEW r \in Rounds, Prepare(r)
  PROVE  UNCHANGED markVars
<1> DEFINE v == call[r].view
<1>t. /\ v.tree \in Nat /\ currentTree \in Nat /\ lastProcessed \in Nat
      /\ currentTree <= v.tree /\ lastProcessed <= currentTree
  <2>1. ~At(r, "idle")
    BY DEF Prepare, At
  <2> QED
    BY <2>1, TaskTypes DEF Inv, TypeOK, Calls, Views, Monotone
<1>1. ASSUME v.tree = NoTree \/ AlreadyProcessed(v),
             lastProcessed' = IF currentTree = NoTree THEN lastProcessed ELSE currentTree
      PROVE  lastProcessed' = lastProcessed
  BY <1>t, <1>1 DEF AlreadyProcessed, NoTree
<1> QED
  BY <1>1 DEF Prepare, markVars

(* Every step of the task and of the contracts is one of the report. *)
LEMMA ReportNext ==
  ASSUME Inv, HasTree, Inv', [Next]_vars
  PROVE  [Report!Next]_(Report!reportVars)
<1>t. TypeOK'
  BY DEF Inv
<1>1. ASSUME UNCHANGED vars PROVE [Report!Next]_(Report!reportVars)
  BY <1>t, <1>1, ReportQuiet DEF vars, chainVars, serviceVars, Proven
<1>2. ASSUME PublishTree \/ ChangeParams \/ ProveWithdrawal \/ Replenish \/ UsedByOthers \/ Finalize
      PROVE  [Report!Next]_(Report!reportVars)
  <2>1. head.ejected \subseteq head'.ejected /\ withdrawn \subseteq withdrawn'
    BY <1>2 DEF PublishTree, ChangeParams, ProveWithdrawal, Replenish, UsedByOthers, Finalize,
                Inv, TypeOK, Views
  <2>2. UNCHANGED markVars
    BY <1>2 DEF PublishTree, ChangeParams, ProveWithdrawal, Replenish, UsedByOthers, Finalize,
                serviceVars
  <2> QED
    BY <1>t, <2>1, <2>2, ReportQuiet DEF Proven
<1>3. ASSUME Poll PROVE [Report!Next]_(Report!reportVars)
  BY <1>t, <1>3, ReportQuiet DEF Poll, chainVars, serviceVars, Proven
<1>4. ASSUME Restart PROVE [Report!Next]_(Report!reportVars)
  <2>1. Report!Forget
    BY <1>4 DEF Restart, Report!Forget, Report!Unmarked, NoTree, NoParams, chainVars, Proven
  <2> QED
    BY <2>1 DEF Report!Next
<1>5. ASSUME NEW r \in Rounds, UNCHANGED chainVars,
             UNCHANGED markVars \/ (call[r].at \in InWork /\ MarkProcessed)
      PROVE  [Report!Next]_(Report!reportVars)
  <2>1. Proven' = Proven
    BY <1>5 DEF chainVars, Proven
  <2> QED
    BY <1>t, <1>5, <2>1, ReportQuiet, ReportMarks
<1>6. ASSUME NEW r \in Rounds,
             CheckLimit(r) \/ FindKeys(r) \/ KeepUnproven(r) \/ KeepNonWithdrawn(r) \/ Cap(r)
               \/ SendRejected(r) \/ Fail(r)
      PROVE  [Report!Next]_(Report!reportVars)
  BY <1>5, <1>6 DEF CheckLimit, FindKeys, KeepUnproven, KeepNonWithdrawn, Cap, SendRejected, Fail,
                    Keep, At, InWork, serviceVars
<1>7. ASSUME NEW r \in Rounds, Prepare(r) PROVE [Report!Next]_(Report!reportVars)
  BY <1>5, <1>7, EarlyReturnMarksNothing DEF Prepare
<1>8. ASSUME NEW r \in Rounds, SendBatch(r) \/ SentButFailed(r)
      PROVE  [Report!Next]_(Report!reportVars)
  <2> DEFINE batch == BatchOf(call[r].list)
  <2>1. batch \in SUBSET Keys /\ Cardinality(batch) \in Nat
    BY CutsAreLists, BatchSizes DEF Inv, TypeOK, Calls
  <2>2. Accepted(batch) /\ Eject(batch) /\ call[r].at \in InWork
    BY <1>8 DEF SendBatch, SentButFailed, At, InWork
  <2>3. UNCHANGED markVars \/ MarkProcessed
    BY <1>8 DEF SendBatch, SentButFailed, MarkIfAll, serviceVars
  <2> HIDE DEF batch
  <2>4. Proven \subseteq Proven'
    BY <2>1, <2>2, EjectGrows
  <2> QED
    BY <1>t, <2>2, <2>3, <2>4, ReportQuiet, ReportMarks
<1> QED
  BY <1>1, <1>2, <1>3, <1>4, <1>6, <1>7, <1>8 DEF Next, Work

(* The task of bad-performers.service.ts keeps the report of module        *)
(* StrikesReport, for any keys, trees, parameters, limits and faults: a    *)
(* mark is set only on a tree that is done, moves to newer trees only, and *)
(* is lost only with the process.                                          *)
THEOREM TaskKeepsReport == Spec => KeepsReport
<1>1. Init => Report!Init
  BY DEF Init, ServiceInit, Report!Init, Report!Unmarked, FirstView, Proven, NoTree, NoParams
<1>2. Inv /\ HasTree /\ (Inv /\ HasTree)' /\ [Next]_vars => [Report!Next]_(Report!reportVars)
  BY ReportNext
<1> QED
  BY <1>1, <1>2, TasksHaveTrees, PTL DEF Spec, KeepsReport, Report!Spec
=============================================================================
