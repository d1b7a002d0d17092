------------------------- MODULE KeysIndexerProofs -------------------------
(***************************************************************************)
(* Proofs about KeysIndexer, for every registry, every set of module keys  *)
(* and any number of faults.                                               *)
(*                                                                         *)
(* That the index is complete is not inductive: an update changes the      *)
(* storage before the info, and the files are written one by one.  Indexed *)
(* adds what each suspension point of a run guarantees about the part that *)
(* is still to be changed or written.                                      *)
(***************************************************************************)
EXTENDS KeysIndexer, TLAPS

(* The three parts of IsIndexOf. *)
Covers(s, c) == \A i \in Indices : Appears[i] <= s => i < c
Holds(c, entries, gone) == \A i \in InTimeKeys \ gone : i < c => entries[i] = i
OwnKeys(entries) == \A i \in Indices : entries[i] \in {i, Unknown}

MemoryInv == Covers(slot, count) /\ Holds(count, storage, unread) /\ OwnKeys(storage)

FilesInv ==
  Covers(savedSlot, savedCount) /\ Holds(savedCount, savedStorage, dropped) /\ OwnKeys(savedStorage)

RunInv ==
  /\ pc = "readStorage" => count = savedCount
  /\ pc = "initValidators" => \A k \in InTimeKeys : Appears[k] <= target => k \in answered
  /\ pc \in {"find", "commit"} => IsTotalAt(total, target)
  /\ pc = "commit" => Holds(total, storage, unread)
  /\ pc \in {"modules", "saveModule", "saveInfo"} => Holds(count, savedStorage, dropped)

(* Memory whose info was read: it claims something, or a run is under way. *)
InfoKnown == pc \notin {"idle", "readInfo"} \/ IsInitialized

(* What is in memory, with what it is known to lack, reaches at least as   *)
(* far as the files, so writing the storage alone takes nothing else away  *)
(* from the saved info.                                                    *)
AheadInv == InfoKnown => Holds(savedCount, storage, unread)

Consistent == MemoryInv /\ FilesInv /\ RunInv /\ AheadInv

Indexed == TypeOK /\ Consistent

-----------------------------------------------------------------------------
(* The sorts of the constants. *)
LEMMA IndexerTypes ==
  /\ NumValidators \in Nat /\ ModuleKeys \subseteq Indices /\ Indices \subseteq Nat
  /\ MaxSlot \in Nat \ {0} /\ Slots \subseteq Nat \ {0} /\ SecondsPerSlot \in Nat \ {0}
  /\ DepositDelay \in Nat /\ FreshnessPeriod \in Nat /\ MaxFaults \in Nat
  /\ Appears \in [Indices -> Slots] /\ Deposited \in [Indices -> Nat]
  /\ \A i \in Indices : Appears[i] \in Nat \ {0} /\ Deposited[i] \in Nat
BY IndexerConstants DEF Indices, Slots

(* Dividing an inequality by a positive number. *)
LEMMA CancelFactor ==
  ASSUME NEW a \in Int, NEW b \in Int, NEW c \in Nat \ {0}, a * c <= b * c
  PROVE  a <= b
<1>1. SUFFICES ASSUME a >= b + 1 PROVE FALSE
  OBVIOUS
<1>2. a * c >= (b + 1) * c
  BY <1>1
<1> QED
  BY <1>2

(* The keys in time are keys of the module. *)
LEMMA InTimeTypes == InTimeKeys \subseteq ModuleKeys /\ InTimeKeys \subseteq Indices
BY IndexerTypes DEF InTimeKeys

(* healthCheck as the index needs it: an accepted answer holds every key   *)
(* deposited in time whose validator is in the state of the target slot.   *)
THEOREM AcceptedAnswersAreComplete ==
  ASSUME TypeOK, HealthCheck(api)
  PROVE  \A k \in InTimeKeys : Appears[k] <= target => k \in KeysApiKnows(api)
<1>1. target \in Nat /\ api \in Nat
  BY IndexerTypes DEF TypeOK, NoSlot
<1> SUFFICES ASSUME NEW k \in InTimeKeys, Appears[k] <= target
             PROVE  k \in KeysApiKnows(api)
  OBVIOUS
<1>2. k \in ModuleKeys /\ Appears[k] \in Nat /\ Deposited[k] \in Nat
  BY IndexerTypes, InTimeTypes
<1>3. (target - api) * SecondsPerSlot <= (Appears[k] - Deposited[k]) * SecondsPerSlot
  <2>1. /\ (target - api) * SecondsPerSlot \in Int
        /\ (Appears[k] - Deposited[k]) * SecondsPerSlot \in Int
    BY <1>1, <1>2, IndexerTypes
  <2> QED
    BY <2>1, IndexerTypes DEF HealthCheck, InTimeKeys
<1>4. target - api <= Appears[k] - Deposited[k]
  BY <1>1, <1>2, <1>3, CancelFactor, IndexerTypes
<1>5. Deposited[k] <= api
  BY <1>1, <1>2, <1>4
<1> QED
  BY <1>2, <1>5 DEF KeysApiKnows

(* The freshness check rejects a snapshot older than the deposit delay.    *)
CheckCoversDelay == FreshnessPeriod <= DepositDelay * SecondsPerSlot

(* A period within the deposit delay leaves no key of the module out: then *)
(* the index is complete for the whole module.                             *)
THEOREM DelayMakesAllKeysInTime ==
  CheckCoversDelay => InTimeKeys = ModuleKeys
<1> SUFFICES ASSUME CheckCoversDelay, NEW k \in ModuleKeys PROVE k \in InTimeKeys
  BY InTimeTypes
<1>1. /\ Appears[k] \in Nat /\ Deposited[k] \in Nat
      /\ DepositDelay <= Appears[k] - Deposited[k]
  <2>1. k \in Indices
    BY IndexerTypes
  <2> QED
    BY <2>1, IndexerTypes, RegistryGrows
<1>2. PICK d \in Nat : d = Appears[k] - Deposited[k] - DepositDelay
  BY <1>1, IndexerTypes
<1>3. (Appears[k] - Deposited[k]) * SecondsPerSlot
        = DepositDelay * SecondsPerSlot + d * SecondsPerSlot
  BY <1>1, <1>2, IndexerTypes
<1>4. /\ d * SecondsPerSlot \in Nat /\ DepositDelay * SecondsPerSlot \in Nat
      /\ FreshnessPeriod <= DepositDelay * SecondsPerSlot
  BY <1>2, IndexerTypes DEF CheckCoversDelay
<1>5. FreshnessPeriod <= (Appears[k] - Deposited[k]) * SecondsPerSlot
  BY <1>3, <1>4, IndexerTypes
<1> QED
  BY <1>5 DEF InTimeKeys

-----------------------------------------------------------------------------
(* The empty storage is a storage. *)
LEMMA NoKeysType == NoKeys \in [Indices -> Indices \cup {Unknown}]
BY DEF NoKeys

(* The initial state is indexed. *)
LEMMA IndexedInit == Init => Indexed
<1> SUFFICES ASSUME Init PROVE Indexed
  OBVIOUS
<1>1. TypeOK
  <2>1. 1 \in Slots /\ 0 \in 0 .. MaxSlot /\ 0 \in 0 .. NumValidators /\ 0 \in 0 .. MaxFaults
    BY IndexerTypes DEF Slots
  <2> QED
    BY <2>1, NoKeysType DEF Init, TypeOK, Steps
<1>2. Consistent
  BY IndexerTypes, InTimeTypes DEF Init, Consistent, MemoryInv, FilesInv, RunInv, AheadInv,
     IsInitialized, Covers, Holds, OwnKeys, NoKeys, NoSlot, Unknown
<1> QED
  BY <1>1, <1>2 DEF Indexed

(* What assigning entries that keep the old ones does to what is known of  *)
(* the storage.                                                            *)
LEMMA StoreKeeps ==
  ASSUME NEW entries, Store(entries), OwnKeys(storage), OwnKeys(entries),
         \A i \in Indices : storage[i] # Unknown => entries[i] = storage[i]
  PROVE  /\ OwnKeys(storage')
         /\ \A c : Holds(c, storage, unread) => Holds(c, storage', unread')
BY IndexerTypes, InTimeTypes DEF Store, Keys, OwnKeys, Holds, Unknown

(* Every step keeps the types. *)
LEMMA TypesNext == TypeOK /\ [Next]_vars => TypeOK'
<1> SUFFICES ASSUME TypeOK, [Next]_vars PROVE TypeOK'
  OBVIOUS
<1> USE IndexerTypes DEF TypeOK, Steps, envVars, infoVars, fileVars, localVars, lossVars
<1>1. CASE Finalize
  BY <1>1 DEF Finalize
<1>2. CASE ApiAdvance
  BY <1>2 DEF ApiAdvance, Slots
<1>3. CASE StartInit
  <2>1. /\ UNCHANGED <<envVars, fileVars, localVars, faults, dropped>>
        /\ module' = FALSE /\ slot' = NoSlot /\ count' = 0 /\ storage' = NoKeys
        /\ unread' = {} /\ pc' = "readInfo"
    BY <1>3, Zenon DEF StartInit
  <2>2. module' \in BOOLEAN /\ savedModule' \in BOOLEAN
    BY <2>1, Zenon
  <2>3. 0 \in 0 .. NumValidators
    OBVIOUS
  <2> QED
    BY <2>1, <2>2, <2>3, NoKeysType
<1>a. CASE InfoRead
  BY <1>a DEF InfoRead, Keys
<1>b. CASE StorageRead
  BY <1>b, Zenon DEF StorageRead
<1>4. CASE ModuleFound
  BY <1>4 DEF ModuleFound
<1>5. CASE ModuleSaved
  BY <1>5 DEF ModuleSaved, SaveInfoFile
<1>6. CASE InitHeader
  BY <1>6 DEF InitHeader
<1>7. CASE InitKeys
  BY <1>7 DEF InitKeys, KeysApiKnows, NoSlot, Slots
<1>8. CASE InitValidators
  BY <1>8 DEF InitValidators, Store, IsTotalAt
<1>9. CASE StartUpdate
  BY <1>9 DEF StartUpdate
<1>10. CASE NewValidators
  BY <1>10 DEF NewValidators, IsTotalAt
<1>11. CASE FindKeys
  <2>1. storage' \in [Indices -> Indices \cup {Unknown}] /\ unread' \subseteq Indices
    BY <1>11 DEF FindKeys, Store, NewEntries
  <2> QED
    BY <1>11, <2>1 DEF FindKeys, Store
<1>12. CASE ApiOutdated
  BY <1>12 DEF ApiOutdated
<1>13. CASE Commit
  BY <1>13 DEF Commit
<1>14. CASE StorageSaved
  BY <1>14 DEF StorageSaved
<1>15. CASE InfoSaved
  BY <1>15 DEF InfoSaved, SaveInfoFile
<1>16. CASE Fail
  BY <1>16 DEF Fail, Fault
<1>17. CASE Restart
  <2>1. 0 \in 0 .. NumValidators /\ faults' \in 0 .. MaxFaults
    BY <1>17 DEF Restart, Fault
  <2>2. /\ UNCHANGED <<envVars, fileVars, localVars, dropped>>
        /\ module' = FALSE /\ slot' = NoSlot /\ count' = 0 /\ storage' = NoKeys
        /\ unread' = {} /\ pc' = "idle"
    BY <1>17, Zenon DEF Restart
  <2>3. module' \in BOOLEAN /\ savedModule' \in BOOLEAN
    BY <2>2, Zenon
  <2> QED
    BY <2>1, <2>2, <2>3, NoKeysType
<1>18. CASE UNCHANGED vars
  BY <1>18 DEF vars
<1> QED
  BY <1>1, <1>2, <1>3, <1>a, <1>b, <1>4, <1>5, <1>6, <1>7, <1>8, <1>9, <1>10, <1>11, <1>12,
     <1>13, <1>14, <1>15, <1>16, <1>17, <1>18, Zenon DEF Next

(* A start: memory claims nothing before the info is read; then it lacks,  *)
(* at most, every key of the file, until the storage is read too.          *)
LEMMA ConsistentStart ==
  ASSUME TypeOK, Consistent, StartInit \/ InfoRead \/ StorageRead PROVE Consistent'
<1> USE IndexerTypes, InTimeTypes DEF TypeOK, Consistent, envVars, infoVars, fileVars, localVars, lossVars
<1>1. CASE StartInit
  <2>1. ~InfoKnown'
    BY <1>1, Zenon DEF StartInit, InfoKnown, IsInitialized
  <2> QED
    BY <1>1, <2>1 DEF StartInit, MemoryInv, FilesInv, RunInv, AheadInv, Covers, Holds, OwnKeys,
       NoKeys, NoSlot
<1>2. CASE InfoRead
  <2>1. Holds(savedCount, storage', unread')
    BY <1>2 DEF InfoRead, FilesInv, Holds, Keys, Unknown
  <2> QED
    BY <1>2, <2>1 DEF InfoRead, MemoryInv, FilesInv, RunInv, AheadInv, Covers, Holds, OwnKeys
<1>3. CASE StorageRead
  <2>1. count = savedCount /\ count' = count /\ Holds(savedCount, storage', unread')
    BY <1>3 DEF StorageRead, RunInv, FilesInv, Holds
  <2>2. pc' \in {"modules", "header", "idle"}
    BY <1>3, Zenon DEF StorageRead
  <2> QED
    BY <1>3, <2>1, <2>2 DEF StorageRead, MemoryInv, FilesInv, RunInv, AheadInv, Covers, Holds, OwnKeys
<1> QED
  BY <1>1, <1>2, <1>3

(* Every step keeps the index. *)
LEMMA ConsistentNext ==
  ASSUME TypeOK, Consistent, [Next]_vars PROVE Consistent'
<1> USE IndexerTypes, InTimeTypes DEF Consistent, envVars, infoVars, fileVars, localVars, lossVars
<1> DEFINE Parts == /\ MemoryInv' /\ FilesInv' /\ RunInv' /\ AheadInv'
<1> SUFFICES Parts
  OBVIOUS
<1>0. ASSUME UNCHANGED <<infoVars, storage, fileVars, pc, localVars, lossVars>>
      PROVE  Parts
  BY <1>0 DEF MemoryInv, FilesInv, RunInv, AheadInv, InfoKnown, IsInitialized, Covers, Holds, OwnKeys, IsTotalAt
<1>1. CASE Finalize \/ ApiAdvance \/ UNCHANGED vars
  BY <1>0, <1>1 DEF Finalize, ApiAdvance, vars
<1>3. CASE StartInit \/ InfoRead \/ StorageRead
  BY <1>3, ConsistentStart
<1>4. CASE ModuleFound
  BY <1>4 DEF ModuleFound, MemoryInv, FilesInv, RunInv, AheadInv, InfoKnown, Covers, Holds, OwnKeys
<1>5. CASE ModuleSaved
  BY <1>5 DEF ModuleSaved, SaveInfoFile, MemoryInv, FilesInv, RunInv, AheadInv, InfoKnown, Covers, Holds, OwnKeys
<1>6. CASE InitHeader
  BY <1>6 DEF InitHeader, MemoryInv, FilesInv, RunInv, AheadInv, InfoKnown, Covers, Holds, OwnKeys
<1>7. CASE InitKeys
  <2>1. \A k \in InTimeKeys : Appears[k] <= target => k \in KeysApiKnows(api)
    BY <1>7, AcceptedAnswersAreComplete DEF InitKeys
  <2> QED
    BY <1>7, <2>1 DEF InitKeys, MemoryInv, FilesInv, RunInv, AheadInv, InfoKnown, Covers, Holds, OwnKeys
<1>8. CASE InitValidators
  <2> DEFINE entries == [i \in Indices |-> IF i < total' /\ i \in answered THEN i ELSE storage[i]]
  <2>1. Store(entries)
    BY <1>8 DEF InitValidators
  <2>2. OwnKeys(storage) /\ OwnKeys(entries)
    BY DEF MemoryInv, OwnKeys
  <2>3. \A i \in Indices : storage[i] # Unknown => entries[i] = storage[i]
    BY <2>2 DEF OwnKeys
  <2>4. /\ OwnKeys(storage')
        /\ \A c : Holds(c, storage, unread) => Holds(c, storage', unread')
    <3> HIDE DEF entries
    <3> QED
      BY <2>1, <2>2, <2>3, StoreKeeps
  <2>5. Holds(total', storage', unread')
    BY <1>8, <2>1 DEF InitValidators, RunInv, IsTotalAt, Store, Holds
  <2>6. Holds(count, storage', unread') /\ Holds(savedCount, storage', unread')
    BY <1>8, <2>4 DEF InitValidators, MemoryInv, AheadInv, InfoKnown
  <2> QED
    BY <1>8, <2>1, <2>4, <2>5, <2>6
    DEF InitValidators, Store, MemoryInv, FilesInv, RunInv, AheadInv, Covers, IsTotalAt
<1>9. CASE StartUpdate
  BY <1>9 DEF StartUpdate, MemoryInv, FilesInv, RunInv, AheadInv, InfoKnown, Covers, Holds, OwnKeys
<1>10. CASE NewValidators
  BY <1>10 DEF NewValidators, TypeOK, MemoryInv, FilesInv, RunInv, AheadInv, InfoKnown, Covers, Holds, OwnKeys,
     IsTotalAt
<1>11. CASE FindKeys
  <2> DEFINE entries == NewEntries(KeysApiKnows(api))
  <2>1. \A k \in InTimeKeys : Appears[k] <= target => k \in KeysApiKnows(api)
    BY <1>11, AcceptedAnswersAreComplete DEF FindKeys
  <2>2. Store(entries)
    BY <1>11 DEF FindKeys
  <2>3. OwnKeys(storage) /\ OwnKeys(entries)
    BY DEF MemoryInv, OwnKeys, NewEntries
  <2>4. \A i \in Indices : storage[i] # Unknown => entries[i] = storage[i]
    BY <2>3 DEF OwnKeys, NewEntries
  <2>5. /\ OwnKeys(storage')
        /\ \A c : Holds(c, storage, unread) => Holds(c, storage', unread')
    <3> HIDE DEF entries
    <3> QED
      BY <2>2, <2>3, <2>4, StoreKeeps
  <2>6. Holds(count, storage', unread') /\ Holds(savedCount, storage', unread')
    BY <1>11, <2>5 DEF FindKeys, MemoryInv, AheadInv, InfoKnown
  <2>7. Holds(total, storage', unread')
    <3>1. storage' = entries
      BY <2>2 DEF Store
    <3>2. \A i \in InTimeKeys : count <= i /\ i < total => storage'[i] = i
      BY <1>11, <2>1, <3>1 DEF FindKeys, NewEntries, RunInv, IsTotalAt
    <3> QED
      BY <2>6, <3>2 DEF Holds, TypeOK
  <2> QED
    BY <1>11, <2>2, <2>5, <2>6, <2>7
    DEF FindKeys, Store, MemoryInv, FilesInv, RunInv, AheadInv, Covers, IsTotalAt
<1>12. CASE ApiOutdated
  BY <1>12 DEF ApiOutdated, IsInitialized, MemoryInv, FilesInv, RunInv, AheadInv, InfoKnown, Covers, Holds, OwnKeys
<1>13. CASE Commit
  BY <1>13 DEF Commit, MemoryInv, FilesInv, RunInv, AheadInv, InfoKnown, Covers, Holds, OwnKeys, IsTotalAt
<1>14. CASE StorageSaved
  BY <1>14 DEF StorageSaved, MemoryInv, FilesInv, RunInv, AheadInv, InfoKnown, Covers, Holds, OwnKeys
<1>15. CASE InfoSaved
  BY <1>15 DEF InfoSaved, SaveInfoFile, MemoryInv, FilesInv, RunInv, AheadInv, InfoKnown, Covers, Holds, OwnKeys
<1>16. CASE Fail
  BY <1>16 DEF Fail, IsInitialized, MemoryInv, FilesInv, RunInv, AheadInv, InfoKnown, Covers, Holds, OwnKeys
<1>17. CASE Restart
  <2>1. ~InfoKnown'
    BY <1>17, Zenon DEF Restart, InfoKnown, IsInitialized
  <2> QED
    BY <1>17, <2>1 DEF Restart, MemoryInv, FilesInv, RunInv, AheadInv, InfoKnown, Covers, Holds, OwnKeys,
       NoKeys, NoSlot
<1> QED
  BY <1>1, <1>3, <1>4, <1>5, <1>6, <1>7, <1>8, <1>9, <1>10, <1>11, <1>12,
     <1>13, <1>14, <1>15, <1>16, <1>17, Zenon DEF Next

(* The inductive invariant. *)
LEMMA IndexedAlways == Spec => []Indexed
<1>1. Indexed /\ [Next]_vars => Indexed'
  <2> SUFFICES ASSUME Indexed, [Next]_vars PROVE Indexed'
    OBVIOUS
  <2>1. TypeOK'
    BY TypesNext DEF Indexed
  <2>2. Consistent'
    BY ConsistentNext DEF Indexed
  <2> QED
    BY <2>1, <2>2 DEF Indexed
<1> QED
  BY IndexedInit, <1>1, PTL DEF Spec

(* The variables of the indexer stay in their types. *)
THEOREM IndexerTypeCorrect == Spec => []TypeOK
<1>1. Indexed => TypeOK
  BY DEF Indexed
<1> QED
  BY <1>1, IndexedAlways, PTL

(* The index in memory always holds every module validator of the state    *)
(* whose slot it claims, if its key was deposited in time and is not one   *)
(* of a file of keys that could not be read: what RootsWalk assumes of the *)
(* keys its scans see.                                                     *)
THEOREM MemoryIndexIsComplete == Spec => []IndexIsComplete
<1>1. Indexed => IndexIsComplete
  BY DEF Indexed, Consistent, MemoryInv, IndexIsComplete, IsIndexOf, Covers, Holds, OwnKeys
<1> QED
  BY <1>1, IndexedAlways, PTL

(* The two files always make an index of the slot they claim, whichever of *)
(* their writes was the last one before the process stopped, but for the   *)
(* keys that a process which could not read them has written over.         *)
THEOREM FilesIndexIsComplete == Spec => []SavedIndexIsComplete
<1>1. Indexed => SavedIndexIsComplete
  BY DEF Indexed, Consistent, FilesInv, SavedIndexIsComplete, IsIndexOf, Covers, Holds, OwnKeys
<1> QED
  BY <1>1, IndexedAlways, PTL

-----------------------------------------------------------------------------
(* What a place of suspension says of the slots, which the contents of the *)
(* index do not turn on, but the order of its runs does: nothing in memory *)
(* is older than the files, and a run is for a later slot than its index.  *)
SlotInv ==
  /\ slot # NoSlot => module
  /\ savedSlot # NoSlot => savedModule
  /\ slot <= finalized /\ savedSlot <= finalized
  /\ pc \notin {"idle", "readInfo"} \/ slot # NoSlot => savedSlot <= slot
  /\ pc \in {"readInfo", "modules", "saveModule", "header", "initKeys", "initValidators"} => slot = NoSlot
  /\ pc \notin {"idle", "readInfo", "readStorage", "modules"} => module
  /\ pc \in {"validators", "find", "saveStorage", "saveInfo"} => slot # NoSlot
  /\ TaskStep = "state" => slot < target /\ target <= finalized

(* What the storage in memory lacks of the file is what was not read. *)
KeptInv ==
  InfoKnown => \A i \in Keys(savedStorage) \ unread : storage[i] = savedStorage[i]

(* Slots are numbers. *)
LEMMA SlotTypes ==
  TypeOK => /\ slot \in Nat /\ savedSlot \in Nat /\ target \in Nat
            /\ finalized \in Nat \ {0} /\ api \in Nat
BY IndexerTypes DEF TypeOK, NoSlot

(* Every step keeps what the places say. *)
LEMMA SlotNext ==
  ASSUME TypeOK, SlotInv, [Next]_vars PROVE SlotInv'
<1> USE SlotTypes DEF SlotInv, TaskStep, NoSlot, envVars, infoVars, fileVars, localVars, lossVars
<1>1. CASE Finalize
  <2>1. finalized' \in Nat /\ finalized' > finalized
    BY <1>1, IndexerTypes DEF Finalize
  <2> QED
    BY <1>1, <2>1 DEF Finalize
<1>2. CASE ApiAdvance \/ UNCHANGED vars
  BY <1>2 DEF ApiAdvance, vars
<1>3. CASE StartInit \/ InfoRead
  BY <1>3 DEF StartInit, InfoRead, IsInitialized
<1>14. CASE StorageRead
  BY <1>14, Zenon DEF StorageRead
<1>4. CASE ModuleFound \/ ModuleSaved
  BY <1>4 DEF ModuleFound, ModuleSaved, SaveInfoFile
<1>5. CASE InitHeader
  BY <1>5 DEF InitHeader
<1>6. CASE InitKeys \/ InitValidators
  BY <1>6 DEF InitKeys, InitValidators
<1>7. CASE StartUpdate
  BY <1>7 DEF StartUpdate, IsInitialized
<1>8. CASE NewValidators \/ FindKeys \/ ApiOutdated
  BY <1>8 DEF NewValidators, FindKeys, ApiOutdated
<1>9. CASE Commit
  BY <1>9 DEF Commit
<1>10. CASE StorageSaved
  BY <1>10 DEF StorageSaved
<1>11. CASE InfoSaved
  BY <1>11 DEF InfoSaved, SaveInfoFile
<1>12. CASE Fail
  BY <1>12 DEF Fail
<1>13. CASE Restart
  BY <1>13 DEF Restart
<1> QED
  BY <1>1, <1>2, <1>3, <1>4, <1>5, <1>6, <1>7, <1>8, <1>9, <1>10, <1>11, <1>12, <1>13,
     <1>14, Zenon DEF Next

(* A key is only ever written where it already is. *)
LEMMA KeptNext ==
  ASSUME TypeOK, Consistent, SlotInv, KeptInv, [Next]_vars PROVE KeptInv'
<1> USE DEF KeptInv, envVars, infoVars, fileVars, localVars, lossVars
<1>0. ASSUME UNCHANGED <<storage, savedStorage, unread>>, InfoKnown' => InfoKnown
      PROVE  KeptInv'
  BY <1>0 DEF Keys
<1>a. ASSUME NEW entries, Store(entries), UNCHANGED savedStorage, InfoKnown, OwnKeys(entries),
             \A i \in Indices : storage[i] # Unknown => entries[i] = storage[i]
      PROVE  KeptInv'
  BY <1>a DEF Store, Keys, OwnKeys, Consistent, MemoryInv, FilesInv
<1>own. \A i \in Indices : storage[i] \in {i, Unknown}
  BY DEF Consistent, MemoryInv, OwnKeys
<1>1. CASE Finalize \/ ApiAdvance \/ UNCHANGED vars
  BY <1>0, <1>1 DEF Finalize, ApiAdvance, vars, InfoKnown, IsInitialized
<1>3. CASE StartInit \/ Restart
  BY <1>3, Zenon DEF StartInit, Restart, InfoKnown, IsInitialized
<1>13. CASE InfoRead \/ StorageRead
  BY <1>13 DEF InfoRead, StorageRead, Keys
<1>4. CASE ModuleFound \/ ModuleSaved \/ InitHeader \/ InitKeys \/ NewValidators \/ ApiOutdated \/ Commit
  <2>1. UNCHANGED <<storage, savedStorage, unread>> /\ InfoKnown
    BY <1>4 DEF ModuleFound, ModuleSaved, InitHeader, InitKeys, NewValidators, ApiOutdated, Commit,
       InfoKnown
  <2> QED
    BY <1>0, <2>1
<1>5. CASE InitValidators
  <2> DEFINE entries == [i \in Indices |-> IF i < total' /\ i \in answered THEN i ELSE storage[i]]
  <2>1. Store(entries) /\ UNCHANGED savedStorage /\ InfoKnown
    BY <1>5 DEF InitValidators, InfoKnown
  <2>2. OwnKeys(entries) /\ \A i \in Indices : storage[i] # Unknown => entries[i] = storage[i]
    BY <1>own DEF OwnKeys
  <2> HIDE DEF entries
  <2> QED
    BY <1>a, <2>1, <2>2
<1>6. CASE StartUpdate
  BY <1>0, <1>6 DEF StartUpdate, InfoKnown
<1>7. CASE FindKeys
  <2> DEFINE entries == NewEntries(KeysApiKnows(api))
  <2>1. Store(entries) /\ UNCHANGED savedStorage /\ InfoKnown
    BY <1>7 DEF FindKeys, InfoKnown
  <2>2. OwnKeys(entries) /\ \A i \in Indices : storage[i] # Unknown => entries[i] = storage[i]
    BY <1>own DEF OwnKeys, NewEntries
  <2> HIDE DEF entries
  <2> QED
    BY <1>a, <2>1, <2>2
<1>8. CASE StorageSaved
  BY <1>8 DEF StorageSaved
<1>9. CASE InfoSaved
  <2>1. UNCHANGED <<storage, savedStorage, unread>> /\ InfoKnown
    BY <1>9 DEF InfoSaved, InfoKnown
  <2> QED
    BY <1>0, <2>1
<1>10. CASE Fail
  BY <1>0, <1>10 DEF Fail, InfoKnown, IsInitialized
<1> QED
  BY <1>1, <1>3, <1>4, <1>5, <1>6, <1>7, <1>8, <1>9, <1>10, <1>13, Zenon DEF Next

(* The contents, the slots and the files together. *)
LEMMA RunsAlways == Spec => [](Indexed /\ SlotInv /\ KeptInv)
<1>1. Init => SlotInv /\ KeptInv
  BY DEF Init, SlotInv, KeptInv, InfoKnown, IsInitialized, TaskStep, NoSlot
<1>2. Indexed /\ SlotInv /\ KeptInv /\ [Next]_vars => SlotInv' /\ KeptInv'
  BY SlotNext, KeptNext DEF Indexed
<1> QED
  BY IndexedAlways, <1>1, <1>2, PTL DEF Spec

(* A file is only ever replaced by something that holds what it held, as   *)
(* far as the process that writes it had read it.                          *)
THEOREM FilesGain == Spec => FilesOnlyGain
<1> DEFINE Gain ==
      /\ savedSlot <= savedSlot'
      /\ \A i \in Keys(savedStorage) \ unread : savedStorage'[i] = savedStorage[i]
<1>1. Indexed /\ SlotInv /\ KeptInv /\ [Next]_vars => [Gain]_vars
  <2> SUFFICES ASSUME Indexed, SlotInv, KeptInv, Next PROVE Gain
    OBVIOUS
  <2> USE SlotTypes DEF Indexed, envVars, infoVars, fileVars, localVars, lossVars
  <2>1. ASSUME UNCHANGED fileVars PROVE Gain
    BY <2>1
  <2>2. CASE ModuleSaved \/ InfoSaved
    BY <2>2 DEF ModuleSaved, InfoSaved, SaveInfoFile, SlotInv
  <2>3. CASE StorageSaved
    BY <2>3 DEF StorageSaved, KeptInv, InfoKnown
  <2>4. CASE ~(ModuleSaved \/ InfoSaved \/ StorageSaved)
    <3>1. UNCHANGED fileVars
      BY <2>4, Zenon DEF Next, Finalize, ApiAdvance, StartInit, InfoRead, StorageRead, ModuleFound, InitHeader, InitKeys,
         InitValidators, StartUpdate, NewValidators, FindKeys, ApiOutdated, Commit, Fail, Restart
    <3> QED
      BY <2>1, <3>1
  <2> QED
    BY <2>2, <2>3, <2>4
<1> QED
  BY <1>1, RunsAlways, PTL DEF Spec, FilesOnlyGain

-----------------------------------------------------------------------------
(* KeysIndexer implements IndexTask.                                       *)

(* A step that moves neither the slots nor the place among the three of a  *)
(* task is none of the task.                                               *)
LEMMA TaskQuiet ==
  ASSUME UNCHANGED <<finalized, slot, savedSlot>>, TaskStep' = TaskStep,
         TaskStep # "idle" => target' = target
  PROVE  UNCHANGED <<finalized, Claimed, savedSlot, TaskStep, TaskTarget>>
BY DEF Claimed, TaskTarget

(* Every step of the indexer is one of the task, or a stutter. *)
LEMMA TaskStepNext ==
  ASSUME TypeOK, SlotInv, [Next]_vars
  PROVE  [Task!TaskNext]_<<finalized, Task!indexVars>>
<1> USE SlotTypes
<1> USE DEF NoSlot, Task!NoIndex, Task!indexVars, envVars, infoVars, fileVars, localVars, lossVars
<1>1. CASE Finalize
  <2>1. finalized' > finalized
    BY <1>1, IndexerTypes DEF Finalize
  <2> QED
    BY <1>1, <2>1 DEF Finalize, Task!TaskNext, Claimed, TaskStep, TaskTarget
<1>2. CASE ApiAdvance \/ UNCHANGED vars
  BY <1>2 DEF ApiAdvance, vars, Claimed, TaskStep, TaskTarget
<1>3. CASE StartInit \/ InfoRead
  <2>1. Claimed' = Claimed /\ TaskStep = "idle" /\ TaskStep' = "idle"
    BY <1>3 DEF StartInit, InfoRead, IsInitialized, SlotInv, Claimed, TaskStep
  <2> QED
    BY <1>3, <2>1 DEF StartInit, InfoRead, TaskTarget
<1>13. CASE StorageRead
  <2>1. pc' \in {"modules", "header", "idle"}
    BY <1>13, Zenon DEF StorageRead
  <2> QED
    BY <1>13, <2>1, TaskQuiet DEF StorageRead, TaskStep
<1>4. CASE ModuleFound
  BY <1>4, TaskQuiet DEF ModuleFound, TaskStep
<1>5. CASE ModuleSaved
  BY <1>5, TaskQuiet DEF ModuleSaved, SaveInfoFile, SlotInv, TaskStep
<1>6. CASE InitHeader \/ StartUpdate
  <2>1. /\ TaskStep = "idle" /\ TaskStep' = "state" /\ target' = finalized
        /\ UNCHANGED <<finalized, slot, savedSlot>>
    BY <1>6 DEF InitHeader, StartUpdate, TaskStep
  <2>2. Claimed # finalized
    BY <1>6 DEF InitHeader, StartUpdate, SlotInv, IsInitialized, Claimed
  <2> QED
    BY <2>1, <2>2 DEF Task!TaskNext, Task!StartIndexing, Claimed, TaskTarget
<1>7. CASE InitKeys \/ InitValidators \/ NewValidators \/ FindKeys
  BY <1>7, TaskQuiet DEF InitKeys, InitValidators, NewValidators, FindKeys, TaskStep
<1>8. CASE ApiOutdated \/ Fail
  <2>1. /\ UNCHANGED <<finalized, slot, savedSlot, target>> /\ TaskStep' = "idle"
    BY <1>8 DEF ApiOutdated, Fail, TaskStep
  <2> QED
    BY <2>1 DEF Task!TaskNext, Task!AbandonIndexing, Claimed, TaskTarget
<1>9. CASE Commit
  <2>1. /\ TaskStep = "state" /\ TaskStep' = "save" /\ slot' = target /\ slot' # NoSlot
        /\ UNCHANGED <<finalized, savedSlot, target>>
    BY <1>9 DEF Commit, SlotInv, TaskStep
  <2> QED
    BY <2>1 DEF Task!TaskNext, Task!CommitIndex, Claimed, TaskTarget
<1>10. CASE StorageSaved
  BY <1>10, TaskQuiet DEF StorageSaved, TaskStep
<1>11. CASE InfoSaved
  <2>1. /\ TaskStep = "save" /\ TaskStep' = "idle" /\ savedSlot' = slot /\ slot # NoSlot
        /\ UNCHANGED <<finalized, slot>>
    BY <1>11 DEF InfoSaved, SaveInfoFile, SlotInv, TaskStep
  <2> QED
    BY <2>1 DEF Task!TaskNext, Task!IndexSaved, Claimed, TaskTarget
<1>12. CASE Restart
  BY <1>12 DEF Restart, Task!TaskNext, Task!ReadIndexBack, Claimed, TaskStep, TaskTarget
<1> QED
  BY <1>1, <1>2, <1>3, <1>4, <1>5, <1>6, <1>7, <1>8, <1>9, <1>10, <1>11, <1>12,
     <1>13, Zenon DEF Next

(* The indexer, with both its files, its requests and all their failures,  *)
(* is the task that the walk is composed with.                             *)
THEOREM IndexerRunsTask == Spec => RunsIndexTask
<1>1. Init => Task!TaskInit
  BY DEF Init, Task!TaskInit, Task!IndexInit, Task!NoIndex, Claimed, TaskStep, TaskTarget, NoSlot
<1>2. Indexed /\ SlotInv /\ KeptInv /\ [Next]_vars
        => [Task!TaskNext]_<<finalized, Task!indexVars>>
  BY TaskStepNext DEF Indexed
<1> QED
  BY <1>1, <1>2, RunsAlways, PTL DEF Spec, RunsIndexTask, Task!TaskSpec
=============================================================================
