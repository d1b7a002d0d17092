---------------------------- MODULE KeysIndexer ----------------------------
(***************************************************************************)
(* How the keys indexer builds and keeps its index                         *)
(* (src/src/daemon/services/keys-indexer.ts).                              *)
(*                                                                         *)
(* The index is two lowdb files, `info` (module, slot and number of the    *)
(* validators read so far) and `storage` (validator index -> module key).  *)
(* One run of the indexer reads a finalized state, asks the keys API which *)
(* of the validators' keys are the module's, changes the storage and the   *)
(* info in memory and writes them out, storage first.  Every await may     *)
(* fail, and the process may stop between any two steps.                   *)
(*                                                                         *)
(* A start reads the info and then the storage.  When the second read      *)
(* throws, memory has the slot of the file and none of its keys, and the   *)
(* loop takes that for an initialised index: `unread` names the keys that  *)
(* memory goes without, `dropped` those it was then written over.          *)
(*                                                                         *)
(* RootsWalk takes for granted that an index built at slot s knows every   *)
(* module validator of the state at s; this module is where that is owed.  *)
(*                                                                         *)
(* A key is named by the index of its validator, so a correct entry maps i *)
(* to i.                                                                   *)
(***************************************************************************)
EXTENDS Integers, FiniteSets

CONSTANTS
  NumValidators,     \* validators of the last state
  ModuleKeys,        \* the validators whose keys belong to the module
  Appears,           \* the slot from which a validator is in the state
  Deposited,         \* the slot from which the keys API can see a key as used
  DepositDelay,      \* slots from the deposit of a key to its validator, at least
  MaxSlot,
  SecondsPerSlot,
  FreshnessPeriod,   \* KEYS_INDEXER_KEYAPI_FRESHNESS_PERIOD_MS, which is compared with seconds
  MaxFaults          \* bound on the failures and restarts of a behaviour

Indices == 0 .. NumValidators - 1
Slots == 1 .. MaxSlot
Unknown == -1        \* no entry in the storage
NoSlot == 0          \* storageStateSlot of a new info file

ASSUME IndexerConstants ==
  /\ NumValidators \in Nat /\ ModuleKeys \subseteq Indices
  /\ MaxSlot \in Nat \ {0} /\ SecondsPerSlot \in Nat \ {0}
  /\ DepositDelay \in Nat /\ FreshnessPeriod \in Nat /\ MaxFaults \in Nat
  /\ Appears \in [Indices -> Slots] /\ Deposited \in [Indices -> Nat]

(* The registry only grows at its end, and a key is deposited first. *)
ASSUME RegistryGrows ==
  /\ \A i, j \in Indices : i < j => Appears[i] <= Appears[j]
  /\ \A i \in Indices : Deposited[i] + DepositDelay <= Appears[i]

(* A wrong variant: the length counts one too many. *)
Wrong_IsTotalAt(n, slot) ==
  /\ n \in 1 .. NumValidators + 1
  /\ \A i \in Indices : i < n - 1 <=> Appears[i] <= slot

(* The length of the registry in the state of a slot. *)
IsTotalAt(n, slot) ==
  /\ n \in 0 .. NumValidators
  /\ \A i \in Indices : i < n <=> Appears[i] <= slot

(* What the keys API answers from its snapshot of the execution layer. *)
KeysApiKnows(snapshot) == {k \in ModuleKeys : Deposited[k] <= snapshot}

VARIABLES
  finalized,         \* finalized slot
  api,               \* slot of the keys API's elBlockSnapshot
  module,            \* info.data.moduleId is not 0
  slot,              \* info.data.storageStateSlot
  count,             \* info.data.lastValidatorsCount
  storage,           \* storage.data
  savedModule, savedSlot, savedCount,  \* keys-indexer-info.json
  savedStorage,      \* keys-indexer-storage.json
  pc,                \* where the running initialisation or update is suspended
  target,            \* finalizedSlot of that run
  total,             \* totalValLength
  answered,          \* the module keys the keys API returned to it
  faults,
  \* History, read by no action:
  unread,            \* keys that memory lacks because a file was not read
  dropped            \* keys that the file of keys lost by that

infoVars  == <<module, slot, count>>
fileVars  == <<savedModule, savedSlot, savedCount, savedStorage>>
localVars == <<target, total, answered>>
envVars   == <<finalized, api>>
lossVars  == <<unread, dropped>>
vars == <<envVars, infoVars, storage, fileVars, pc, localVars, faults, lossVars>>

Steps == {"idle", "readInfo", "readStorage", "modules", "saveModule", "header",
          "initKeys", "initValidators", "validators", "find", "commit", "saveStorage", "saveInfo"}

TypeOK ==
  /\ finalized \in Slots /\ api \in 0 .. MaxSlot
  /\ module \in BOOLEAN /\ savedModule \in BOOLEAN
  /\ slot \in Slots \cup {NoSlot} /\ savedSlot \in Slots \cup {NoSlot}
  /\ count \in 0 .. NumValidators /\ savedCount \in 0 .. NumValidators
  /\ storage \in [Indices -> Indices \cup {Unknown}]
  /\ savedStorage \in [Indices -> Indices \cup {Unknown}]
  /\ pc \in Steps
  /\ target \in Slots \cup {NoSlot} /\ total \in 0 .. NumValidators
  /\ answered \subseteq ModuleKeys
  /\ faults \in 0 .. MaxFaults
  /\ unread \subseteq Indices /\ dropped \subseteq Indices

NoKeys == [i \in Indices |-> Unknown]

Init ==
  /\ finalized = 1 /\ api \in 0 .. MaxSlot
  /\ module = FALSE /\ slot = NoSlot /\ count = 0 /\ storage = NoKeys
  /\ savedModule = FALSE /\ savedSlot = NoSlot /\ savedCount = 0
  /\ savedStorage = NoKeys
  /\ pc = "idle" /\ target = NoSlot /\ total = 0 /\ answered = {}
  /\ faults = 0 /\ unread = {} /\ dropped = {}

Fault == faults < MaxFaults /\ faults' = faults + 1

Finalize ==
  /\ finalized' \in {s \in Slots : s > finalized}
  /\ UNCHANGED <<api, infoVars, storage, fileVars, pc, localVars, faults, lossVars>>

(* The keys API follows the execution layer at its own pace. *)
ApiAdvance ==
  /\ api' \in {s \in Slots : s > api}
  /\ UNCHANGED <<finalized, infoVars, storage, fileVars, pc, localVars, faults, lossVars>>

IsInitialized == module /\ slot > NoSlot

(* healthCheck: timestamps in seconds, compared with the configured number *)
(* of milliseconds.                                                        *)
Wrong_HealthCheck(snapshot) == TRUE

HealthCheck(snapshot) ==
  (target - snapshot) * SecondsPerSlot <= FreshnessPeriod

(***************************************************************************)
(* initOrReadServiceData: the loop repeats it until it succeeds.           *)
(***************************************************************************)

Keys(entries) == {i \in Indices : entries[i] # Unknown}

(* Every call begins with empty data in memory. *)
StartInit ==
  /\ pc = "idle" /\ ~IsInitialized
  /\ module' = FALSE /\ slot' = NoSlot /\ count' = 0
  /\ storage' = NoKeys /\ unread' = {}
  /\ pc' = "readInfo"
  /\ UNCHANGED <<envVars, fileVars, localVars, faults, dropped>>

InfoRead ==
  /\ pc = "readInfo"
  /\ module' = savedModule /\ slot' = savedSlot /\ count' = savedCount
  /\ unread' = dropped \cup Keys(savedStorage)
  /\ pc' = "readStorage"
  /\ UNCHANGED <<envVars, storage, fileVars, localVars, faults, dropped>>

(* A wrong variant: the storage is only read while the info is incomplete. *)
Wrong_StorageRead ==
  /\ pc = "readStorage"
  /\ storage' = IF slot = NoSlot THEN savedStorage ELSE storage
  /\ unread' = dropped
  /\ pc' = IF ~module THEN "modules" ELSE IF slot = NoSlot THEN "header" ELSE "idle"
  /\ UNCHANGED <<envVars, infoVars, fileVars, localVars, faults, dropped>>

(* What the files lack is fetched. *)
StorageRead ==
  /\ pc = "readStorage"
  /\ storage' = savedStorage
  /\ unread' = dropped
  /\ pc' = IF ~module THEN "modules" ELSE IF slot = NoSlot THEN "header" ELSE "idle"
  /\ UNCHANGED <<envVars, infoVars, fileVars, localVars, faults, dropped>>

ModuleFound ==
  /\ pc = "modules"
  /\ module' = TRUE
  /\ pc' = "saveModule"
  /\ UNCHANGED <<envVars, slot, count, storage, fileVars, localVars, faults, lossVars>>

(* info.write() writes the whole info. *)
SaveInfoFile ==
  /\ savedModule' = module /\ savedSlot' = slot /\ savedCount' = count

ModuleSaved ==
  /\ pc = "saveModule"
  /\ SaveInfoFile
  /\ pc' = IF slot = NoSlot THEN "header" ELSE "idle"
  /\ UNCHANGED <<envVars, infoVars, storage, savedStorage, localVars, faults, lossVars>>

(* The finalized header; its state is what the two requests below use. *)
InitHeader ==
  /\ pc = "header"
  /\ target' = finalized
  /\ pc' = "initKeys"
  /\ UNCHANGED <<envVars, infoVars, storage, fileVars, total, answered, faults, lossVars>>

InitKeys ==
  /\ pc = "initKeys"
  /\ HealthCheck(api)
  /\ answered' = KeysApiKnows(api)
  /\ pc' = "initValidators"
  /\ UNCHANGED <<envVars, infoVars, storage, fileVars, target, total, faults, lossVars>>

(* The keys found are assigned to the storage in memory. *)
Store(entries) ==
  /\ storage' = entries
  /\ unread' = unread \ Keys(entries)
  /\ UNCHANGED dropped

InitValidators ==
  /\ pc = "initValidators"
  /\ IsTotalAt(total', target)
  /\ Store([i \in Indices |-> IF i < total' /\ i \in answered THEN i ELSE storage[i]])
  /\ pc' = "commit"
  /\ UNCHANGED <<envVars, infoVars, fileVars, target, answered, faults>>

(***************************************************************************)
(* update: a singleton task, started for a new finalized header.           *)
(***************************************************************************)
StartUpdate ==
  /\ pc = "idle" /\ IsInitialized /\ finalized # slot
  /\ target' = finalized
  /\ pc' = "validators"
  /\ UNCHANGED <<envVars, infoVars, storage, fileVars, total, answered, faults, lossVars>>

(* The worker returns the keys of the validators from `count` on. *)
NewValidators ==
  /\ pc = "validators"
  /\ IsTotalAt(total', target)
  /\ pc' = IF total' <= count THEN "commit" ELSE "find"
  /\ UNCHANGED <<envVars, infoVars, storage, fileVars, target, answered, faults, lossVars>>

(* The j-th new key belongs to the validator at j + lastValidatorsCount. *)
Wrong_NewEntries(known) ==
  [i \in Indices |-> IF i + count \in known /\ i + count < total THEN i + count ELSE storage[i]]

NewEntries(known) ==
  [i \in Indices |-> IF count <= i /\ i < total /\ i \in known THEN i ELSE storage[i]]

FindKeys ==
  /\ pc = "find"
  /\ HealthCheck(api)
  /\ Store(NewEntries(KeysApiKnows(api)))
  /\ pc' = "commit"
  /\ UNCHANGED <<envVars, infoVars, fileVars, localVars, faults>>

(* getModuleKeys or findModuleKeys has answered, and healthCheck throws. *)
ApiOutdated ==
  /\ pc \in {"initKeys", "find"}
  /\ ~HealthCheck(api)
  /\ pc' = "idle"
  /\ UNCHANGED <<envVars, infoVars, storage, fileVars, localVars, faults, lossVars>>

(* baseRun after its callback: the info in memory, then the two writes. *)
Commit ==
  /\ pc = "commit"
  /\ slot' = target /\ count' = total
  /\ pc' = "saveStorage"
  /\ UNCHANGED <<envVars, module, storage, fileVars, localVars, faults, lossVars>>

(* A wrong order: the info file is written first. *)
Wrong_StorageSaved ==
  /\ pc = "saveStorage"
  /\ SaveInfoFile /\ UNCHANGED savedStorage
  /\ pc' = "saveInfo"
  /\ UNCHANGED <<envVars, infoVars, storage, localVars, faults, lossVars>>

StorageSaved ==
  /\ pc = "saveStorage"
  /\ savedStorage' = storage /\ dropped' = unread
  /\ pc' = "saveInfo"
  /\ UNCHANGED <<envVars, infoVars, storage, savedModule, savedSlot, savedCount>>
  /\ UNCHANGED <<localVars, faults, unread>>

InfoSaved ==
  /\ pc = "saveInfo"
  /\ SaveInfoFile
  /\ pc' = "idle"
  /\ UNCHANGED <<envVars, infoVars, storage, savedStorage, localVars, faults, lossVars>>

(* A read, a request, the worker or a write throws; memory keeps what it   *)
(* has, and the loop goes on with it if IsInitialized.                     *)
Fail ==
  /\ pc \notin {"idle", "commit"} /\ Fault
  /\ pc' = "idle"
  /\ UNCHANGED <<envVars, infoVars, storage, fileVars, localVars, lossVars>>

(* The process stops; the next one has read nothing yet. *)
Restart ==
  /\ Fault
  /\ module' = FALSE /\ slot' = NoSlot /\ count' = 0
  /\ storage' = NoKeys /\ unread' = {}
  /\ pc' = "idle"
  /\ UNCHANGED <<envVars, fileVars, localVars, dropped>>

Next ==
  \/ Finalize \/ ApiAdvance
  \/ StartInit \/ InfoRead \/ StorageRead
  \/ ModuleFound \/ ModuleSaved \/ InitHeader \/ InitKeys \/ InitValidators
  \/ StartUpdate \/ NewValidators \/ FindKeys
  \/ ApiOutdated \/ Commit \/ StorageSaved \/ InfoSaved
  \/ Fail \/ Restart

Spec == Init /\ [][Next]_vars

-----------------------------------------------------------------------------
(* The keys that no accepted answer can lack once their validator is in    *)
(* the state: their deposit is at least the configured age older.          *)
InTimeKeys ==
  {k \in ModuleKeys : FreshnessPeriod <= (Appears[k] - Deposited[k]) * SecondsPerSlot}

(* An index of c validators up to slot s: no validator of the state at s   *)
(* was left out, and every module key that was deposited in time sits at   *)
(* its own validator, but for the keys that are gone.                      *)
IsIndexOf(s, c, entries, gone) ==
  /\ \A i \in Indices : Appears[i] <= s => i < c
  /\ \A i \in InTimeKeys \ gone : i < c => entries[i] = i
  /\ \A i \in Indices : entries[i] \in {i, Unknown}

(* The index in memory is at all times, also in the middle of an update    *)
(* that has changed half of it and after any failed one, an index of the   *)
(* slot it claims, but for the keys of a file that could not be read: what *)
(* isTrustedFor... infers from the slot is true of all other keys that the *)
(* duties look up.                                                         *)
IndexIsComplete == IsIndexOf(slot, count, storage, unread)

(* The same of the two files: they are written and read one after the      *)
(* other, and a start from any pair of them finds an index of the slot it  *)
(* reads, but for the keys that memory without them was written over.      *)
SavedIndexIsComplete == IsIndexOf(savedSlot, savedCount, savedStorage, dropped)

(* No run, whether it succeeds, fails or is cut off, and no restart moves  *)
(* the slot of the info file back, and a key leaves the file of keys only  *)
(* by the write of a process that could not read it: otherwise what memory *)
(* is written over a file with is never older than the file.               *)
FilesOnlyGain ==
  [][/\ savedSlot <= savedSlot'
     /\ \A i \in Keys(savedStorage) \ unread : savedStorage'[i] = savedStorage[i]]_vars

(* README, "we can use the previously successfully received data to        *)
(* guarantee that our slashings will report": between two runs of an       *)
(* initialised indexer, the duties find every key that was received and    *)
(* saved before.                                                           *)
ReceivedKeysAreUsed ==
  pc = "idle" /\ IsInitialized => Keys(savedStorage) \subseteq Keys(storage)

(* The indexer does what the walk is composed with: seen through the slot  *)
(* its index is of, each of its runs, whatever it requests, finds, half    *)
(* writes and leaves behind, is one step of a task, its end or a stutter.  *)
(* Until the files are read again the index of memory is that of the file. *)
Claimed == IF slot = NoSlot THEN savedSlot ELSE slot

TaskStep ==
  IF pc \in {"initKeys", "initValidators", "validators", "find", "commit"} THEN "state"
  ELSE IF pc \in {"saveStorage", "saveInfo"} THEN "save" ELSE "idle"

TaskTarget == IF TaskStep = "idle" THEN NoSlot ELSE target

Task == INSTANCE IndexTask WITH indexed <- Claimed, savedIndexed <- savedSlot,
                                update <- TaskStep, target <- TaskTarget

RunsIndexTask == Task!TaskSpec
=============================================================================
