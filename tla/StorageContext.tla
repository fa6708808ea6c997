--------------------------- MODULE StorageContext ---------------------------
(***************************************************************************)
(* The storage context of arwen/contexts/storage.go for the account it is *)
(* currently pointed at.  Storage updates are staged in the output account *)
(* of that address: a read that misses the staged map asks the blockchain  *)
(* hook and stages what it got, a write stages the old value first and    *)
(* then the new one, charging or refunding gas by the size transition.    *)
(*                                                                         *)
(* GetStorage and SetStorage are written as operators over the staged map *)
(* so that the host model (Host.tla) applies the very same definitions to *)
(* the account its storage context points at.                             *)
(***************************************************************************)
EXTENDS Naturals, Sequences

CONSTANTS
    Keys,             \* storage keys a contract uses
    ProtectedKeys,    \* keys starting with kalyan3104ProtectedKeyPrefix
    Vals,             \* byte strings, as sequences; <<>> is the empty one
    Nil,              \* what GetStorageData returns for a key never written
    NoUpdate,         \* no StorageUpdate staged for the key
    DataCopyPerByte,  \* BaseOperationCost of the gas schedule
    StorePerByte,
    PersistPerByte,
    ReleasePerByte,
    MaxOps            \* bound on the number of storage operations

ASSUME ProtectedKeys \subseteq Keys
ASSUME <<>> \in Vals /\ Nil \notin Vals /\ NoUpdate \notin Vals

VARIABLES
    hook,       \* the blockchain hook's storage: key -> value or Nil
    updates,    \* StorageUpdates of the output account: key -> value or NoUpdate
    readOnly,   \* runtime.ReadOnly()
    gasUsed,    \* gas taken by metering.UseGas
    gasFreed,   \* gas given back by metering.FreeGas
    lastRead,   \* value returned by the latest GetStorage
    lastStatus, \* StorageStatus returned by the latest SetStorage
    ops         \* number of storage operations so far

vars == <<hook, updates, readOnly, gasUsed, gasFreed, lastRead, lastStatus, ops>>

Statuses == {"StorageUnchanged", "StorageModified", "StorageAdded", "StorageDeleted"}

(* What the node's trie holds: a key written empty is deleted and reads   *)
(* back as nil.                                                            *)
StoredVals == (Vals \ {<<>>}) \union {Nil}

(* A nil slice from the hook reads as the empty byte string.               *)
HookData(h, k) == IF h[k] = Nil THEN <<>> ELSE h[k]

(* Mutant of isKalyan3104ReservedKey: the prefix check is lost.           *)
IsReservedKeyNever(k) == FALSE

(* storageContext.isKalyan3104ReservedKey: the key has the protected      *)
(* prefix.                                                                 *)
isKalyan3104ReservedKey(k) == k \in ProtectedKeys

(* Mutant of GetStorage: the staged map is not consulted.                 *)
GetStorageIgnoringStaged(upd, h, k) ==
    [value |-> HookData(h, k),
     updates |-> IF h[k] # Nil THEN [upd EXCEPT ![k] = h[k]] ELSE upd]

(* storageContext.GetStorage: the staged value if any; otherwise the      *)
(* hook's value, staged unless the hook returned nil.                      *)
GetStorage(upd, h, k) ==
    IF upd[k] # NoUpdate
    THEN [value |-> upd[k], updates |-> upd]
    ELSE [value |-> HookData(h, k),
          updates |-> IF h[k] # Nil THEN [upd EXCEPT ![k] = h[k]] ELSE upd]

(* Mutant of SetStorage: a shrinking write releases for the length        *)
(* difference before it is negated (newValueExtraLength < 0).              *)
SetStorageShrinkNotNegated(upd, h, ro, k, v) ==
    LET old    == GetStorage(upd, h, k).value
        staged == [GetStorage(upd, h, k).updates EXCEPT ![k] = old]
        set    == [staged EXCEPT ![k] = v]
        Result(st, u, use, free) ==
            [status |-> st, err |-> FALSE, updates |-> u, use |-> use, free |-> free]
    IN
    CASE isKalyan3104ReservedKey(k) ->
            [status |-> "StorageUnchanged", err |-> TRUE, updates |-> upd,
             use |-> 0, free |-> 0]
      [] ro -> Result("StorageUnchanged", upd, 0, 0)
      [] old = v -> Result("StorageUnchanged", staged, DataCopyPerByte * Len(v), 0)
      [] old = <<>> -> Result("StorageAdded", set, StorePerByte * Len(v), 0)
      [] v = <<>> -> Result("StorageDeleted", set, 0, ReleasePerByte * Len(old))
      [] Len(v) > Len(old) ->
            Result("StorageModified", set,
                   PersistPerByte * Len(old) + StorePerByte * (Len(v) - Len(old)), 0)
      [] Len(v) < Len(old) ->
            Result("StorageModified", set, PersistPerByte * Len(v),
                   ReleasePerByte * (Len(v) - Len(old)))
      [] OTHER -> Result("StorageModified", set, 0, 0)

(* storageContext.SetStorage: the returned status and error, the staged   *)
(* map afterwards, and the gas it uses and frees.                          *)
SetStorage(upd, h, ro, k, v) ==
    LET old    == GetStorage(upd, h, k).value
        staged == [GetStorage(upd, h, k).updates EXCEPT ![k] = old]
        set    == [staged EXCEPT ![k] = v]
        Result(st, u, use, free) ==
            [status |-> st, err |-> FALSE, updates |-> u, use |-> use, free |-> free]
    IN
    CASE isKalyan3104ReservedKey(k) ->
            [status |-> "StorageUnchanged", err |-> TRUE, updates |-> upd,
             use |-> 0, free |-> 0]
      [] ro -> Result("StorageUnchanged", upd, 0, 0)
      [] old = v -> Result("StorageUnchanged", staged, DataCopyPerByte * Len(v), 0)
      [] old = <<>> -> Result("StorageAdded", set, StorePerByte * Len(v), 0)
      [] v = <<>> -> Result("StorageDeleted", set, 0, ReleasePerByte * Len(old))
      [] Len(v) > Len(old) ->
            Result("StorageModified", set,
                   PersistPerByte * Len(old) + StorePerByte * (Len(v) - Len(old)), 0)
      [] Len(v) < Len(old) ->
            Result("StorageModified", set, PersistPerByte * Len(v),
                   ReleasePerByte * (Len(old) - Len(v)))
      [] OTHER -> Result("StorageModified", set, 0, 0)

(* The value a key has for the contract: staged, else the hook's.          *)
View == [k \in Keys |-> IF updates[k] # NoUpdate THEN updates[k] ELSE HookData(hook, k)]

-----------------------------------------------------------------------------
Init ==
    /\ hook \in [Keys -> StoredVals]
    /\ updates = [k \in Keys |-> NoUpdate]
    /\ readOnly = FALSE
    /\ gasUsed = 0
    /\ gasFreed = 0
    /\ lastRead = <<>>
    /\ lastStatus = "StorageUnchanged"
    /\ ops = 0

Load(k) ==
    LET r == GetStorage(updates, hook, k) IN
    /\ ops < MaxOps
    /\ ops' = ops + 1
    /\ updates' = r.updates
    /\ lastRead' = r.value
    /\ UNCHANGED <<hook, readOnly, gasUsed, gasFreed, lastStatus>>

Store(k, v) ==
    LET r == SetStorage(updates, hook, readOnly, k, v) IN
    /\ ops < MaxOps
    /\ ops' = ops + 1
    /\ updates' = r.updates
    /\ gasUsed' = gasUsed + r.use
    /\ gasFreed' = gasFreed + r.free
    /\ lastStatus' = r.status
    /\ UNCHANGED <<hook, readOnly, lastRead>>

(* The runtime context toggles its read-only flag around executeReadOnly. *)
SetReadOnly(b) ==
    /\ readOnly # b
    /\ readOnly' = b
    /\ UNCHANGED <<hook, updates, gasUsed, gasFreed, lastRead, lastStatus, ops>>

(* The call ends and the next one begins: the node applies the staged     *)
(* updates (an empty value deletes the key), then vmHost.InitState resets  *)
(* the output (no staged updates), the runtime (not read-only) and the     *)
(* metering of the new call.                                               *)
NextCall ==
    /\ hook' = [k \in Keys |-> CASE updates[k] = NoUpdate -> hook[k]
                                [] updates[k] = <<>> -> Nil
                                [] OTHER -> updates[k]]
    /\ updates' = [k \in Keys |-> NoUpdate]
    /\ readOnly' = FALSE
    /\ gasUsed' = 0
    /\ gasFreed' = 0
    /\ ops' = 0
    /\ UNCHANGED <<lastRead, lastStatus>>

Next ==
    \/ NextCall
    \/ \E k \in Keys : Load(k)
    \/ \E k \in Keys, v \in Vals : Store(k, v)
    \/ \E b \in BOOLEAN : SetReadOnly(b)

Spec == Init /\ [][Next]_vars

-----------------------------------------------------------------------------
TypeOK ==
    /\ hook \in [Keys -> StoredVals]
    /\ updates \in [Keys -> Vals \union {NoUpdate}]
    /\ readOnly \in BOOLEAN
    /\ gasUsed \in Nat /\ gasFreed \in Nat
    /\ lastRead \in Vals
    /\ lastStatus \in Statuses
    /\ ops \in 0..MaxOps

(* Refinement: the staged storage of storage.go behaves as the contract's  *)
(* key-value map of ContractStorage.  Every GetStorage returns the value   *)
(* of the latest accepted SetStorage of the key, or the hook's value; the  *)
(* staging of hook reads and of the old value inside SetStorage never     *)
(* changes what the contract sees; protected keys and read-only mode      *)
(* refuse the write.                                                       *)
Abstract == INSTANCE ContractStorage WITH store <- View
RefinesContractStorage == Abstract!Spec

(* The gas table of the specification (section 4.4): what a store from    *)
(* old to new uses and frees.  It has no row for a change that keeps the  *)
(* length, so that class is left unconstrained.                            *)
Schedule(old, new) ==
    CASE old = new -> [use |-> DataCopyPerByte * Len(new), free |-> 0]
      [] old = <<>> -> [use |-> StorePerByte * Len(new), free |-> 0]
      [] new = <<>> -> [use |-> 0, free |-> ReleasePerByte * Len(old)]
      [] Len(new) < Len(old) ->
            [use |-> PersistPerByte * Len(new),
             free |-> ReleasePerByte * (Len(old) - Len(new))]
      [] Len(new) > Len(old) ->
            [use |-> PersistPerByte * Len(old) + StorePerByte * (Len(new) - Len(old)),
             free |-> 0]

InSchedule(old, new) == old = new \/ Len(old) # Len(new)

(* Every SetStorage charges exactly what the gas table says for the       *)
(* transition from the value the contract saw to the value it wrote, and  *)
(* a refused write (protected key, read-only) charges nothing.  Breaks if *)
(* the old value is taken from anywhere but the staged view, or if a      *)
(* branch of SetStorage mixes up the lengths.                              *)
StoreGasFollowsSchedule ==
    [][\A k \in Keys, v \in Vals :
        Store(k, v) =>
          IF k \in ProtectedKeys \/ readOnly
          THEN gasUsed' = gasUsed /\ gasFreed' = gasFreed
          ELSE InSchedule(View[k], v) =>
                 /\ gasUsed' - gasUsed = Schedule(View[k], v).use
                 /\ gasFreed' - gasFreed = Schedule(View[k], v).free]_vars
=============================================================================
