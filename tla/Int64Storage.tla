----------------------------- MODULE Int64Storage -----------------------------
(***************************************************************************)
(* The EI functions of arwen/kalyan3104api/kalyan3104ei.go that keep      *)
(* int64 values in contract storage: int64storageStore, int64storageLoad, *)
(* and the time locks setStorageLock, getStorageLock, isStorageLocked and *)
(* clearStorageLock, next to the plain storageStore that writes any bytes *)
(* under any key.  Each goes through the storage context of               *)
(* StorageContext.tla: its GetStorage and SetStorage are used as they     *)
(* are, on the staged updates and the hook's storage of this module.      *)
(*                                                                         *)
(* A time lock of key k lives under CustomStorageKey(TimeLockKeyPrefix, k),*)
(* which appends the suffix to k; LockKey(k) stands for it, so the lock   *)
(* of a protected key is protected too.  Loading a key from WASM memory   *)
(* may fail (MemLoad, Memory.tla); that is a fault that fails the call.   *)
(***************************************************************************)
EXTENDS BigIntBytes

CONSTANTS
    UserKeys,         \* keys a contract passes
    ProtectedUserKeys,\* those starting with kalyan3104ProtectedKeyPrefix
    InitStored,       \* what the hook may hold under a key when a call starts
    RawData,          \* bytes given to storageStore
    Int64Values,      \* values given to int64storageStore
    LockTimes,        \* timestamps given to setStorageLock
    Timestamps,       \* block timestamps, ascending from block to block
    Nil, NoUpdate,    \* as in StorageContext
    NoInt,            \* no int64 value was stored under the key
    MaxOps            \* bound on the EI calls of one contract call

ASSUME ProtectedUserKeys \subseteq UserKeys

LockKey(k) == <<k, "TimeLock">>
Keys == UserKeys \union {LockKey(k) : k \in UserKeys}
ProtectedKeys == ProtectedUserKeys \union {LockKey(k) : k \in ProtectedUserKeys}
Bytes == UNION {[1..n -> 0..(Base - 1)] : n \in 0..(Int64Bits \div 2 + 1)}

VARIABLES
    hook,       \* the blockchain hook's storage
    updates,    \* the storage updates staged in the output account
    now,        \* blockchain.CurrentTimeStamp()
    phase,      \* "running" or "failed"
    last,       \* the latest EI call: name, key, returned value
    ops,        \* EI calls in this contract call
    stored,     \* ghost: the int64 last stored under each key, or NoInt
    locked,     \* ghost: the timestamp of the last setStorageLock of each key, or NoInt
    committed   \* ghost: stored and locked as the last successful call left them

vars == <<hook, updates, now, phase, last, ops, stored, locked, committed>>

SC == INSTANCE StorageContext
        WITH Vals <- Bytes, DataCopyPerByte <- 0, StorePerByte <- 0,
             PersistPerByte <- 0, ReleasePerByte <- 0,
             readOnly <- FALSE, gasUsed <- 0, gasFreed <- 0,
             lastRead <- <<>>, lastStatus <- "StorageUnchanged"

None == [op |-> "none", key |-> Nil, value |-> 0]
Result(op, k, value) == [op |-> op, key |-> k, value |-> value]

(* A contract's EI call: the call is running and within the bound.        *)
Call == phase = "running" /\ ops < MaxOps /\ ops' = ops + 1

(* runtime.MemLoad of the key fails: WithFault fails the call.             *)
KeyFault(op, k, ret) ==
    /\ phase' = "failed"
    /\ last' = Result(op, k, ret)
    /\ UNCHANGED <<updates, stored, locked>>

(* int32(storageStatus): the vmcommon.StorageStatus enumeration.          *)
StatusCode == [StorageUnchanged |-> 0, StorageModified |-> 1,
               StorageAdded |-> 2, StorageDeleted |-> 3]

(* storage.SetStorage(key, data) and the result the EI function returns:  *)
(* the status, or -1 after a fault for a protected key.                   *)
Store(op, key, data, k) ==
    LET r == SC!SetStorage(updates, hook, FALSE, key, data) IN
    \/ /\ r.err
       /\ phase' = "failed"
       /\ last' = Result(op, k, -1)
       /\ UNCHANGED updates
    \/ /\ ~r.err
       /\ updates' = r.updates
       /\ last' = Result(op, k, StatusCode[r.status])
       /\ UNCHANGED phase

(* The ghost of key k is set to x when SetStorage accepts the write.      *)
Accepted(key, data) == ~SC!SetStorage(updates, hook, FALSE, key, data).err
Note(g, k, x, key, data) == IF Accepted(key, data) THEN [g EXCEPT ![k] = x] ELSE g

(* The stored bytes as big.NewInt(0).SetBytes(data).Int64() reads them,   *)
(* with the read staged as GetStorage stages it.                           *)
LoadInt64(key) == BigInt64(UnsignedValue(SC!GetStorage(updates, hook, key).value))

-----------------------------------------------------------------------------
Init ==
    /\ hook \in [Keys -> InitStored]
    /\ updates = [k \in Keys |-> NoUpdate]
    /\ now \in Timestamps
    /\ phase = "running"
    /\ last = None
    /\ ops = 0
    /\ stored = [k \in Keys |-> NoInt]
    /\ locked = [k \in UserKeys |-> NoInt]
    /\ committed = <<stored, locked>>

StorageStore(k, data) ==
    /\ Call
    /\ \/ KeyFault("storageStore", k, -1)
       \/ /\ Store("storageStore", k, data, k)
          /\ stored' = Note(stored, k, NoInt, k, data)
          /\ locked' = IF \E u \in UserKeys : LockKey(u) = k
                       THEN Note(locked, CHOOSE u \in UserKeys : LockKey(u) = k, NoInt, k, data)
                       ELSE locked
    /\ UNCHANGED <<hook, now, committed>>

(* int64storageStore stores big.NewInt(value).Bytes().                    *)
Int64StorageStore(k, value) ==
    /\ Call
    /\ \/ KeyFault("int64storageStore", k, -1)
       \/ /\ Store("int64storageStore", k, BigBytes(value), k)
          /\ stored' = Note(stored, k, value, k, BigBytes(value))
          /\ UNCHANGED locked
    /\ UNCHANGED <<hook, now, committed>>

(* Mutant of Int64StorageLoad: the bytes read as two's complement.        *)
Int64StorageLoadSigned(k) ==
    /\ Call
    /\ \/ KeyFault("int64storageLoad", k, 0)
       \/ /\ updates' = SC!GetStorage(updates, hook, k).updates
          /\ last' = Result("int64storageLoad", k,
                            TwosSetBytes(SC!GetStorage(updates, hook, k).value))
          /\ UNCHANGED <<phase, stored, locked>>
    /\ UNCHANGED <<hook, now, committed>>

Int64StorageLoad(k) ==
    /\ Call
    /\ \/ KeyFault("int64storageLoad", k, 0)
       \/ /\ updates' = SC!GetStorage(updates, hook, k).updates
          /\ last' = Result("int64storageLoad", k, LoadInt64(k))
          /\ UNCHANGED <<phase, stored, locked>>
    /\ UNCHANGED <<hook, now, committed>>

(* setStorageLock stores big.NewInt(0).SetInt64(lockTimestamp).Bytes()    *)
(* under the lock key; clearStorageLock is setStorageLock with 0.          *)
SetStorageLock(op, k, lockTimestamp) ==
    /\ Call
    /\ \/ KeyFault(op, k, -1)
       \/ /\ Store(op, LockKey(k), BigBytes(lockTimestamp), k)
          /\ locked' = Note(locked, k, lockTimestamp, LockKey(k), BigBytes(lockTimestamp))
          /\ stored' = Note(stored, LockKey(k), NoInt, LockKey(k), BigBytes(lockTimestamp))
    /\ UNCHANGED <<hook, now, committed>>

GetStorageLock(k) ==
    /\ Call
    /\ \/ KeyFault("getStorageLock", k, -1)
       \/ /\ updates' = SC!GetStorage(updates, hook, LockKey(k)).updates
          /\ last' = Result("getStorageLock", k, LoadInt64(LockKey(k)))
          /\ UNCHANGED <<phase, stored, locked>>
    /\ UNCHANGED <<hook, now, committed>>

(* Mutant of IsStorageLocked: a lock ending now still holds.              *)
IsStorageLockedAtEnd(k) ==
    /\ Call
    /\ \/ KeyFault("isStorageLocked", k, -1)
       \/ /\ updates' = SC!GetStorage(updates, hook, LockKey(k)).updates
          /\ last' = Result("isStorageLocked", k,
                            CASE LoadInt64(LockKey(k)) < 0 -> -1
                              [] LoadInt64(LockKey(k)) < now -> 0
                              [] OTHER -> 1)
          /\ UNCHANGED <<phase, stored, locked>>
    /\ UNCHANGED <<hook, now, committed>>

(* isStorageLocked: getStorageLock (a failed key load returns -1), then   *)
(* compared with getBlockTimestamp.                                        *)
IsStorageLocked(k) ==
    /\ Call
    /\ \/ KeyFault("isStorageLocked", k, -1)
       \/ /\ updates' = SC!GetStorage(updates, hook, LockKey(k)).updates
          /\ last' = Result("isStorageLocked", k,
                            CASE LoadInt64(LockKey(k)) < 0 -> -1
                              [] LoadInt64(LockKey(k)) <= now -> 0
                              [] OTHER -> 1)
          /\ UNCHANGED <<phase, stored, locked>>
    /\ UNCHANGED <<hook, now, committed>>

(* Mutant of NewCall: an update to the empty value is written as such    *)
(* instead of deleting the key.                                            *)
NewCallKeepingEmpty ==
    /\ hook' = IF phase = "running"
               THEN [k \in Keys |-> IF updates[k] = NoUpdate THEN hook[k] ELSE updates[k]]
               ELSE hook
    /\ committed' = IF phase = "running" THEN <<stored, locked>> ELSE committed
    /\ stored' = committed'[1]
    /\ locked' = committed'[2]
    /\ updates' = [k \in Keys |-> NoUpdate]
    /\ now' \in {t \in Timestamps : t >= now}
    /\ phase' = "running"
    /\ last' = None
    /\ ops' = 0

(* The call ends; after a successful one the node applies the staged     *)
(* updates (an empty value deletes the key), after a failed one it drops  *)
(* them.  The next call may run in a later block.                          *)
NewCall ==
    /\ hook' = IF phase = "running"
               THEN [k \in Keys |-> CASE updates[k] = NoUpdate -> hook[k]
                                      [] updates[k] = <<>> -> Nil
                                      [] OTHER -> updates[k]]
               ELSE hook
    /\ committed' = IF phase = "running" THEN <<stored, locked>> ELSE committed
    /\ stored' = committed'[1]
    /\ locked' = committed'[2]
    /\ updates' = [k \in Keys |-> NoUpdate]
    /\ now' \in {t \in Timestamps : t >= now}
    /\ phase' = "running"
    /\ last' = None
    /\ ops' = 0

Next ==
    \/ \E k \in Keys, d \in RawData : StorageStore(k, d)
    \/ \E k \in UserKeys, v \in Int64Values : Int64StorageStore(k, v)
    \/ \E k \in UserKeys : Int64StorageLoad(k)
    \/ \E k \in UserKeys, t \in LockTimes : SetStorageLock("setStorageLock", k, t)
    \/ \E k \in UserKeys : SetStorageLock("clearStorageLock", k, 0)
    \/ \E k \in UserKeys : GetStorageLock(k)
    \/ \E k \in UserKeys : IsStorageLocked(k)
    \/ NewCall

Spec == Init /\ [][Next]_vars

-----------------------------------------------------------------------------
TypeOK ==
    /\ hook \in [Keys -> (Bytes \ {<<>>}) \union {Nil}]
    /\ updates \in [Keys -> Bytes \union {NoUpdate}]
    /\ now \in Timestamps
    /\ phase \in {"running", "failed"}
    /\ ops \in 0..MaxOps
    /\ stored \in [Keys -> Int64Values \union {NoInt}]
    /\ locked \in [UserKeys -> LockTimes \union {0, NoInt}]
    /\ last.value \in Int

(* An int64 an earlier int64storageStore of this call or of a committed   *)
(* call put under a key, not overwritten since, is what int64storageLoad  *)
(* of the key returns: this holds for the values that are not negative.   *)
Int64StorageRoundTrip ==
    (last.op = "int64storageLoad" /\ phase = "running" /\ stored[last.key] # NoInt
        /\ stored[last.key] >= 0) => last.value = stored[last.key]

(* After setStorageLock(k, t) with t not negative (or clearStorageLock(k), *)
(* t = 0), in this call or a committed one, isStorageLocked(k) answers 1   *)
(* while the block timestamp is before t and 0 from t on, across blocks.  *)
LockFollowsTimestamp ==
    (last.op = "isStorageLocked" /\ phase = "running" /\ locked[last.key] # NoInt
        /\ locked[last.key] >= 0) =>
            last.value = IF now < locked[last.key] THEN 1 ELSE 0
=============================================================================
