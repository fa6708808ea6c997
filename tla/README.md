# TLA+ models of the Arwen VM (dme-vm-go)

This directory holds TLA+ models of the Arwen WASM virtual machine in `src/arwen`.
It also holds the TLC configurations that check them. Every definition is written
from the Go source. `PROJECT.json` maps each definition to the lines it models.
Definitions marked `spec_modelled` model host code that is not in this repository
(`host/execution.go`, the output and metering contexts). Those follow `spec.md`.

## The system

The host (`arwen/host/arwen.go`) serves one top-level call at a time. The call is
`RunSmartContractCall` or `RunSmartContractCreate`, and it is wrapped in `TryCatch`.
The contract is WASM code. Whenever it calls an imported EI function
(`arwen/kalyan3104api/kalyan3104ei.go`), the host reaches its contexts:

* **runtime** (`contexts/runtime.go`): the contract address, the read-only flag, the
  breakpoint of the running instance, a state stack and an instance stack. The
  number of instances is capped by `maxWasmerInstances`.
* **storage** (`contexts/storage.go`): the address whose storage the contract sees.
  It stages reads and writes in the output account of that address and charges gas
  by the size transition.
* **output** and **metering**: the staged account changes, and gas. These are not
  in `src/` (spec 4.1, 4.3).
* **blockchain** (`contexts/blockchain.go`): a read facade over the node's hook.

Four EI functions nest calls: `executeOnSameContext`, `executeOnDestContext`,
`delegateExecution` and `executeReadOnly`. Each one pushes the runtime state, the
storage address, the output (dest-context calls only) and the caller's instance,
then starts the callee's instance. When the callee ends, the host pops all of them
and the EI function resumes. The control flow that is hard to get right lives
here: the push/pop pairs, the instance cap refusing a start halfway through a push,
the read-only flag around `executeReadOnly`, and a Go panic unwinding through all
of it to `TryCatch`.

## Modules

| module | models | state | actions |
|---|---|---|---|
| `ContractStorage` | what a contract's storage promises (abstract) | `store`, `lastRead`, `readOnly` | Read, Write, RefusedWrite, SetReadOnly |
| `ContractCall` | what the node gets from a VM behind the pipes (abstract): a VM host called in-process, answering each request in one step with `Dispatch` applied to the account's code | `node`, `outcome`, `accountCode`, `sent` | Request, Respond, Lose, Stop |
| `StorageContext` | `storage.go` for one account, with the gas of each write | hook, staged `updates`, `readOnly`, gas used/freed | Load (`storageLoad`), Store (`storageStore`), SetReadOnly, NextCall (commit + `InitState`) |
| `Host` | host + runtime + storage + EI nesting | `phase`, hook and staged updates of every account, runtime `scAddress`/`readOnly`/state stack, storage address/stack, output stack, instance and instance stack, `frames` (the Go call chain of nested EI calls), `steps` (gas) | RunSmartContractCall, StorageStore, StorageLoad, SignalError, OutOfGas, ExecuteOnSameContext, ExecuteOnDestContext, DelegateExecution, ExecuteReadOnly, ReturnFromNested, FinishTopLevel, Panic |
| `Memory` | `MemLoad`, `MemStore` (`runtime.go`) and `getArgumentsFromMemory`, `bytesToInt32`, `writeLog` with its topic loop and gas (`kalyan3104ei.go`) | the instance's `memory` (bytes), `last` (the latest call with its inputs, the memory it saw and its result), `stores` | Load, Store, GetArguments, WriteLog, NewInstance (`StartWasmerInstance`: fresh memory) |
| `BlockchainContext` | `blockchain.go`'s nonce and balance views over lazily created output accounts, driven by `transferValue`, `getExternalBalance`, `createContract` and the storage context | the hook's accounts, the output accounts (nonce, balance snapshot or nil, delta), `incs` (nonce increases), `phase`, `last` | StorageAccess, GetExternalBalance, TransferValue, CreateContract, NewCall |
| `BigIntBytes` | the integer/byte conversions of the EI: `math/big` `SetBytes`, `Bytes`, `Int64`, `IsInt64`, and the two's-complement `SetBytes`/`ToBytes` | constants only | |
| `EICallState` | `getNumArguments`, `getArgumentLength`, `getArgument`, `getFunction`, `int64getArgument`, `returnData` (finish), `int64finish`, `getNumReturnData`, `getReturnDataSize`, `getReturnData`, `createAsyncCall`, `setAsyncContextCallback`, `asyncCall`; the getters grouped by their order of gas and fault: `GetGasLeft`, `ReadAddressInfo` (`getSCAddress`, `getOwnerAddress`, `getCaller`, `getShardOfAddress`, `isSmartContract`: memory first, a fault drains the gas before any charge), `BlockHash`, `ReadBlockValue` (the eight block value getters), `StoreAfterGas` (random seeds, state root hash, `getOriginalTxHash`, `callValue`: charge, then a store that may fault); the runtime's async bookkeeping (`AddAsyncContextCall`, `GetAsyncContext`, `SetAsyncCallInfo`) and the metering `UseGas`/`GasLeft` they charge through | the call's `arguments` and `function`, the output's `returnData`, `written` (what each finish was given), `phase`, `last`, `gasLeft`, `charged` (the sum of every `UseGas`), the runtime `breakpoint`, `asyncCallInfo`, the async context map `asyncContexts`, `registered` (every registration of the call) | one action per EI function, NewCall |
| `Int64Storage` | `int64storageStore`, `int64storageLoad`, `setStorageLock`, `getStorageLock`, `isStorageLocked`, `clearStorageLock` and `storageStore`, over `StorageContext`'s `GetStorage`/`SetStorage` | hook, staged `updates`, block timestamp `now`, `phase`, `last`, ghosts `stored`/`locked` and their committed copy | one action per EI function, NewCall (commit on success, discard on failure, later block) |
| `IPCDialogue` | the node–Arwen dialogue over two pipes: `ArwenPart.doLoop` (`ipc/arwenpart/part.go`), the gateway's hook calls (`blockchainGateway.go`), the messenger's `Send` (`ipc/common/sender.go`), the repliers (`ipc/nodepart/blockchainRepliers.go`), and what the blockchain context makes of a failed hook read (`blockchain.go`, `storage.go:79`); the node's loop is from spec 5–6 | the pipes `toArwen`/`toNode`, `broken`, Arwen's loop state, the contract's remaining hook reads `script`, the pending hook, the node's loop state and outcome, a ghost for node errors | ReceiveNodeRequest, HookCall, HookReply, ContractReturns, NodeRequest, NodeStop, NodeReceive, BreakPipe |
| `Dispatch` | what a request starts: `RunSmartContractCreate` and `RunSmartContractCall`'s routing of the upgrade function (`host/arwen.go`), `StartWasmerInstance`'s refusal of bytes that are no module, `VerifyContractCode`, `GetFunctionToCall`, `GetInitFunction`, `ExtractCodeUpgradeFromArgs` (`runtime.go`) and the reserved names (`reservedFunctions.go`); code is abstracted to a WASM flag, its exports and a memory-declaration flag | operators only; `IPCDialogue` applies `Dispatch` in `ReceiveNodeRequest` and keeps the code Arwen outputs (`install`), the node's account code (`accountCode`) and the latest request (`sent`) | |
| `MCStorageContext`, `MCHost`, `MCMemory`, `MCBlockchainContext`, `MCEICallState`, `MCInt64Storage`, `MCIPCDialogue` (which also instantiates `Dispatch`) | TLC instantiations | | |

`Host` and `Int64Storage` apply `StorageContext`'s `GetStorage` and `SetStorage` operators (through
`INSTANCE`) to the account its storage context points at. A bug in those
operators is therefore a bug of the whole host.

Each EI action is the whole function, with every path it can take:

* A memory argument out of bounds goes through `WithFault(err, true)`, which leads
  to `FailExecution`.
* `WithFault(err, false)` and a failed `Transfer` make the function return 1.
* The nested call can be refused at the instance cap (`NestedCall`'s ELSE branch),
  and then everything is popped back at once.

The contract's choice of the next EI call is free: any enabled action may happen.

## Runs

| run | cfg | expect | shows |
|---|---|---|---|
| `storage_refinement` | `MCStorageContext.cfg` | pass | `RefinesContractStorage`: `StorageContext` implements `ContractStorage` under the refinement `store <- View`. Every read returns the latest accepted write, or the hook's value, and protected keys and read-only mode refuse writes. `StoreGasFollowsSchedule`: every write charges and refunds exactly what the table of spec 4.4 says. |
| `host_nesting` | `MCHost.cfg` | pass | `InstanceCap`: live instances never exceed the cap. `ContextStacksMatchCallChain`: the runtime, storage, output and instance stacks always mirror the chain of nested calls, including refused starts and instances left behind by a panic. `ReservedKeysNeverCommitted`: no protected key ever changes in committed state. |
| `host_read_only` | `MCHostReadOnly.cfg` | violation | `ReadOnlyCallsDoNotWrite` fails. See finding 1. |
| `host_panic_leak` | `MCHostPanic.cfg` | violation | `StacksEmptyAfterCall` fails. See finding 2. |
| `memory_access` | `MCMemory.cfg` | pass | `MemLoadAsSpecified`: a non-empty read fails or zero-pads exactly as spec 8.5 says, at the int32 extremes. `MemStoreAsSpecified`: a write grows memory by at most one page, a failed write changes no existing byte, and a successful one writes exactly the data. `ArgumentsMatchPacking`: every nested call that `getArgumentsFromMemory` accepts gets the function name and arguments that the packing of spec 4.7 describes. The reference decodes it in exact arithmetic. `WriteLogPersistsMemory`: a `writeLog` that succeeds hands the output the data and each topic exactly as they lie in memory. `WriteLogChargesPersistedBytes`: it is charged at least `Log + PersistPerByte` times the bytes it persists, although `numTopics*HashLen+length` is summed in int32 and wraps. |
| `memory_arguments_panic` | `MCMemoryPanic.cfg` | violation | `NoPanicInArguments` fails. See finding 4. |
| `blockchain_accounts` | `MCBlockchainContext.cfg` | pass | `NoOverdraft`: after any mix of transfers, balance reads, storage accesses and contract creations by any contracts, no account's hook balance plus staged delta is negative. |
| `blockchain_stale_nonce` | `MCBlockchainNonce.cfg` | violation | `NewAddressGetsCreatorNonce` fails. See finding 5. |
| `ei_call_state` | `MCEICallState.cfg` | pass | `Int64ArgumentAsSpecified`: `int64getArgument` returns the two's-complement value and fails exactly for a missing id or a value outside int64 (also for wide sign-extended arguments). `Int64FinishReadsBack`: `int64finish` appends the fewest two's-complement bytes of its value. `ReturnDataReadsWhatWasFinished`: `getReturnData(i)` yields what the (i+1)-th finish of the call gave. `AsyncContextsKeepRegistrations`: the async context map holds every `createAsyncCall` of the call under its identifier, in order, and no other identifier, whatever `setAsyncContextCallback` did in between. `AsyncCallGetsGasLeft`: at the `AsyncCall` breakpoint the async call is handed exactly the gas no EI call of the call has used, and at least `2*AsyncCallStep + AsyncCallbackGasLock`. |
| `int64_storage` | `MCInt64Storage.cfg` | pass | `Int64StorageRoundTrip`: a non-negative int64 stored with `int64storageStore` loads back unchanged, within the call and after it is committed, and a store of a failed call is forgotten. `LockFollowsTimestamp`: after `setStorageLock(k, t)` (t not negative) or `clearStorageLock(k)`, `isStorageLocked(k)` answers 1 before t and 0 from t on, as blocks advance. |
| `ipc_dialogue` | `MCIPCDialogue.cfg` | pass | `Lockstep`: at most one message is in the pipes, and the reply the gateway reads is the response of the method it called. `SuccessfulDeployInstallsItsCode`: after a deploy or upgrade the node takes as successful, the account holds exactly the code that request carried. `ImplementsContractCall`: the node's view (its loop state, outcome, account code and request) refines `ContractCall`; the pipes, Arwen's loop and every hook call in the middle of a request map to stuttering steps, the node's receive of the response to `Respond`, and a pipe break during a request to `Lose`. It includes `ContractCall`'s fairness: a request being served is answered or lost. A pipe may break at any point. |
| `ipc_hook_error` | `MCIPCDialogueHookError.cfg` | violation | `NodeAcceptsOnlyAuthoritative` fails. See finding 6. |

Every property of the passing runs has a mutant in `PROJECT.json`. A mutant is a
plausible bug of the mapped code, and TLC finds the property violated when the
mutant replaces that code:

* `>` instead of `>=` in `StartWasmerInstance`;
* the storage context popped with `PopDiscard`;
* the reserved-prefix check lost;
* the staged map ignored by `GetStorage`;
* the shrink refund computed before the negation;
* execution continuing after the gas is exhausted;
* `MemStore` growing two pages;
* `MemLoad` copying one byte short;
* the argument lengths decoded big-endian;
* `GetBalance` without the staged delta, and `GetBalance` caching the projected balance;
* the output's return data kept from the previous call, `finish` prepending,
  arguments decoded unsigned, `int64finish` encoding the magnitude;
* `AddAsyncContextCall` making a fresh context for every call, and `asyncCall`
  reading `GasLeft` before `UseGas`;
* an empty update committed instead of deleting the key, `int64storageLoad`
  decoding two's complement, `isStorageLocked` comparing with `<`;
* a replier answering `GetUserAccount` with a `GetStorageData` response;
* `RunSmartContractCall` without its upgrade branch (the name then falls through to
  the account's `main`, which returns Ok and installs nothing);
* the node installing the code of any response, whatever its return code (only
  the refinement catches this: a deploy whose init fails on a `GetCode` error
  comes back failed with the new code in its output).

### Bounds

`MCHost` uses:

* two contracts, one ordinary key and one protected key (the violation runs use symmetry over the contracts);
* the values `<<>>` and `<<1>>`;
* `MaxInstances = 3` and `MaxSteps = 3` EI calls per top-level call.

These bounds allow a chain of three executions (top, nested, nested). They also
allow a start refused at the cap and a panic two levels deep that leaks an instance
into the next call. The read-only run uses `MaxInstances = 2`, so the second nested
`executeReadOnly` is refused.

`MCStorageContext` uses three keys, one of them protected, and values of length 0, 1
and 2. With those lengths every gas class occurs: unchanged, add, delete, grow,
shrink and same-length. The run allows up to 3 operations per call, and any number
of calls.

`MCHost.cfg` has 478k distinct states and takes about 15 seconds. `MCStorageContext` finishes in under 30 seconds, with
about 200k distinct states.

`MCMemory` shrinks int32 to 8 bits and a byte to 2 bits. An argument length is
still four little-endian bytes, and int32 still wraps at the same places:
`numArguments` 32, 64 and 65 play the roles of 2^29, 2^30 and 2^30+1.

* Pages are 4 bytes, with at most 3 pages.
* The initial memories hold the length fields 1, 127 (int32 max) and -128 (int32 min).
* Offsets include -128, -1, 0, 127 and the two sides of a page end.
* Lengths include -1, 0 and 127.
* Each instance makes one store.
* A log topic (`HashLen`) is 4 bytes, and `writeLog` takes -1, 0, 1, 2 or 4
  topics. Four topics from offset 0 reach the end of a 12-byte memory, and with
  a data length of 127 the int32 sum `numTopics*HashLen+length` wraps, as a data
  length of about 2^31 does with 32 bits.

Loads, unpackings and logs do not change memory. The model therefore takes them
only right after a store or an instance start (`Observing`). Every input is still
tried on every memory. The run has 144k states and takes about 70 s.

`MCBlockchainContext` uses three symmetric addresses, hook nonces 0 and 2, hook
balances 0 and 2 (or an unknown account), transfer values 1 and 2, and 3 EI calls
per top-level call. A transfer can then exceed a balance, meet an account first
created by the storage context, and reach an account the hook does not know. The
run has 25k states.

`MCEICallState` uses bytes of 4 values and a 4-bit int64 (-8..7). The
argument lists hold the most negative int64 (`<<2,0>>`) before a small one
(`<<1>>`), a 3-byte value past int64 (`<<0,3,1>>`) and a sign-extended -1
(`<<3,3,3>>`). The ids are -1, 0 and 2: negative, the first argument, and past
every list. `int64finish` is given -8, -1 and 2 (2 needs a sign byte), and at
most two entries are finished per call, so that order matters. Every EI function
costs 1 gas, and so do a persisted or copied byte, `AsyncCallStep` and
`AsyncCallbackGasLock`, so an async call needs 3 gas left. The instance starts
with 4: `asyncCall` reaches the `AsyncCall` breakpoint as the first EI call, and
`OutOfGas` after any other, and a call of at most four charged EI calls can
exhaust its gas. Two identifiers, two destinations and at most two
registrations per call let a second registration join an existing context or
make a new one. The run has about 790k states and takes 2 minutes. Gas
bounds the length of a call, so the free functions (`createAsyncCall`,
`setAsyncContextCallback`) are capped by `MaxAsync` registrations.

`MCInt64Storage` uses the same widths, an ordinary and a protected key (whose lock
key is protected too), int64s -3, 2 and 7, lock times -3 and 3, block timestamps
0, 3 and 5 (3 is the lock time itself), a raw 3-byte value past int64, and 3 EI
calls per call. Calls may fail halfway, and the next call may run in a later block.
The run has 97k states.

`MCIPCDialogue` gives the contract four scripts of hook reads: none, a storage
read (its error is dropped), a code read (its error fails the call), and a
timestamp read followed by a balance read (the zero-value and default paths). The
node sends at most `MaxCalls = 4` requests, then may stop Arwen. A request is a
DiagnoseWait or one of eight contract requests over five codes: deploys of a code
with `init` and `inc`, of one with only `main` (no init), of one exporting the
upgrade function and of one with a bad memory declaration; calls of `inc` and of
the missing `get` (which falls back to `main`, or fails with `ErrFuncNotFound`);
upgrades to a code with the Ethereum-style init and to the `main`-only code, each
with metadata that is no module, and an upgrade with one argument only
(`ErrInvalidUpgradeArguments`). One reserved name of each kind is given. Four
requests reach a deploy, an upgrade, a call of the upgraded code and a second
upgrade, or a call after a failed one; the node deploys only while its account has
no code. The pipe can break before or after any step. The run has 3,363 states;
`ipc_hook_error` uses the same requests with `MaxCalls = 3`.

The upgrade is modelled as the redeploy spec 4.6 describes: the code from the
arguments is started, verified, and its init function runs. Spec 4.8 step 4 says
verification happens "on deploy only"; the model verifies on upgrade too, which is
what `VerifyContractCode`'s reserved upgrade name is for (an upgraded code that
exported the upgrade function would shadow the upgrade path).

### Fairness

`Host` checks no liveness property and assumes no fairness. Whether a call
returns depends on metering, which is not under `src/`. In the model, the bound
`MaxSteps` on EI calls per top-level call ends every call whatever the host code
does, so a property that calls return would check nothing of that code.

`IPCDialogue`'s liveness is part of `ImplementsContractCall`. It assumes
weak fairness of Arwen's steps (`ArwenStep`) and of the node's receive
(`NodeReceive`). Each side is one goroutine whose loop blocks only on a pipe read
(`part.go:47`, the gateway's `Receive`). When a step is enabled, the loop takes
it. The node need not send a request, and a pipe need not break. So
`NodeRequest`, `NodeStop` and `BreakPipe` are not fair.

`ContractCall` assumes weak fairness of `Respond \/ Lose`: a request being
served is answered, or the VM is lost. `IPCDialogue` shows it from its own
fairness (Arwen's steps and the node's receive), since either the response
reaches the node or a pipe breaks, and the node's receive then ends the request.

The IPC runs set `CHECK_DEADLOCK FALSE`. The dialogue really does stop: after
`Stop`, after a broken pipe, or once the node has sent its `MaxCalls` requests.
Every other run checks deadlock.

## Findings

1. **Read-only flag not restored** (`kalyan3104ei.go:1439`). `executeReadOnly`
   calls `SetReadOnly(false)` after the nested call. A contract that runs read-only
   and itself calls `executeReadOnly` is left writable. This also happens when that
   nested call is refused at the instance cap. TLC's trace has 5 states: call A,
   `executeReadOnly(A)`, a second `executeReadOnly` refused at the cap, then
   `storageStore`, which is staged. Spec 4.7 says the flag is restored, and spec 8.4
   says nothing is written while read-only.
2. **Instance stack leaks past a panic** (`arwen.go:191`). `InitState` clears every
   state stack except the runtime's instance stack. No code in `src` calls
   `ClearInstanceStack`. A panic in a nested call therefore leaves instances on the
   stack (one such panic is `getArgumentsFromMemory` when `numArguments*4` wraps
   int32). Each later call inherits them, loses nesting depth, and never frees them.
   This assumes the host's `ExecuteOn*` code, which is not in this repository, has
   no deferred pop.
3. **Equal-length modification is free** (`storage.go:145`). Gas table 4.4 has no
   row for it, and the code charges 0.
4. **Argument unpacking panics** (`kalyan3104ei.go:1279-1292`).
   `getArgumentsFromMemory` computes `numArguments*4` in int32. With
   `numArguments = 2^30` the product is 0, so `MemLoad` returns an empty slice. Then
   `GuardedMakeByteSlice2D` allocates 2^30 slice headers (about 24 GiB), and
   `argumentsLengthData[0:4]` panics. With 2^30+1 the panic comes one iteration
   later. Spec 4.8 says EI functions never panic. At best the panic reaches
   `TryCatch` and leaks the instance stack (finding 2). At worst the allocation kills
   the node.
5. **Stale creator nonce** (`blockchain.go:89`). `GetNonce` trusts the nonce of an
   existing output account. The storage context creates output accounts with nonce
   0 and never reads the hook's nonce into them (the TODO at `:85`). A contract with
   nonce 2 that touches its storage and then calls `createContract` derives the new
   address from nonce 0 instead of 1.
6. **A failed storage read is taken as empty** (`storage.go:79`). `GetStorage`
   drops the error of `GetStorageData`. Over IPC, the node may answer a storage
   hook with an error. The contract then reads an empty value and returns Ok, and
   the node accepts a result computed from a read it refused. TLC's trace: call,
   the `GetStorageData` request, an error reply, then an Ok `ContractResponse`.
   Spec 4.4 says `get` returns the hook's authoritative value, and spec 5 says
   the host treats every hook response as authoritative.

## Observations (not checked by a run)

* **Negative resultID panics** (`kalyan3104ei.go:1537`, `:1554`).
   `getReturnDataSize` and `getReturnData` check only
   `resultID >= len(returnData)`. `getReturnDataSize(-1)` indexes the slice and
   panics, reached in one step. `getArgument` and `int64getArgument` refuse
   `id < 0`. The panic ends in `TryCatch` (finding 2). A unit test reaches it in one call.
* **int64 storage drops the sign** (`kalyan3104ei.go:1090`).
   `int64storageStore` stores `big.NewInt(value).Bytes()`, the absolute value, and
   `int64storageLoad` reads it back as unsigned. Storing -3 loads 3.
   `setStorageLock` does the same to a negative timestamp (`:795`). `int64finish`
   and `int64getArgument` use two's complement for the same values.

* **Nonce 0 gives the same address twice** (`blockchain.go:34`). `NewAddress`
   clamps a creator nonce of 0 to 0. `createContract` then raises the nonce to 1,
   and the next `createContract` derives from 1-1 = 0 again: the creator's first two
   contracts get the same address. Spec 8.10 prescribes the clamp.
* **An upgrade rewrites the caller's arguments** (`runtime.go:213`).
   `ExtractCodeUpgradeFromArgs` shifts `context.vmInput.Arguments`, and `vmInput`
   points into the caller's `ContractCallInput`.

* **`init` can be called again** (`runtime.go:315`). `GetFunctionToCall`
   returns any export by name, and `init` is not reserved, so a call of `init`
   on a deployed contract re-runs its initializer. The spec does not say the
   initializer is deploy-only.

## Not modelled yet (plan for later sittings)

1. Done: `Memory`, `EICallState`.
2. Done: `createContract` with BlockchainContext; `RunSmartContractCreate`, the
   upgrade path, verification and the reserved names in `Dispatch`, composed
   into `IPCDialogue`. The validator's own checks (`verifyMemoryDeclaration`,
   `verifyFunctions` internals) are not under `src/` and are abstracted to a flag
   and the reserved-name test.
3. Done: `asyncCall` and its gas threshold, `createAsyncCall`,
   `setAsyncContextCallback` in `EICallState`. Still open: the host's handler of
   the `AsyncCall` breakpoint, which is in `execution.go` and not under `src/`.
4. Done: `transferValue`, the storage locks, and the int64 variants.
5. Done: the IPC dialogue (`IPCDialogue`), including the loop, the hook calls,
   a broken pipe and hook errors. Still open: the payloads of the messages
   (`messagesFactory.go`), marshalling, and the gateway methods that are never
   reached by the blockchain context.
6. Metering as its own module (`spec_modelled`), with gas conservation (spec 8.7)
   and a liveness property that every call returns. Such a property needs the gas
   counter in the state instead of the `MaxSteps` bound.

The output context, metering, bigInt and `execution.go` are not under `src/`. Where
the host needs them, they are modelled from `spec.md` and marked `spec_modelled`.
The mandos/arwendebug/fuzz/cmd drivers and the mocks add no VM behaviour.
The blockchain context's getters other than the nonce and balance views
(`AccountExists`, `GetCode(Hash/Size)`, `GetOwnerAddress`, the block values) only
return the hook's answer and change no state; their EI callers appear in
`EICallState` by their order of gas and fault. The runtime setters that only
`execution.go` calls (`SetCustomCallFunction`, `SetVMInput`, `SetSCAddress`,
`SetPointsUsed`, `SetInstanceContext`) are not modelled, and neither is
`ClearInstanceStack`, which nothing under `src/` calls. `messagesFactory.go` is a
table from message kind to an empty message, with no control flow of its own.
