-------------------------------- MODULE Host --------------------------------
(***************************************************************************)
(* The VM host of arwen/host/arwen.go driving nested contract execution.  *)
(* One top-level call runs at a time.  The running contract is arbitrary  *)
(* WASM code, so which EI function it calls next is a free choice; the   *)
(* EI functions that nest calls (executeOnSameContext, executeOnDestContext,*)
(* delegateExecution, executeReadOnly in kalyan3104ei.go) save the runtime,*)
(* storage and (for dest-context) output state on their stacks, push the  *)
(* caller's WASM instance and start a new one; when the nested contract   *)
(* stops, everything is popped and the EI function resumes in the caller. *)
(*                                                                         *)
(* frames is the chain of contract executions in progress: the top-level  *)
(* call and one entry per nested EI call that is still waiting for its    *)
(* callee, with the kind of EI call it is.  It is the Go call stack of    *)
(* the host, which decides what the EI function does after the callee.    *)
(***************************************************************************)
EXTENDS Naturals, Sequences, FiniteSets, SequencesExt

CONSTANTS
    Addresses,      \* smart contract accounts
    Keys, ProtectedKeys, Vals, Nil, NoUpdate,   \* as in StorageContext
    NoAddress,      \* the empty scAddress after InitState
    NoInstance,     \* a nil *wasmer.Instance
    MaxInstances,   \* runtimeContext.maxWasmerInstances
    MaxSteps        \* EI calls one top-level call can pay for (its gas)

ASSUME MaxInstances \in Nat \ {0} /\ MaxSteps \in Nat

VARIABLES
    phase,          \* "Idle" between top-level calls, "Running" during one
    hook,           \* blockchain state: account -> key -> value or Nil
    updates,        \* output accounts' StorageUpdates: account -> key -> value or NoUpdate
    outStack,       \* outputContext state stack (snapshots of updates)
    scAddress,      \* runtimeContext.scAddress
    readOnly,       \* runtimeContext.readOnly
    rtStack,        \* runtimeContext.stateStack
    stAddress,      \* storageContext.address
    stStack,        \* storageContext.stateStack
    instance,       \* runtimeContext.instance: [code, bp] or NoInstance
    instanceStack,  \* runtimeContext.instanceStack
    frames,         \* executions in progress: [kind, addr]
    steps,          \* EI calls made in the current top-level call
    lastReturn      \* outcome of the latest top-level call

vars == <<phase, hook, updates, outStack, scAddress, readOnly, rtStack,
          stAddress, stStack, instance, instanceStack, frames, steps, lastReturn>>

SC == INSTANCE StorageContext WITH
        DataCopyPerByte <- 0, StorePerByte <- 0, PersistPerByte <- 0,
        ReleasePerByte <- 0, MaxOps <- 0,
        hook <- hook, updates <- updates, readOnly <- readOnly,
        gasUsed <- 0, gasFreed <- 0, lastRead <- <<>>,
        lastStatus <- "StorageUnchanged", ops <- 0

Breakpoints == {"None", "OutOfGas", "SignalError", "ExecutionFailed"}
CallKinds == {"same", "dest", "readonly", "delegate"}
Results == {"None", "Ok", "UserError", "ExecutionFailed", "OutOfGas", "Panic"}

(* What the node's trie can hold: a key written with the empty value is   *)
(* deleted, so it reads back as nil.                                       *)
StoredVals == (Vals \ {<<>>}) \union {Nil}

EmptyUpdates == [a \in Addresses |-> [k \in Keys |-> NoUpdate]]
Running == Last(frames)
LiveInstances == Len(instanceStack) + (IF instance = NoInstance THEN 0 ELSE 1)

-----------------------------------------------------------------------------
(* Mutant of StartWasmerInstance: the cap compared with > instead of >=.  *)
StartWasmerInstanceOffByOne(stack) == Len(stack) <= MaxInstances

(* runtimeContext.StartWasmerInstance: refused when the instance stack is *)
(* already MaxInstances deep, which leaves no instance.                    *)
StartWasmerInstance(stack) == Len(stack) < MaxInstances

(* outputContext.PopMergeActiveState (spec 4.3): the inner frame's        *)
(* storage updates override the outer ones key by key.                     *)
PopMergeActiveState(outer, inner) ==
    [a \in Addresses |-> [k \in Keys |->
        IF inner[a][k] # NoUpdate THEN inner[a][k] ELSE outer[a][k]]]

(* The node applies the output accounts of a successful call (spec 7).    *)
ApplyUpdates(h, upd) ==
    [a \in Addresses |-> [k \in Keys |->
        CASE upd[a][k] = NoUpdate -> h[a][k]
          [] upd[a][k] = <<>> -> Nil
          [] OTHER -> upd[a][k]]]

ReturnCodeOf(bp) ==
    CASE bp = "None" -> "Ok"
      [] bp = "SignalError" -> "UserError"
      [] bp = "OutOfGas" -> "OutOfGas"
      [] bp = "ExecutionFailed" -> "ExecutionFailed"

-----------------------------------------------------------------------------
Init ==
    /\ phase = "Idle"
    /\ hook \in [Addresses -> [Keys -> StoredVals]]
    /\ updates = EmptyUpdates
    /\ outStack = <<>>
    /\ scAddress = NoAddress
    /\ readOnly = FALSE
    /\ rtStack = <<>>
    /\ stAddress = NoAddress
    /\ stStack = <<>>
    /\ instance = NoInstance
    /\ instanceStack = <<>>
    /\ frames = <<>>
    /\ steps = 0
    /\ lastReturn = "None"

(* vmHost.InitState: ClearContextStateStack empties the output, runtime    *)
(* and storage state stacks (not the instance stack), the output starts    *)
(* with no accounts, the runtime InitState clears the read-only flag.      *)
InitState ==
    /\ outStack' = <<>>
    /\ rtStack' = <<>>
    /\ stStack' = <<>>
    /\ updates' = EmptyUpdates
    /\ readOnly' = FALSE

(* RunSmartContractCall -> doRunSmartContractCall: InitState, then the      *)
(* runtime takes the recipient (InitStateFromContractCallInput), the       *)
(* storage points at it and the contract's instance is started.            *)
RunSmartContractCall(a) ==
    /\ phase = "Idle"
    /\ InitState
    /\ scAddress' = a
    /\ stAddress' = a
    /\ steps' = 0
    /\ IF StartWasmerInstance(instanceStack)
       THEN /\ instance' = [code |-> a, bp |-> "None"]
            /\ frames' = <<[kind |-> "top", addr |-> a]>>
            /\ phase' = "Running"
            /\ UNCHANGED lastReturn
       ELSE /\ instance' = NoInstance
            /\ frames' = <<>>
            /\ lastReturn' = "ExecutionFailed"
            /\ UNCHANGED phase
    /\ UNCHANGED <<hook, instanceStack>>

(* Mutant of CanCallEI: execution goes on after the gas is exhausted.      *)
CanCallEIIgnoringGas ==
    /\ phase = "Running"
    /\ instance.bp = "None"

(* The running contract can call an EI function: its instance has no      *)
(* breakpoint set and gas is left for one more call.                       *)
CanCallEI ==
    /\ phase = "Running"
    /\ instance.bp = "None"
    /\ steps < MaxSteps

(* The EI call ends with FailExecution: a memory argument out of bounds or *)
(* a context error routed through WithFault(err, true).                    *)
FailExecution ==
    /\ instance' = [instance EXCEPT !.bp = "ExecutionFailed"]

EIUnchanged == UNCHANGED <<phase, hook, outStack, scAddress, readOnly, rtStack,
                           stAddress, stStack, instanceStack, frames, lastReturn>>

(* storageStore: key or data unreadable, or SetStorage refusing a protected *)
(* key, fail the execution; otherwise the write is staged.                 *)
StorageStore(k, v) ==
    LET r == SC!SetStorage(updates[stAddress], hook[stAddress], readOnly, k, v) IN
    /\ CanCallEI
    /\ steps' = steps + 1
    /\ \/ FailExecution /\ UNCHANGED updates
       \/ /\ r.err
          /\ FailExecution
          /\ UNCHANGED updates
       \/ /\ ~r.err
          /\ updates' = [updates EXCEPT ![stAddress] = r.updates]
          /\ UNCHANGED instance
    /\ EIUnchanged

(* storageLoadLength and storageLoad: GetStorage stages what it read from  *)
(* the hook; an unreadable key fails before that, a result that does not   *)
(* fit the memory (storageLoad's MemStore) fails after it.                 *)
StorageLoad(k) ==
    LET staged == [updates EXCEPT ![stAddress] =
                      SC!GetStorage(updates[stAddress], hook[stAddress], k).updates]
    IN
    /\ CanCallEI
    /\ steps' = steps + 1
    /\ \/ FailExecution /\ UNCHANGED updates
       \/ updates' = staged /\ UNCHANGED instance
       \/ updates' = staged /\ FailExecution
    /\ EIUnchanged

(* signalError: SignalUserError sets the SignalError breakpoint, unless    *)
(* the message is unreadable and the execution fails.                      *)
SignalError ==
    /\ CanCallEI
    /\ steps' = steps + 1
    /\ \/ instance' = [instance EXCEPT !.bp = "SignalError"]
       \/ FailExecution
    /\ UNCHANGED updates
    /\ EIUnchanged

(* Metering: the gas is exhausted and the OutOfGas breakpoint fires.       *)
OutOfGas ==
    /\ phase = "Running"
    /\ instance.bp = "None"
    /\ steps = MaxSteps
    /\ instance' = [instance EXCEPT !.bp = "OutOfGas"]
    /\ UNCHANGED <<updates, steps>>
    /\ EIUnchanged

(* The EI function returns 1 having changed nothing.                       *)
ReturnOne ==
    /\ steps' = steps + 1
    /\ UNCHANGED <<updates, instance>>
    /\ EIUnchanged

(* runtimeContext.PushState: a copy of the active state goes on the state  *)
(* stack; of its fields the model keeps scAddress and readOnly.           *)
PushState(stack, addr, ro) == Append(stack, [scAddress |-> addr, readOnly |-> ro])

(* runtimeContext.PushInstance: the running instance goes on the stack.   *)
PushInstance(stack, inst) == Append(stack, inst)

(* host.ExecuteOnSameContext / ExecuteOnDestContext (spec 4.8), entered    *)
(* from an EI function: the runtime state (with the read-only flag the EI  *)
(* function left), the storage address and, for a dest-context call, the   *)
(* output are pushed with the caller's instance, and the runtime and       *)
(* storage switch to the callee.  If the callee's instance cannot start,   *)
(* everything is popped back at once and the EI function goes on.          *)
NestedCall(kind, dest, ro) ==
    LET pushed == PushInstance(instanceStack, instance) IN
    /\ steps' = steps + 1
    /\ IF StartWasmerInstance(pushed)
       THEN /\ instanceStack' = pushed
            /\ instance' = [code |-> dest, bp |-> "None"]
            /\ rtStack' = PushState(rtStack, scAddress, ro)
            /\ stStack' = Append(stStack, stAddress)
            /\ outStack' = IF kind = "dest" THEN Append(outStack, updates) ELSE outStack
            /\ scAddress' = dest
            /\ stAddress' = dest
            /\ readOnly' = ro
            /\ frames' = Append(frames, [kind |-> kind, addr |-> dest])
       ELSE /\ readOnly' = IF kind = "readonly" THEN FALSE ELSE ro
            /\ UNCHANGED <<instanceStack, instance, rtStack, stStack, outStack,
                           scAddress, stAddress, frames>>
    /\ UNCHANGED <<phase, hook, updates, lastReturn>>

(* executeOnSameContext: unreadable address, value or arguments return 1   *)
(* (WithFault(err, false)); otherwise the nested same-context call.        *)
ExecuteOnSameContext(dest) ==
    /\ CanCallEI
    /\ \/ ReturnOne
       \/ NestedCall("same", dest, readOnly)

(* executeOnDestContext: the same, through a dest-context call.             *)
ExecuteOnDestContext(dest) ==
    /\ CanCallEI
    /\ \/ ReturnOne
       \/ NestedCall("dest", dest, readOnly)

(* delegateExecution: unreadable address or arguments fail the execution;  *)
(* a failed Transfer of the call value returns 1; otherwise a same-context *)
(* call of the given address.                                              *)
DelegateExecution(dest) ==
    /\ CanCallEI
    /\ \/ steps' = steps + 1 /\ FailExecution /\ UNCHANGED updates /\ EIUnchanged
       \/ ReturnOne
       \/ NestedCall("delegate", dest, readOnly)

(* executeReadOnly: as delegateExecution, but SetReadOnly(true) before the *)
(* same-context call and SetReadOnly(false) after it.                      *)
ExecuteReadOnly(dest) ==
    /\ CanCallEI
    /\ \/ steps' = steps + 1 /\ FailExecution /\ UNCHANGED updates /\ EIUnchanged
       \/ ReturnOne
       \/ NestedCall("readonly", dest, TRUE)

(* Mutant of ReturnFromNested: the storage context is popped with         *)
(* PopDiscard, so it keeps pointing at the callee's account.               *)
ReturnFromNestedDiscardStorage ==
    LET callee == Running IN
    /\ phase = "Running"
    /\ Len(frames) > 1
    /\ instance' = Last(instanceStack)
    /\ instanceStack' = Front(instanceStack)
    /\ scAddress' = Last(rtStack).scAddress
    /\ readOnly' = IF callee.kind = "readonly" THEN FALSE ELSE Last(rtStack).readOnly
    /\ rtStack' = Front(rtStack)
    /\ stStack' = Front(stStack)
    /\ IF callee.kind = "dest"
       THEN /\ updates' = PopMergeActiveState(Last(outStack), updates)
            /\ outStack' = Front(outStack)
       ELSE UNCHANGED <<updates, outStack>>
    /\ frames' = Front(frames)
    /\ UNCHANGED <<phase, hook, steps, lastReturn, stAddress>>

(* The callee stops (its function returned or a breakpoint ended it) and   *)
(* the host unwinds: PopInstance, runtime and storage PopSetActiveState,   *)
(* output PopMergeActiveState for a dest-context call; the EI function     *)
(* then resumes, executeReadOnly with SetReadOnly(false).                  *)
ReturnFromNested ==
    LET callee == Running IN
    /\ phase = "Running"
    /\ Len(frames) > 1
    /\ instance' = Last(instanceStack)
    /\ instanceStack' = Front(instanceStack)
    /\ scAddress' = Last(rtStack).scAddress
    /\ readOnly' = IF callee.kind = "readonly" THEN FALSE ELSE Last(rtStack).readOnly
    /\ rtStack' = Front(rtStack)
    /\ stAddress' = Last(stStack)
    /\ stStack' = Front(stStack)
    /\ IF callee.kind = "dest"
       THEN /\ updates' = PopMergeActiveState(Last(outStack), updates)
            /\ outStack' = Front(outStack)
       ELSE UNCHANGED <<updates, outStack>>
    /\ frames' = Front(frames)
    /\ UNCHANGED <<phase, hook, steps, lastReturn>>

(* The top-level contract stops: the return code follows its breakpoint,   *)
(* the node applies the output of a successful call, and the instance is   *)
(* cleaned.                                                                *)
FinishTopLevel ==
    LET code == ReturnCodeOf(instance.bp) IN
    /\ phase = "Running"
    /\ Len(frames) = 1
    /\ hook' = IF code = "Ok" THEN ApplyUpdates(hook, updates) ELSE hook
    /\ lastReturn' = code
    /\ instance' = NoInstance
    /\ frames' = <<>>
    /\ phase' = "Idle"
    /\ UNCHANGED <<updates, outStack, scAddress, readOnly, rtStack, stAddress,
                   stStack, instanceStack, steps>>

(* An EI function panics (getArgumentsFromMemory indexes past its slice    *)
(* when numArguments * 4 overflows int32).  The Go stack unwinds to        *)
(* TryCatch in RunSmartContractCall, which turns it into an error: no      *)
(* deferred pop runs, so every context is left as it was.                 *)
Panic ==
    /\ CanCallEI
    /\ phase' = "Idle"
    /\ frames' = <<>>
    /\ lastReturn' = "Panic"
    /\ UNCHANGED <<hook, updates, outStack, scAddress, readOnly, rtStack, stAddress,
                   stStack, instance, instanceStack, steps>>

Next ==
    \/ \E a \in Addresses : RunSmartContractCall(a)
    \/ \E k \in Keys, v \in Vals : StorageStore(k, v)
    \/ \E k \in Keys : StorageLoad(k)
    \/ SignalError
    \/ OutOfGas
    \/ \E dest \in Addresses :
          \/ ExecuteOnSameContext(dest)
          \/ ExecuteOnDestContext(dest)
          \/ DelegateExecution(dest)
          \/ ExecuteReadOnly(dest)
    \/ ReturnFromNested
    \/ FinishTopLevel
    \/ Panic

Spec == Init /\ [][Next]_vars

-----------------------------------------------------------------------------
TypeOK ==
    /\ phase \in {"Idle", "Running"}
    /\ hook \in [Addresses -> [Keys -> StoredVals]]
    /\ updates \in [Addresses -> [Keys -> Vals \union {NoUpdate}]]
    /\ outStack \in Seq([Addresses -> [Keys -> Vals \union {NoUpdate}]])
    /\ scAddress \in Addresses \union {NoAddress}
    /\ readOnly \in BOOLEAN
    /\ rtStack \in Seq([scAddress : Addresses, readOnly : BOOLEAN])
    /\ stAddress \in Addresses \union {NoAddress}
    /\ stStack \in Seq(Addresses)
    /\ instance \in [code : Addresses, bp : Breakpoints] \union {NoInstance}
    /\ instanceStack \in Seq([code : Addresses, bp : Breakpoints] \union {NoInstance})
    /\ frames \in Seq([kind : CallKinds \union {"top"}, addr : Addresses])
    /\ steps \in 0..MaxSteps
    /\ lastReturn \in Results

(* Instance cap (spec 8.1): the suspended instances on the instance stack  *)
(* and the active one never number more than maxWasmerInstances, whatever *)
(* the nesting, the failed starts and the instances left behind by a       *)
(* panic.  About the check in StartWasmerInstance done after PushInstance. *)
InstanceCap == LiveInstances <= MaxInstances

(* While a call runs, the six stacks agree with the chain of executions:   *)
(* one runtime and one storage entry per suspended caller, holding that    *)
(* caller's address, an output entry per dest-context callee, the callers' *)
(* instances on top of the instance stack in order, and the runtime,       *)
(* storage and instance all on the running contract.  About the push/pop  *)
(* pairs of the nested EI calls, including the start failure that pops     *)
(* straight back, and about InitState resetting a stack a panic left.     *)
ContextStacksMatchCallChain ==
    phase = "Running" =>
      LET n    == Len(frames) - 1
          base == Len(instanceStack) - n
      IN
      /\ Len(rtStack) = n
      /\ Len(stStack) = n
      /\ Len(outStack) = Cardinality({i \in 2..Len(frames) : frames[i].kind = "dest"})
      /\ base >= 0
      /\ \A i \in 1..n :
           /\ rtStack[i].scAddress = frames[i].addr
           /\ stStack[i] = frames[i].addr
           /\ instanceStack[base + i] # NoInstance
           /\ instanceStack[base + i].code = frames[i].addr
      /\ scAddress = Running.addr
      /\ stAddress = Running.addr
      /\ instance # NoInstance /\ instance.code = Running.addr

(* Reserved-key inviolability (spec 8.3): whatever a contract and the      *)
(* contracts it calls do, no key with the protected prefix ever changes in *)
(* the state the node commits.  About SetStorage refusing such keys before *)
(* anything is staged, through the dest-context merge and the commit.     *)
ReservedKeysNeverCommitted ==
    [][\A a \in Addresses, k \in ProtectedKeys : hook'[a][k] = hook[a][k]]_vars

(* The value a key has for its account: staged, else the blockchain's.    *)
StorageView ==
    [a \in Addresses |-> [k \in Keys |->
        IF updates[a][k] # NoUpdate THEN updates[a][k] ELSE SC!HookData(hook[a], k)]]

InReadOnlyCall == \E i \in DOMAIN frames : frames[i].kind = "readonly"

(* Read-only no-mutation (spec 4.7, 8.4): while any execution of the chain *)
(* was entered through executeReadOnly, no step changes the storage any    *)
(* account would see.  About executeReadOnly's SetReadOnly(false) after    *)
(* the callee returns, which clears the flag a read-only caller had.       *)
ReadOnlyCallsDoNotWrite ==
    [][InReadOnlyCall => StorageView' = StorageView]_vars

(* State-stack balance (spec 8.2): after a top-level call that returned    *)
(* normally, no context stack holds anything.  About InitState, which      *)
(* clears the runtime, storage and output stacks but not the instance      *)
(* stack that an earlier panicking call left behind.                       *)
StacksEmptyAfterCall ==
    (phase = "Idle" /\ lastReturn \notin {"None", "Panic"}) =>
        /\ rtStack = <<>> /\ stStack = <<>> /\ outStack = <<>>
        /\ instanceStack = <<>>
=============================================================================
