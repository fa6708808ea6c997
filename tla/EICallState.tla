------------------------ MODULE EICallState ------------------------------
(***************************************************************************)
(* The EI functions of arwen/kalyan3104api/kalyan3104ei.go that read the   *)
(* call's arguments and function name out of the runtime context and that *)
(* append to or read the return data of the output context: getNumArguments,*)
(* getArgumentLength, getArgument, getFunction, int64getArgument,          *)
(* returnData (finish), int64finish, getNumReturnData, getReturnDataSize   *)
(* and getReturnData.                                                      *)
(*                                                                         *)
(* A non-empty write to or read from WASM memory (MemStore, MemLoad;      *)
(* Memory.tla) either succeeds or fails, chosen by \E; an empty one always *)
(* succeeds.  A failure is WithFault with failExecution = true, which uses *)
(* all the gas left and ends the call.  Gas is metered with UseGas.  A Go  *)
(* panic inside a host function ends the call as "panicked".               *)
(***************************************************************************)
EXTENDS BigIntBytes

CONSTANTS
    ArgLists,      \* runtime.Arguments() a call may have: sequences of byte strings
    Functions,     \* runtime.Function() names, as byte strings
    Ids,           \* int32 ids and resultIDs a contract passes
    Int64Values,   \* int64 values given to int64finish
    FinishData,    \* byte strings given to finish
    MaxFinish,     \* bound on the return data of one call
    AsyncIds,      \* async context identifiers, as byte strings
    Destinations,  \* addresses an async call is sent to
    Callbacks,     \* callback names given to setAsyncContextCallback
    DataLengths,   \* lengths of the data of an asyncCall
    MaxAsync,      \* bound on the createAsyncCall registrations of one call
    GasProvided,   \* gas the instance is started with
    FlatCost,      \* the flat Kalyan3104APICost of every EI function here
    PersistPerByte, DataCopyPerByte, AsyncCallStep, AsyncCallbackGasLock

NoInt == "bytes"   \* marks a return-data entry that came from finish
NoAsyncCall == [dest |-> <<>>, gasLimit |-> 0]   \* asyncCallInfo = nil

VARIABLES
    arguments,     \* runtime.Arguments()
    function,      \* runtime.Function()
    returnData,    \* output.ReturnData()
    written,       \* ghost: what each finish or int64finish was given
    phase,         \* "running", "failed" (FailExecution) or "panicked"
    last,          \* the latest EI call: name, id, returned value, bytes written to memory
    gasLeft,       \* metering.GasLeft()
    charged,       \* ghost: the sum of every UseGas of the call
    breakpoint,    \* the runtime breakpoint: "None", "OutOfGas" or "AsyncCall"
    asyncCallInfo, \* runtime.asyncCallInfo
    asyncContexts, \* runtime.asyncContextInfo.AsyncContextMap: id -> [callback, calls]
    registered     \* ghost: every createAsyncCall that reached AddAsyncContextCall

callVars == <<arguments, function>>
gasVars == <<gasLeft, charged, breakpoint>>
asyncVars == <<asyncCallInfo, asyncContexts, registered>>
vars == <<callVars, returnData, written, phase, last, gasVars, asyncVars>>

None == [op |-> "none", id |-> 0, value |-> 0, data |-> <<>>]
Result(op, id, value, data) == [op |-> op, id |-> id, value |-> value, data |-> data]

(* The instance runs until the engine sees a breakpoint, which it checks  *)
(* on return from every EI function.                                       *)
Running == phase = "running" /\ breakpoint = "None"

(* A Go index out of range: the host function panics.                     *)
Panic == phase' = "panicked"

(* id < 0 || int32(len(args)) <= id fails this.                           *)
ArgInRange(id) == 0 <= id /\ id < Len(arguments)

(* metering.UseGas(n): take n from the gas left; when less is left, the   *)
(* gas left becomes zero and the OutOfGas breakpoint is set.               *)
AfterGas(n) == IF n <= gasLeft THEN gasLeft - n ELSE 0
UseGas(n) ==
    /\ gasLeft' = AfterGas(n)
    /\ charged' = charged + n
    /\ breakpoint' = IF n <= gasLeft THEN breakpoint ELSE "OutOfGas"

(* WithFault(err, context, true): UseGas(GasLeft()), then FailExecution.   *)
Fault == phase' = "failed" /\ UseGas(gasLeft)

(* UseGas(n) and then WithFault(err, context, true) in the same function. *)
FaultAfterGas(n) ==
    /\ phase' = "failed"
    /\ gasLeft' = 0
    /\ charged' = charged + n + AfterGas(n)
    /\ breakpoint' = IF n <= gasLeft THEN breakpoint ELSE "OutOfGas"

-----------------------------------------------------------------------------
Init ==
    /\ arguments \in ArgLists
    /\ function \in Functions
    /\ returnData = <<>>
    /\ written = <<>>
    /\ phase = "running"
    /\ last = None
    /\ gasLeft = GasProvided
    /\ charged = 0
    /\ breakpoint = "None"
    /\ asyncCallInfo = NoAsyncCall
    /\ asyncContexts = <<>>
    /\ registered = <<>>

GetNumArguments ==
    /\ Running
    /\ UseGas(FlatCost)
    /\ last' = Result("getNumArguments", 0, Len(arguments), <<>>)
    /\ UNCHANGED <<callVars, returnData, written, phase, asyncVars>>

GetArgumentLength(id) ==
    /\ Running
    /\ UseGas(FlatCost)
    /\ last' = Result("getArgumentLength", id,
                      IF ArgInRange(id) THEN Len(arguments[id + 1]) ELSE -1, <<>>)
    /\ UNCHANGED <<callVars, returnData, written, phase, asyncVars>>

GetArgument(id) ==
    /\ Running
    /\ \/ /\ ~ArgInRange(id)
          /\ UseGas(FlatCost)
          /\ last' = Result("getArgument", id, -1, <<>>)
          /\ UNCHANGED phase
       \/ /\ ArgInRange(id)
          /\ UseGas(FlatCost)
          /\ last' = Result("getArgument", id, Len(arguments[id + 1]), arguments[id + 1])
          /\ UNCHANGED phase
       \/ /\ ArgInRange(id)
          /\ arguments[id + 1] # <<>>
          /\ FaultAfterGas(FlatCost)
          /\ last' = Result("getArgument", id, -1, <<>>)
    /\ UNCHANGED <<callVars, returnData, written, asyncVars>>

GetFunction ==
    /\ Running
    /\ \/ /\ UseGas(FlatCost)
          /\ last' = Result("getFunction", 0, Len(function), function)
          /\ UNCHANGED phase
       \/ /\ function # <<>>
          /\ FaultAfterGas(FlatCost)
          /\ last' = Result("getFunction", 0, -1, <<>>)
    /\ UNCHANGED <<callVars, returnData, written, asyncVars>>

Int64GetArgument(id) ==
    /\ Running
    /\ \/ /\ ~ArgInRange(id)
          /\ FaultAfterGas(FlatCost)
          /\ last' = Result("int64getArgument", id, 0, <<>>)
       \/ /\ ArgInRange(id)
          /\ ~IsInt64(TwosSetBytes(arguments[id + 1]))
          /\ FaultAfterGas(FlatCost)
          /\ last' = Result("int64getArgument", id, 0, <<>>)
       \/ /\ ArgInRange(id)
          /\ IsInt64(TwosSetBytes(arguments[id + 1]))
          /\ UseGas(FlatCost)
          /\ last' = Result("int64getArgument", id, TwosSetBytes(arguments[id + 1]), <<>>)
          /\ UNCHANGED phase
    /\ UNCHANGED <<callVars, returnData, written, asyncVars>>

(* Mutant of ReturnData: output.Finish puts the new entry first.          *)
ReturnDataPrepend(data) ==
    /\ Running
    /\ Len(returnData) < MaxFinish
    /\ returnData' = <<data>> \o returnData
    /\ written' = Append(written, [kind |-> NoInt, data |-> data, int |-> 0])
    /\ UseGas(FlatCost + PersistPerByte * Len(data))
    /\ last' = Result("finish", 0, 0, <<>>)
    /\ UNCHANGED <<callVars, phase, asyncVars>>

(* returnData (the finish EI function): MemLoad the bytes, then           *)
(* output.Finish appends them, then the gas is charged.                    *)
ReturnData(data) ==
    /\ Running
    /\ Len(returnData) < MaxFinish
    /\ \/ /\ data # <<>>
          /\ Fault
          /\ UNCHANGED <<returnData, written>>
       \/ /\ returnData' = Append(returnData, data)
          /\ written' = Append(written, [kind |-> NoInt, data |-> data, int |-> 0])
          /\ UseGas(FlatCost + PersistPerByte * Len(data))
          /\ UNCHANGED phase
    /\ last' = Result("finish", 0, 0, <<>>)
    /\ UNCHANGED <<callVars, asyncVars>>

Int64Finish(v) ==
    /\ Running
    /\ Len(returnData) < MaxFinish
    /\ returnData' = Append(returnData, TwosToBytes(v))
    /\ written' = Append(written, [kind |-> "int64", data |-> <<>>, int |-> v])
    /\ UseGas(FlatCost)
    /\ last' = Result("int64finish", 0, 0, <<>>)
    /\ UNCHANGED <<callVars, phase, asyncVars>>

GetNumReturnData ==
    /\ Running
    /\ UseGas(FlatCost)
    /\ last' = Result("getNumReturnData", 0, Len(returnData), <<>>)
    /\ UNCHANGED <<callVars, returnData, written, phase, asyncVars>>

(* Only resultID >= len(returnData) is refused; a negative resultID       *)
(* indexes the slice and panics.                                           *)
GetReturnDataSize(resultID) ==
    /\ Running
    /\ UseGas(FlatCost)
    /\ \/ /\ resultID >= Len(returnData)
          /\ last' = Result("getReturnDataSize", resultID, 0, <<>>)
          /\ UNCHANGED phase
       \/ /\ resultID < 0
          /\ Panic
          /\ last' = Result("getReturnDataSize", resultID, 0, <<>>)
       \/ /\ 0 <= resultID /\ resultID < Len(returnData)
          /\ last' = Result("getReturnDataSize", resultID,
                            Len(returnData[resultID + 1]), <<>>)
          /\ UNCHANGED phase
    /\ UNCHANGED <<callVars, returnData, written, asyncVars>>

GetReturnData(resultID) ==
    /\ Running
    /\ \/ /\ resultID >= Len(returnData)
          /\ UseGas(FlatCost)
          /\ last' = Result("getReturnData", resultID, 0, <<>>)
          /\ UNCHANGED phase
       \/ /\ resultID < 0
          /\ UseGas(FlatCost)
          /\ Panic
          /\ last' = Result("getReturnData", resultID, 0, <<>>)
       \/ /\ 0 <= resultID /\ resultID < Len(returnData)
          /\ UseGas(FlatCost)
          /\ last' = Result("getReturnData", resultID, Len(returnData[resultID + 1]),
                            returnData[resultID + 1])
          /\ UNCHANGED phase
       \/ /\ 0 <= resultID /\ resultID < Len(returnData)
          /\ returnData[resultID + 1] # <<>>
          /\ FaultAfterGas(FlatCost)
          /\ last' = Result("getReturnData", resultID, 0, <<>>)
    /\ UNCHANGED <<callVars, returnData, written, asyncVars>>

(* Mutant of AddAsyncContextCall: a fresh context is made for every call, *)
(* as if the "if !ok" guard were dropped.                                  *)
AddAsyncContextCallResetting(id, call) ==
    asyncContexts' = (id :> [callback |-> <<>>, calls |-> <<call>>]) @@ asyncContexts

(* runtime.AddAsyncContextCall: make the context on first use, then       *)
(* append the call to it; it never fails.                                  *)
AddAsyncContextCall(id, call) ==
    LET ctx == IF id \in DOMAIN asyncContexts THEN asyncContexts[id]
               ELSE [callback |-> <<>>, calls |-> <<>>]
    IN  asyncContexts' = (id :> [ctx EXCEPT !.calls = Append(@, call)]) @@ asyncContexts

(* createAsyncCall: six MemLoads (identifier, destination, value, data,   *)
(* success and error callbacks), any of which may fault, then             *)
(* AddAsyncContextCall.  It charges no gas.                                *)
CreateAsyncCall(id, dest) ==
    /\ Running
    /\ Len(registered) < MaxAsync
    /\ \/ /\ Fault
          /\ UNCHANGED <<asyncContexts, registered>>
       \/ /\ AddAsyncContextCall(id, dest)
          /\ registered' = Append(registered, [id |-> id, dest |-> dest])
          /\ UNCHANGED <<phase, gasVars>>
    /\ last' = Result("createAsyncCall", 0, 0, <<>>)
    /\ UNCHANGED <<callVars, returnData, written, asyncCallInfo>>

(* setAsyncContextCallback: MemLoad the identifier, GetAsyncContext (an   *)
(* unknown identifier is ErrAsyncContextDoesNotExist), MemLoad the        *)
(* callback name, set it.  It charges no gas.                              *)
SetAsyncContextCallback(id, cb) ==
    /\ Running
    /\ \/ /\ Fault
          /\ last' = Result("setAsyncContextCallback", 0, -1, <<>>)
          /\ UNCHANGED asyncContexts
       \/ /\ id \notin DOMAIN asyncContexts
          /\ Fault
          /\ last' = Result("setAsyncContextCallback", 0, -1, <<>>)
          /\ UNCHANGED asyncContexts
       \/ /\ id \in DOMAIN asyncContexts
          /\ asyncContexts' = [asyncContexts EXCEPT ![id].callback = cb]
          /\ last' = Result("setAsyncContextCallback", 0, 0, <<>>)
          /\ UNCHANGED <<phase, gasVars>>
    /\ UNCHANGED <<callVars, returnData, written, asyncCallInfo, registered>>

MinAsyncCallCost == 2 * AsyncCallStep + AsyncCallbackGasLock

(* Mutant of AsyncCall: GasLeft is read before UseGas.                    *)
AsyncCallStaleGasLeft(dest, length) ==
    LET gasLimit == gasLeft IN
    /\ Running
    /\ gasLeft' = AfterGas(AsyncCallStep + DataCopyPerByte * length)
    /\ charged' = charged + AsyncCallStep + DataCopyPerByte * length
    /\ IF gasLimit < MinAsyncCallCost
       THEN breakpoint' = "OutOfGas" /\ UNCHANGED asyncCallInfo
       ELSE breakpoint' = "AsyncCall" /\ asyncCallInfo' = [dest |-> dest, gasLimit |-> gasLimit]
    /\ last' = Result("asyncCall", 0, 0, <<>>)
    /\ UNCHANGED <<callVars, returnData, written, phase, asyncContexts, registered>>

(* asyncCall: three MemLoads that may fault; UseGas(AsyncCallStep +       *)
(* DataCopyPerByte * length); then everything left goes to the async call *)
(* if it covers 2 * AsyncCallStep + AsyncCallbackGasLock, and the         *)
(* instance stops at the AsyncCall breakpoint; otherwise at OutOfGas.      *)
AsyncCall(dest, length) ==
    LET cost == AsyncCallStep + DataCopyPerByte * length
        gasLimit == AfterGas(cost)
    IN
    /\ Running
    /\ \/ /\ Fault
          /\ UNCHANGED asyncCallInfo
       \/ /\ gasLeft' = gasLimit
          /\ charged' = charged + cost
          /\ gasLimit < MinAsyncCallCost
          /\ breakpoint' = "OutOfGas"
          /\ UNCHANGED <<phase, asyncCallInfo>>
       \/ /\ gasLeft' = gasLimit
          /\ charged' = charged + cost
          /\ gasLimit >= MinAsyncCallCost
          /\ asyncCallInfo' = [dest |-> dest, gasLimit |-> gasLimit]
          /\ breakpoint' = "AsyncCall"
          /\ UNCHANGED phase
    /\ last' = Result("asyncCall", 0, 0, <<>>)
    /\ UNCHANGED <<callVars, returnData, written, asyncContexts, registered>>

(* getGasLeft: UseGas, then the gas left is returned.                     *)
GetGasLeft ==
    /\ Running
    /\ UseGas(FlatCost)
    /\ last' = Result("getGasLeft", 0, AfterGas(FlatCost), <<>>)
    /\ UNCHANGED <<callVars, returnData, written, phase, asyncVars>>

(* getSCAddress, getOwnerAddress, getShardOfAddress, isSmartContract and *)
(* getCaller: the address is stored to (or loaded from) memory first, and  *)
(* a failed access, or GetOwnerAddress's hook error, is WithFault before   *)
(* any gas is charged; then UseGas.                                         *)
ReadAddressInfo ==
    /\ Running
    /\ \/ /\ UseGas(FlatCost)
          /\ UNCHANGED phase
       \/ Fault
    /\ last' = Result("addressInfo", 0, 0, <<>>)
    /\ UNCHANGED <<callVars, returnData, written, asyncVars>>

(* blockHash(nonce): UseGas, then BlockHash, which is nil for a negative   *)
(* nonce or a hook error, is stored; storing nil cannot fail.  A failed    *)
(* store returns 1, otherwise 0.                                           *)
BlockHash(nonce) ==
    /\ Running
    /\ \/ /\ UseGas(FlatCost)
          /\ last' = Result("blockHash", nonce, 0, <<>>)
          /\ UNCHANGED phase
       \/ /\ nonce >= 0
          /\ FaultAfterGas(FlatCost)
          /\ last' = Result("blockHash", nonce, 1, <<>>)
    /\ UNCHANGED <<callVars, returnData, written, asyncVars>>

(* getBlockTimestamp, getBlockNonce, getBlockRound, getBlockEpoch and the *)
(* getPrevBlock forms: UseGas, then the hook's value is returned.          *)
ReadBlockValue ==
    /\ Running
    /\ UseGas(FlatCost)
    /\ last' = Result("blockValue", 0, 0, <<>>)
    /\ UNCHANGED <<callVars, returnData, written, phase, asyncVars>>

(* getBlockRandomSeed, getStateRootHash, getPrevBlockRandomSeed,          *)
(* getOriginalTxHash and callValue: UseGas, then the bytes are stored;    *)
(* a failed store is WithFault.                                            *)
StoreAfterGas ==
    /\ Running
    /\ \/ /\ UseGas(FlatCost)
          /\ UNCHANGED phase
       \/ FaultAfterGas(FlatCost)
    /\ last' = Result("storeAfterGas", 0, 0, <<>>)
    /\ UNCHANGED <<callVars, returnData, written, asyncVars>>

(* Mutant of NewCall: the output context keeps the previous return data. *)
NewCallKeepingReturnData ==
    /\ arguments' \in ArgLists
    /\ function' \in Functions
    /\ written' = <<>>
    /\ phase' = "running"
    /\ last' = None
    /\ gasLeft' = GasProvided /\ charged' = 0 /\ breakpoint' = "None"
    /\ asyncCallInfo' = NoAsyncCall /\ asyncContexts' = <<>> /\ registered' = <<>>
    /\ UNCHANGED returnData

(* The call returns (or has failed, or stopped at a breakpoint) and the  *)
(* host runs the next one: InitState on every context clears the return  *)
(* data, asyncCallInfo and the async context map, and the instance starts *)
(* with its gas.                                                           *)
NewCall ==
    /\ arguments' \in ArgLists
    /\ function' \in Functions
    /\ returnData' = <<>>
    /\ written' = <<>>
    /\ phase' = "running"
    /\ last' = None
    /\ gasLeft' = GasProvided /\ charged' = 0 /\ breakpoint' = "None"
    /\ asyncCallInfo' = NoAsyncCall /\ asyncContexts' = <<>> /\ registered' = <<>>

Next ==
    \/ GetNumArguments
    \/ GetFunction
    \/ GetNumReturnData
    \/ \E id \in Ids : \/ GetArgumentLength(id)
                       \/ GetArgument(id)
                       \/ Int64GetArgument(id)
                       \/ GetReturnDataSize(id)
                       \/ GetReturnData(id)
    \/ \E d \in FinishData : ReturnData(d)
    \/ \E v \in Int64Values : Int64Finish(v)
    \/ \E id \in AsyncIds, d \in Destinations : CreateAsyncCall(id, d)
    \/ \E id \in AsyncIds, cb \in Callbacks : SetAsyncContextCallback(id, cb)
    \/ \E d \in Destinations, n \in DataLengths : AsyncCall(d, n)
    \/ GetGasLeft
    \/ ReadAddressInfo
    \/ \E n \in Ids : BlockHash(n)
    \/ ReadBlockValue
    \/ StoreAfterGas
    \/ NewCall

Spec == Init /\ [][Next]_vars

-----------------------------------------------------------------------------
Phases == {"running", "failed", "panicked"}
Bytes == UNION {[1..n -> 0..(Base - 1)] : n \in 0..(Int64Bits \div 2 + 2)}

TypeOK ==
    /\ arguments \in ArgLists
    /\ function \in Functions
    /\ returnData \in Seq(Bytes) /\ Len(returnData) <= MaxFinish
    /\ written \in Seq([kind : {NoInt}, data : FinishData, int : {0}] \union
                       [kind : {"int64"}, data : {<<>>}, int : Int64Values])
    /\ Len(written) = Len(returnData)
    /\ phase \in Phases
    /\ last.value \in Int /\ last.id \in Ids \union {0} /\ last.data \in Bytes
    /\ gasLeft \in 0..GasProvided /\ charged \in Nat
    /\ breakpoint \in {"None", "OutOfGas", "AsyncCall"}
    /\ asyncCallInfo \in [dest : Destinations \union {<<>>}, gasLimit : 0..GasProvided]
    /\ DOMAIN asyncContexts \subseteq AsyncIds
    /\ \A id \in DOMAIN asyncContexts :
           asyncContexts[id] \in [callback : Callbacks \union {<<>>}, calls : Seq(Destinations)]
    /\ registered \in Seq([id : AsyncIds, dest : Destinations])

(* int64getArgument returns the argument read as a two's-complement      *)
(* number, and fails the call exactly when the id names no argument or    *)
(* the number does not fit an int64 (the ErrArgIndexOutOfRange and        *)
(* ErrArgOutOfRange faults).  A sign-extended argument wider than eight   *)
(* bytes is still accepted when its value fits.                           *)
Int64ArgumentAsSpecified ==
    last.op = "int64getArgument" =>
        LET ok == /\ 0 <= last.id /\ last.id < Len(arguments)
                  /\ SpecTwosValue(arguments[last.id + 1]) \in Int64Range
        IN  /\ (phase = "running") <=> ok
            /\ ok => last.value = SpecTwosValue(arguments[last.id + 1])

(* Every return-data entry that int64finish appended holds the value it   *)
(* was given, as the fewest two's-complement bytes, so that a contract    *)
(* called next reads it back with int64getArgument.                        *)
Int64FinishReadsBack ==
    \A i \in 1..Len(written) :
        written[i].kind = "int64" =>
            /\ SpecTwosValue(returnData[i]) = written[i].int
            /\ Len(returnData[i]) = 1 \/ SpecTwosValue(Tail(returnData[i])) # written[i].int

(* The bytes a finish or an int64finish stands for.                       *)
Finished(b, w) == IF w.kind = NoInt THEN b = w.data ELSE SpecTwosValue(b) = w.int

(* getReturnData(i) copies to memory what the (i+1)-th finish or          *)
(* int64finish of the call gave, and returns its length; for an i past    *)
(* the end it copies nothing and returns 0.                                *)
ReturnDataReadsWhatWasFinished ==
    (last.op = "getReturnData" /\ phase = "running") =>
        IF 0 <= last.id /\ last.id < Len(written)
        THEN Finished(last.data, written[last.id + 1]) /\ last.value = Len(last.data)
        ELSE last.value = 0 /\ last.data = <<>>

(* The async context map holds, for every identifier createAsyncCall was  *)
(* given in this call, every call registered under it, in the order of    *)
(* registration, whatever setAsyncContextCallback did in between; and it  *)
(* holds no other identifier.                                              *)
AsyncContextsKeepRegistrations ==
    \A id \in AsyncIds :
        LET mine == SelectSeq(registered, LAMBDA r : r.id = id)
        IN  /\ (id \in DOMAIN asyncContexts) <=> mine # <<>>
            /\ id \in DOMAIN asyncContexts =>
                   asyncContexts[id].calls = [i \in 1..Len(mine) |-> mine[i].dest]

(* When an instance stops at the AsyncCall breakpoint, asyncCallInfo hands *)
(* the async call exactly the gas the call has not used in all its EI     *)
(* calls, the asyncCall's own step and data copy included, and that is     *)
(* enough for a callback: 2 * AsyncCallStep + AsyncCallbackGasLock.        *)
AsyncCallGetsGasLeft ==
    breakpoint = "AsyncCall" =>
        /\ asyncCallInfo.gasLimit = GasProvided - charged
        /\ asyncCallInfo.gasLimit >= MinAsyncCallCost
=============================================================================
