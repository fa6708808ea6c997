------------------------------ MODULE Dispatch ------------------------------
(***************************************************************************)
(* The top-level dispatch of the VM host (arwen/host/arwen.go) and the    *)
(* runtime lookups it relies on (arwen/contexts/runtime.go and            *)
(* reservedFunctions.go): which code a deploy, a call or an upgrade        *)
(* starts, whether that code passes verification, and which of its        *)
(* exported functions runs.                                                *)
(*                                                                         *)
(* Any bytes given as code are abstracted to whether they are a WASM      *)
(* module, the names it exports and whether its memory declaration is     *)
(* valid.                                                                  *)
(***************************************************************************)
EXTENDS Naturals, Sequences

CONSTANTS
    APINames,             \* host.GetAPIMethods().Names(): the EI imports
    BuiltinNames,         \* host.GetProtocolBuiltinFunctions()
    UpgradeFunctionName,  \* arwen.UpgradeFunctionName
    InitFunctionName,     \* arwen.InitFunctionName
    InitFunctionNameEth   \* arwen.InitFunctionNameEth

MainName == "main"
NoFunction == "noFunction"
Code(exports, memOk) == [wasm |-> TRUE, exports |-> exports, memOk |-> memOk]
(* Bytes that are no WASM module; an account without code reads as such. *)
Junk == [wasm |-> FALSE, exports |-> {}, memOk |-> FALSE]
NoCode == Junk

(* NewReservedFunctions: the protocol builtins, the EI names and the      *)
(* upgrade function name.                                                  *)
ReservedNames == BuiltinNames \union APINames \union {UpgradeFunctionName}

(* ReservedFunctions.IsReserved.                                           *)
IsReserved(name) == name \in ReservedNames

(* StartWasmerInstance: wasmer.NewInstanceWithOptions refuses what is no  *)
(* WASM module.                                                            *)
Instantiates(code) == code.wasm

(* VerifyContractCode: verifyMemoryDeclaration, then verifyFunctions,     *)
(* which refuses every export with a reserved name.                       *)
VerifyContractCode(code) ==
    code.memOk /\ \A f \in code.exports : ~IsReserved(f)

(* GetFunctionToCall: the export named by the call, else "main", else     *)
(* ErrFuncNotFound.                                                        *)
GetFunctionToCall(code, function) ==
    IF function \in code.exports THEN function
    ELSE IF MainName \in code.exports THEN MainName
    ELSE NoFunction

(* GetInitFunction: "init", else the Ethereum-style init name, else nil.  *)
GetInitFunction(code) ==
    IF InitFunctionName \in code.exports THEN InitFunctionName
    ELSE IF InitFunctionNameEth \in code.exports THEN InitFunctionNameEth
    ELSE NoFunction

(* ExtractCodeUpgradeFromArgs: fewer than two arguments is                *)
(* ErrInvalidUpgradeArguments; otherwise the first two are the code and   *)
(* its metadata and the call keeps the rest.                               *)
ExtractCodeUpgradeFromArgs(args) ==
    IF Len(args) < 2
    THEN [err |-> TRUE, code |-> Junk, args |-> args]
    ELSE [err |-> FALSE, code |-> args[1], args |-> SubSeq(args, 3, Len(args))]

(* The code a deploy or an upgrade brings (spec 4.8, steps 3 to 5): it is *)
(* started, verified, and its init function (if any) runs.  failed means  *)
(* the request ends at once with an error, before any contract code runs. *)
DeployCode(code) ==
    IF ~Instantiates(code) \/ ~VerifyContractCode(code)
    THEN [failed |-> TRUE, install |-> NoCode, entry |-> NoFunction]
    ELSE [failed |-> FALSE, install |-> code, entry |-> GetInitFunction(code)]

(* Mutant of Dispatch: RunSmartContractCall without the upgrade branch,    *)
(* so the upgrade function is looked up among the account's exports.      *)
DispatchWithoutUpgrade(req, accountCode) ==
    IF req.kind = "deploy" THEN DeployCode(req.code)
    ELSE IF ~Instantiates(accountCode) \/ GetFunctionToCall(accountCode, req.function) = NoFunction
    THEN [failed |-> TRUE, install |-> NoCode, entry |-> NoFunction]
    ELSE [failed |-> FALSE, install |-> NoCode,
          entry |-> GetFunctionToCall(accountCode, req.function)]

(* RunSmartContractCreate starts the code of the deploy input;            *)
(* RunSmartContractCall takes the upgrade path iff the function is the    *)
(* upgrade function name, and otherwise starts the account's code and     *)
(* looks up the function to call (doRunSmartContractCall, spec 4.8).      *)
(* entry NoFunction with failed FALSE is a deploy without an init.        *)
Dispatch(req, accountCode) ==
    CASE req.kind = "deploy" -> DeployCode(req.code)
      [] req.function = UpgradeFunctionName ->
            LET u == ExtractCodeUpgradeFromArgs(req.args) IN
            IF u.err THEN [failed |-> TRUE, install |-> NoCode, entry |-> NoFunction]
            ELSE DeployCode(u.code)
      [] OTHER ->
            IF ~Instantiates(accountCode) \/ GetFunctionToCall(accountCode, req.function) = NoFunction
            THEN [failed |-> TRUE, install |-> NoCode, entry |-> NoFunction]
            ELSE [failed |-> FALSE, install |-> NoCode,
                  entry |-> GetFunctionToCall(accountCode, req.function)]
=============================================================================
