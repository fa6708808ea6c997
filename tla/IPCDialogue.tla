---------------------------- MODULE IPCDialogue -----------------------------
(***************************************************************************)
(* The dialogue between the node and an Arwen process over two pipes     *)
(* (src/ipc): the node sends a contract request; Arwen's doLoop           *)
(* (arwenpart/part.go) runs it, and every blockchain hook call the        *)
(* contract makes goes back to the node through BlockchainHookGateway     *)
(* (arwenpart/blockchainGateway.go), is answered by the node's repliers   *)
(* (nodepart/blockchainRepliers.go), and the contract response closes the *)
(* dialogue.  The request is a deploy, a call or an upgrade, dispatched   *)
(* by the VM host (Dispatch); the node installs the code of a deploy or   *)
(* an upgrade that succeeds in its contract account.                      *)
(*                                                                         *)
(* A contract is abstracted to the hook reads it makes, each at one of    *)
(* the places of arwen/contexts that consume a hook answer (Sites).  The  *)
(* node's hook may answer a method that returns an error with an error.   *)
(* The pipes are FIFO and reliable until they break (a process dies or    *)
(* closes its end): then every later Send and receive fails.              *)
(***************************************************************************)
EXTENDS Naturals, Sequences, Dispatch

CONSTANTS
    Scripts,   \* the hook reads a contract makes: sequences of Sites
    Requests,  \* deploy and call inputs: [kind, code, function, args]
    MaxCalls   \* bound on the requests the node sends

None == "none"

(* The hook reads of arwen/contexts: storageContext.GetStorage,           *)
(* blockchainContext.GetBalanceBigInt, blockchainContext.GetCode and      *)
(* blockchainContext.CurrentTimeStamp.                                     *)
Sites == {"storage", "balance", "code", "timestamp"}

(* The BlockchainHook method each site calls.                              *)
Method == [storage |-> "GetStorageData", balance |-> "GetUserAccount",
           code |-> "GetUserAccount", timestamp |-> "CurrentTimeStamp"]

(* Gateway methods with an error result (NewAddress, GetStorageData,      *)
(* GetBlockhash, ProcessBuiltInFunction, GetAllState, GetUserAccount);    *)
(* the others (Last*, Current*, GetStateRootHash, GetShardOfAddress,      *)
(* IsSmartContract, GetBuiltinFunctionNames) return a zero value instead. *)
ErrorMethods == {"GetStorageData", "GetUserAccount"}
Methods == {Method[s] : s \in Sites}

(* Only GetCode returns the hook's error to its EI caller, which then     *)
(* fails the execution; the other sites return a default value.           *)
Propagates(site) == site = "code"

Msg(kind, method, err, ok) ==
    [kind |-> kind, method |-> method, err |-> err, ok |-> ok, code |-> NoCode]

DiagnoseWaitRequest == Msg("diagnoseWait", None, FALSE, TRUE)

VARIABLES
    toArwen,     \* the node -> Arwen pipe
    toNode,      \* the Arwen -> node pipe
    broken,      \* the pipes are closed or broken
    arwen,       \* doLoop: "receiving", "running", "waitingHook" or "stopped"
    script,      \* the hook reads the running contract has still to make
    pending,     \* the site whose hook call waits for its reply
    callFailed,  \* the running contract's execution failed
    install,     \* the code the running deploy or upgrade puts in its output
    node,        \* the node: "idle", "waiting" or "done"
    hookErrors,  \* ghost: the node answered a hook call of this dialogue with an error
    outcome,     \* the node's view of its latest request
    calls,       \* requests the node has sent
    accountCode, \* the code of the node's contract account
    sent         \* ghost: the latest request the node sent

arwenVars == <<arwen, script, pending, callFailed, install>>
nodeVars == <<node, hookErrors, outcome, calls, accountCode, sent>>
vars == <<toArwen, toNode, broken, arwenVars, nodeVars>>

(* Sender.Send: write the header and the payload; a closed pipe fails it. *)
Send(pipe, m) == IF broken THEN pipe' = pipe ELSE pipe' = Append(pipe, m)

-----------------------------------------------------------------------------
Init ==
    /\ toArwen = <<>> /\ toNode = <<>>
    /\ broken = FALSE
    /\ arwen = "receiving" /\ script = <<>> /\ pending = None
    /\ callFailed = FALSE /\ install = NoCode
    /\ node = "idle" /\ hookErrors = FALSE /\ outcome = "none"
    /\ calls = 0
    /\ accountCode = NoCode /\ sent = [kind |-> "none"]

(* A pipe breaks: the messages in it are lost.                             *)
BreakPipe ==
    /\ ~broken
    /\ broken' = TRUE
    /\ toArwen' = <<>> /\ toNode' = <<>>
    /\ UNCHANGED <<arwenVars, nodeVars>>

\* ---- Arwen: ArwenPart.doLoop and the gateway --------------------------

(* doLoop: ReceiveNodeRequest; an error or a Stop request ends the loop   *)
(* (and StartLoop shuts the messenger down); a deploy or call request     *)
(* goes to RunSmartContractCreate or RunSmartContractCall, whose dispatch *)
(* either fails before any contract code runs, or runs the init function  *)
(* or the function to call (no code for a deploy without init), with the  *)
(* account's code as the node holds it; DiagnoseWait is answered at once. *)
ReceiveNodeRequest ==
    /\ arwen = "receiving"
    /\ \/ /\ broken
          /\ arwen' = "stopped"
          /\ UNCHANGED <<toArwen, toNode, script, callFailed, install>>
       \/ /\ toArwen # <<>>
          /\ toArwen' = Tail(toArwen)
          /\ LET req == Head(toArwen) IN
             \/ /\ req.kind = "stop"
                /\ arwen' = "stopped"
                /\ UNCHANGED <<toNode, script, callFailed, install>>
             \/ /\ req.kind \in {"deploy", "call"}
                /\ arwen' = "running"
                /\ LET d == Dispatch(req, accountCode) IN
                   /\ install' = d.install
                   /\ callFailed' = d.failed
                   /\ IF d.entry = NoFunction THEN script' = <<>> ELSE script' \in Scripts
                /\ UNCHANGED toNode
             \/ /\ req.kind = "diagnoseWait"
                /\ Send(toNode, Msg("diagnoseWaitResponse", None, FALSE, TRUE))
                /\ arwen' = "receiving"
                /\ UNCHANGED <<script, callFailed, install>>
    /\ UNCHANGED <<broken, pending, nodeVars>>

(* What a hook read gives the contract when the gateway reports an error  *)
(* (err-returning methods) or a zero value (the others): GetCode fails    *)
(* the execution, which stops; every other site carries on with a default.*)
Consume(site, failed) ==
    IF failed /\ Propagates(site)
    THEN callFailed' = TRUE /\ script' = <<>>
    ELSE UNCHANGED callFailed /\ script' = Tail(script)

(* A gateway method sends its request (SendHookCallRequest); on a send    *)
(* error it returns at once with the error or the zero value.             *)
HookCall ==
    /\ arwen = "running" /\ script # <<>>
    /\ Send(toNode, Msg("hookRequest", Method[Head(script)], FALSE, TRUE))
    /\ \/ /\ broken
          /\ Consume(Head(script), TRUE)
          /\ UNCHANGED <<arwen, pending>>
       \/ /\ ~broken
          /\ arwen' = "waitingHook"
          /\ pending' = Head(script)
          /\ UNCHANGED <<script, callFailed>>
    /\ UNCHANGED <<toArwen, broken, install, nodeVars>>

(* The gateway reads the reply: a receive error, or a reply of another    *)
(* kind (ErrBadHookResponseFromNode), is an error or a zero value; else   *)
(* the result and, for err-returning methods, the node's error.           *)
HookReply ==
    /\ arwen = "waitingHook"
    /\ \/ /\ broken
          /\ Consume(pending, TRUE)
          /\ UNCHANGED toArwen
       \/ /\ toArwen # <<>>
          /\ toArwen' = Tail(toArwen)
          /\ LET r == Head(toArwen)
                 expected == r.kind = "hookResponse" /\ r.method = Method[pending]
             IN  Consume(pending, ~expected \/ (r.err /\ Method[pending] \in ErrorMethods))
    /\ arwen' = "running"
    /\ pending' = None
    /\ UNCHANGED <<toNode, broken, install, nodeVars>>

(* The contract returns: replyToRunSmartContractCreate or                 *)
(* replyToRunSmartContractCall wraps the VMOutput, with the code it        *)
(* deploys, in a ContractResponse, doLoop sends it (a send error ends the  *)
(* loop) and goes back to ReceiveNodeRequest.                              *)
ContractReturns ==
    /\ arwen = "running" /\ script = <<>>
    /\ Send(toNode, [Msg("contractResponse", None, FALSE, ~callFailed)
                        EXCEPT !.code = install])
    /\ arwen' = IF broken THEN "stopped" ELSE "receiving"
    /\ callFailed' = FALSE /\ install' = NoCode
    /\ UNCHANGED <<toArwen, broken, script, pending, nodeVars>>

\* ---- The node -----------------------------------------------------------

(* The node sends a deploy, a call (an upgrade is a call of the upgrade   *)
(* function) or a DiagnoseWait request; it deploys only while its         *)
(* contract account has no code.                                           *)
NodeRequest(req) ==
    /\ node = "idle" /\ calls < MaxCalls
    /\ req.kind = "deploy" => accountCode = NoCode
    /\ Send(toArwen, req)
    /\ sent' = req
    /\ node' = IF broken THEN "done" ELSE "waiting"
    /\ outcome' = IF broken THEN "error" ELSE "none"
    /\ hookErrors' = FALSE
    /\ calls' = calls + 1
    /\ UNCHANGED <<toNode, broken, arwenVars, accountCode>>

(* The node stops Arwen.                                                   *)
NodeStop ==
    /\ node = "idle"
    /\ Send(toArwen, Msg("stop", None, FALSE, TRUE))
    /\ node' = "done"
    /\ UNCHANGED <<toNode, broken, arwenVars, hookErrors, outcome, calls,
                   accountCode, sent>>

(* Mutant of NodeReply: every GetUserAccount request is answered with a   *)
(* GetStorageData response.                                                *)
NodeReplyWrongKind(req, err) ==
    Msg("hookResponse",
        IF req.method = "GetUserAccount" THEN "GetStorageData" ELSE req.method,
        err, TRUE)

(* The replier of a hook request: the response of the same method, with  *)
(* the hook's error for err-returning methods.                             *)
NodeReply(req, err) == Msg("hookResponse", req.method, err, TRUE)

(* Mutant of AppliedCode: the code of any response is installed, whatever *)
(* its return code.                                                        *)
AppliedCodeIgnoringResult(m, code) == IF m.code # NoCode THEN m.code ELSE code

(* The node applies the output of a successful response only (spec 7): its *)
(* code, when it carries one, becomes the account's code.                  *)
AppliedCode(m, code) == IF m.ok /\ m.code # NoCode THEN m.code ELSE code

(* The node reads from Arwen: a hook call is answered through its hook,   *)
(* a response ends the dialogue, and the node applies the output of a     *)
(* successful one (spec 7), with the code it deploys; a receive error     *)
(* ends the dialogue with an error.                                        *)
NodeReceive ==
    /\ node = "waiting"
    /\ \/ /\ broken
          /\ node' = "done" /\ outcome' = "error"
          /\ UNCHANGED <<toArwen, toNode, hookErrors, accountCode>>
       \/ /\ toNode # <<>>
          /\ toNode' = Tail(toNode)
          /\ LET m == Head(toNode) IN
             \/ /\ m.kind = "hookRequest"
                /\ \E err \in IF m.method \in ErrorMethods THEN BOOLEAN ELSE {FALSE} :
                      /\ Send(toArwen, NodeReply(m, err))
                      /\ hookErrors' = (hookErrors \/ err)
                /\ UNCHANGED <<node, outcome, accountCode>>
             \/ /\ m.kind \in {"contractResponse", "diagnoseWaitResponse"}
                /\ node' = "idle"
                /\ outcome' = IF m.ok THEN "ok" ELSE "failed"
                /\ accountCode' = AppliedCode(m, accountCode)
                /\ UNCHANGED <<toArwen, hookErrors>>
    /\ UNCHANGED <<broken, arwenVars, calls, sent>>

ArwenStep == ReceiveNodeRequest \/ HookCall \/ HookReply \/ ContractReturns

Next ==
    \/ ArwenStep
    \/ NodeReceive
    \/ \E req \in Requests \union {DiagnoseWaitRequest} : NodeRequest(req)
    \/ NodeStop
    \/ BreakPipe

(* Arwen's loop and the node's loop are each a process blocked only on a *)
(* pipe read, so each takes its enabled steps; the node need not send a   *)
(* request, and the pipes need not break.                                  *)
Fairness == WF_vars(ArwenStep) /\ WF_vars(NodeReceive)

Spec == Init /\ [][Next]_vars /\ Fairness

(* The node's view of the dialogue: its loop state, the outcome of its    *)
(* latest request, its account's code and the request.  The pipes,        *)
(* Arwen's loop and the hook calls are hidden.                              *)
Abstract == INSTANCE ContractCall
                WITH node <- node, outcome <- outcome,
                     accountCode <- accountCode, sent <- sent

-----------------------------------------------------------------------------
(* The dialogue is in lockstep: at most one message is in the pipes, and  *)
(* the reply Arwen's gateway reads is the response of the method it       *)
(* called, so ErrBadHookResponseFromNode never arises from a sound node.   *)
Lockstep ==
    /\ Len(toArwen) + Len(toNode) <= 1
    /\ (arwen = "waitingHook" /\ toArwen # <<>>) =>
           /\ Head(toArwen).kind = "hookResponse"
           /\ Head(toArwen).method = Method[pending]

(* A contract response the node accepts as successful was computed only  *)
(* from hook answers the node gave: when the node answered a hook call of *)
(* the dialogue with an error, the call does not come back Ok.            *)
NodeAcceptsOnlyAuthoritative == outcome = "ok" => ~hookErrors

(* After a deploy or an upgrade the node took as successful, its account  *)
(* holds the code that request carried: the deploy input's code, or the   *)
(* first argument of the call of the upgrade function (spec 4.6, 4.8).    *)
(* About RunSmartContractCall routing on the function name before any    *)
(* lookup of the account's exports, and ExtractCodeUpgradeFromArgs.      *)
SuccessfulDeployInstallsItsCode ==
    outcome = "ok" =>
        CASE sent.kind = "deploy" -> accountCode = sent.code
          [] sent.kind = "call" /\ sent.function = UpgradeFunctionName ->
                accountCode = sent.args[1]
          [] OTHER -> TRUE
(* Seen from the node, Arwen behind the pipes is a VM host called         *)
(* in-process: every request is answered once, as RunSmartContractCreate   *)
(* or RunSmartContractCall answers it on the account's code at the time of *)
(* the request (a failure changes nothing; a successful deploy or upgrade  *)
(* installs the dispatched code), or the dialogue ends with an error, and  *)
(* a request being served is eventually answered or lost.  About doLoop,   *)
(* the gateway's hook calls in the middle of a request, the contract       *)
(* response carrying the output, and the node applying only a successful   *)
(* one.                                                                    *)
ImplementsContractCall == Abstract!Spec
=============================================================================
