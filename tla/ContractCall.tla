---------------------------- MODULE ContractCall -----------------------------
(***************************************************************************)
(* What the node gets from a VM behind the IPC pipes (spec 5, 6): the same *)
(* as from a VM host called in-process.  Each request the node makes is   *)
(* answered once, and the answer is that of RunSmartContractCreate or      *)
(* RunSmartContractCall taken atomically on the account's code at the time *)
(* of the request: a failure leaves the account as it was, a success of a  *)
(* deploy or an upgrade installs the code the dispatch starts.  A request  *)
(* may fail for any reason the contract's execution has, and the process   *)
(* may be lost, which ends the dialogue with an error.                     *)
(***************************************************************************)
EXTENDS Dispatch

CONSTANTS
    Requests,             \* the deploy and call inputs the node may send
    DiagnoseWaitRequest   \* the DiagnoseWait request

VARIABLES
    node,         \* "idle", "waiting" (a request is being served) or "done"
    outcome,      \* "none", "ok", "failed" or "error"
    accountCode,  \* the code of the node's contract account
    sent          \* the latest request

vars == <<node, outcome, accountCode, sent>>

Init ==
    /\ node = "idle" /\ outcome = "none"
    /\ accountCode = NoCode /\ sent = [kind |-> "none"]

(* The node makes a request; it deploys only to an account without code.  *)
(* A request on a lost VM ends at once with an error.                      *)
Request(req) ==
    /\ node = "idle"
    /\ req.kind = "deploy" => accountCode = NoCode
    /\ sent' = req
    /\ \/ node' = "waiting" /\ outcome' = "none"
       \/ node' = "done" /\ outcome' = "error"
    /\ UNCHANGED accountCode

(* The VM answers the request in one step, as the dispatch prescribes.     *)
Respond ==
    LET d == Dispatch(sent, accountCode) IN
    /\ node = "waiting"
    /\ node' = "idle"
    /\ IF sent = DiagnoseWaitRequest
       THEN outcome' = "ok" /\ UNCHANGED accountCode
       ELSE \/ outcome' = "failed" /\ UNCHANGED accountCode
            \/ /\ ~d.failed
               /\ outcome' = "ok"
               /\ accountCode' = IF d.install = NoCode THEN accountCode ELSE d.install
    /\ UNCHANGED sent

(* The VM is lost while it serves the request.                             *)
Lose ==
    /\ node = "waiting"
    /\ node' = "done" /\ outcome' = "error"
    /\ UNCHANGED <<accountCode, sent>>

(* The node stops the VM.                                                  *)
Stop ==
    /\ node = "idle"
    /\ node' = "done"
    /\ UNCHANGED <<outcome, accountCode, sent>>

Next ==
    \/ \E req \in Requests \union {DiagnoseWaitRequest} : Request(req)
    \/ Respond
    \/ Lose
    \/ Stop

(* A request being served is answered or lost.                             *)
Spec == Init /\ [][Next]_vars /\ WF_vars(Respond \/ Lose)
=============================================================================
