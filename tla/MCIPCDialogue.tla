--------------------------- MODULE MCIPCDialogue -----------------------------
EXTENDS IPCDialogue

(* Contracts that make no hook call; read storage; read code (whose error *)
(* fails the execution); read the timestamp then a balance (a zero-value  *)
(* method, then an err-returning one).                                     *)
MCScripts == {<<>>, <<"storage">>, <<"code">>, <<"timestamp", "balance">>}

(* Codes: with init and "inc"; with the Ethereum-style init and "main";   *)
(* with "main" and no init; exporting the upgrade function; with a bad    *)
(* memory declaration.                                                     *)
cInc == Code({"init", "inc"}, TRUE)
cEth == Code({"solidity.ctor", "main"}, TRUE)
cMain == Code({"main"}, TRUE)
cUpg == Code({"init", "upgradeContract"}, TRUE)
cNoMem == Code({"init"}, FALSE)

Deploy(c) == [kind |-> "deploy", code |-> c, function |-> "", args |-> <<>>]
Call(f, args) == [kind |-> "call", code |-> NoCode, function |-> f, args |-> args]

(* Deploys of two sound codes (with and without init) and of two        *)
(* refused ones; calls of an exported and of a missing function;          *)
(* upgrades to two codes (with metadata that is no module) and one with   *)
(* too few arguments.                                                      *)
MCRequests ==
    { Deploy(cInc), Deploy(cMain), Deploy(cUpg), Deploy(cNoMem),
      Call("inc", <<>>), Call("get", <<>>),
      Call("upgradeContract", <<cEth, Junk>>), Call("upgradeContract", <<cMain, Junk>>),
      Call("upgradeContract", <<cInc>>) }
=============================================================================
