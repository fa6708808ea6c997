--------------------------- MODULE ContractStorage ---------------------------
(***************************************************************************)
(* What the storage of one smart contract promises to the contract that   *)
(* runs against it: a key-value map in which a read returns the value of  *)
(* the latest accepted write (or the blockchain's value when there was    *)
(* none), writes to protocol-protected keys are refused, and nothing is   *)
(* written while the runtime is in read-only mode.                        *)
(***************************************************************************)
CONSTANTS
    Keys,           \* storage keys
    ProtectedKeys,  \* keys under the protocol's reserved prefix
    Vals            \* storage values (byte strings)

VARIABLES
    store,          \* the value every key currently has
    lastRead,       \* the value the latest read returned
    readOnly        \* the runtime's read-only flag

Read(k) ==
    /\ lastRead' = store[k]
    /\ UNCHANGED <<store, readOnly>>

Write(k, v) ==
    /\ k \notin ProtectedKeys
    /\ ~readOnly
    /\ store' = [store EXCEPT ![k] = v]
    /\ UNCHANGED <<lastRead, readOnly>>

RefusedWrite(k) ==
    /\ k \in ProtectedKeys \/ readOnly
    /\ UNCHANGED <<store, lastRead, readOnly>>

SetReadOnly(b) ==
    /\ readOnly' = b
    /\ UNCHANGED <<store, lastRead>>

Next ==
    \E k \in Keys :
        \/ Read(k)
        \/ RefusedWrite(k)
        \/ \E v \in Vals : Write(k, v)
    \/ \E b \in BOOLEAN : SetReadOnly(b)

Init ==
    /\ store \in [Keys -> Vals]
    /\ lastRead \in Vals
    /\ readOnly = FALSE

Spec == Init /\ [][Next]_<<store, lastRead, readOnly>>
=============================================================================
