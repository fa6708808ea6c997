-------------------------- MODULE BlockchainContext --------------------------
(***************************************************************************)
(* The blockchain context of arwen/contexts/blockchain.go over the output  *)
(* accounts of the output context, driven by the EI functions that reach  *)
(* it: transferValue, getExternalBalance, createContract, and the storage *)
(* functions, whose storage context materializes the output account of    *)
(* the address it reads (storageContext.GetStorageUpdates).                *)
(*                                                                         *)
(* An output account is created lazily, with nonce 0, no balance snapshot *)
(* and a zero balance delta; the blockchain context fills the snapshot or *)
(* the nonce only when it is the one that created the account.  The hook  *)
(* is the node's state, unchanged during a call.                           *)
(***************************************************************************)
EXTENDS Integers, FiniteSets

CONSTANTS
    Addresses,      \* accounts a contract may name
    Nil,            \* no account in the hook / no balance snapshot
    Absent,         \* no output account materialized yet
    Nonces,         \* nonces the hook may hold
    Balances,       \* balances the hook may hold
    Values,         \* values a contract transfers
    MaxOps          \* EI calls checked in one top-level call

VARIABLES
    hook,       \* GetUserAccount: address -> [nonce, balance] or Nil
    out,        \* output accounts: address -> [nonce, balance, delta] or Absent
    phase,      \* "running", or "failed" after WithFault(err, true)
    incs,       \* IncreaseNonce calls per address in this call (history)
    last,       \* the latest observable result, with what it should have been
    ops         \* EI calls made in this call

vars == <<hook, out, phase, incs, last, ops>>

HookAccounts == [nonce : Nonces, balance : Balances] \union {Nil}

(* The derived address of hook.NewAddress(creator, nonce): a new account   *)
(* per pair, outside Addresses.                                            *)
Derived(creator, nonce) == <<creator, nonce>>

-----------------------------------------------------------------------------
(* outputContext.GetOutputAccount: the account, created empty if absent,  *)
(* and whether it was new.                                                 *)
GetOutputAccount(o, a) ==
    IF o[a] = Absent
    THEN [out |-> [o EXCEPT ![a] = [nonce |-> 0, balance |-> Nil, delta |-> 0]],
          isNew |-> TRUE]
    ELSE [out |-> o, isNew |-> FALSE]

(* storageContext.GetStorageUpdates: every storage read or write of an    *)
(* address goes through its output account.                                *)
GetStorageUpdates(o, a) == GetOutputAccount(o, a).out

(* blockchainContext.GetNonce: the output account's nonce if it was there *)
(* already; otherwise the hook's, cached in the new output account (0 if  *)
(* the hook has no such account).                                          *)
GetNonce(o, h, a) ==
    LET g == GetOutputAccount(o, a) IN
    CASE ~g.isNew -> [nonce |-> g.out[a].nonce, out |-> g.out]
      [] h[a] = Nil -> [nonce |-> 0, out |-> g.out]
      [] OTHER -> [nonce |-> h[a].nonce, out |-> [g.out EXCEPT ![a].nonce = h[a].nonce]]

(* blockchainContext.NewAddress: the creator's nonce less one (unless 0)  *)
(* is passed to the hook.                                                  *)
NewAddress(o, h, creator) ==
    LET g == GetNonce(o, h, creator)
        n == IF g.nonce > 0 THEN g.nonce - 1 ELSE 0
    IN [nonce |-> n, address |-> Derived(creator, n), out |-> g.out]

(* blockchainContext.IncreaseNonce: GetNonce, plus one, into the output   *)
(* account.                                                                *)
IncreaseNonce(o, h, a) ==
    LET g == GetNonce(o, h, a) IN [g.out EXCEPT ![a].nonce = g.nonce + 1]

(* Mutant of GetBalanceBigInt: a cached snapshot is returned without the  *)
(* balance delta.                                                          *)
GetBalanceWithoutDelta(o, h, a) ==
    LET g   == GetOutputAccount(o, a)
        acc == g.out[a]
    IN
    CASE ~g.isNew /\ acc.balance # Nil -> [balance |-> acc.balance, out |-> g.out]
      [] h[a] = Nil -> [balance |-> 0, out |-> g.out]
      [] ~g.isNew -> [balance |-> h[a].balance,
                      out |-> [g.out EXCEPT ![a].balance = h[a].balance]]
      [] OTHER -> [balance |-> h[a].balance,
                   out |-> [g.out EXCEPT ![a].balance = h[a].balance]]

(* Mutant of GetBalanceBigInt: the snapshot read for an account already  *)
(* in the output caches the balance with its delta.                        *)
GetBalanceCachingProjected(o, h, a) ==
    LET g   == GetOutputAccount(o, a)
        acc == g.out[a]
    IN
    CASE ~g.isNew /\ acc.balance # Nil -> [balance |-> acc.balance + acc.delta, out |-> g.out]
      [] h[a] = Nil -> [balance |-> 0, out |-> g.out]
      [] ~g.isNew -> [balance |-> h[a].balance + acc.delta,
                      out |-> [g.out EXCEPT ![a].balance = h[a].balance + acc.delta]]
      [] OTHER -> [balance |-> h[a].balance,
                   out |-> [g.out EXCEPT ![a].balance = h[a].balance]]

(* blockchainContext.GetBalanceBigInt: for an account already in the      *)
(* output, its snapshot (read from the hook if missing) plus its delta;   *)
(* for a new one, the hook's balance, cached.  No hook account reads 0.    *)
GetBalanceBigInt(o, h, a) ==
    LET g   == GetOutputAccount(o, a)
        acc == g.out[a]
    IN
    CASE ~g.isNew /\ acc.balance # Nil -> [balance |-> acc.balance + acc.delta, out |-> g.out]
      [] h[a] = Nil -> [balance |-> 0, out |-> g.out]
      [] ~g.isNew -> [balance |-> h[a].balance + acc.delta,
                      out |-> [g.out EXCEPT ![a].balance = h[a].balance]]
      [] OTHER -> [balance |-> h[a].balance,
                   out |-> [g.out EXCEPT ![a].balance = h[a].balance]]

(* outputContext.Transfer: refused when the sender's balance, as the      *)
(* blockchain context sees it, is below the value; otherwise the value    *)
(* moves from the sender's delta to the destination's.                     *)
Transfer(o, h, dest, sender, value) ==
    LET b  == GetBalanceBigInt(o, h, sender)
        o1 == GetOutputAccount(b.out, dest).out
        o2 == [o1 EXCEPT ![sender].delta = @ - value]
    IN
    IF b.balance < value
    THEN [err |-> TRUE, out |-> b.out]
    ELSE [err |-> FALSE, out |-> [o2 EXCEPT ![dest].delta = @ + value]]

(* The nonce the account really has: the hook's, plus the increases       *)
(* staged in this call; and the balance: the hook's plus the delta.        *)
TrueNonce(a) == (IF hook[a] = Nil THEN 0 ELSE hook[a].nonce) + incs[a]
ProjectedBalance(a) ==
    (IF hook[a] = Nil THEN 0 ELSE hook[a].balance) + (IF out[a] = Absent THEN 0 ELSE out[a].delta)

-----------------------------------------------------------------------------
Init ==
    /\ hook \in [Addresses -> HookAccounts]
    /\ out = [a \in Addresses |-> Absent]
    /\ phase = "running"
    /\ incs = [a \in Addresses |-> 0]
    /\ last = [kind |-> "none"]
    /\ ops = 0

(* An EI call by the running contract sc, which exists in the hook.        *)
CanCall(sc) ==
    /\ phase = "running"
    /\ ops < MaxOps
    /\ hook[sc] # Nil

(* A memory argument out of bounds: WithFault(err, true) fails execution. *)
Fault ==
    /\ phase' = "failed"

(* storageLoad / storageStore: the storage context reads the staged       *)
(* updates of the address it points at (the running contract, or another *)
(* one after a nested call moved it), materializing its output account.   *)
StorageAccess(sc, a) ==
    /\ CanCall(sc)
    /\ out' = GetStorageUpdates(out, a)
    /\ ops' = ops + 1
    /\ UNCHANGED <<hook, phase, incs, last>>

(* getExternalBalance: load the address, GetBalance, store the result.   *)
GetExternalBalance(sc, a) ==
    LET r == GetBalanceBigInt(out, hook, a) IN
    /\ CanCall(sc)
    /\ ops' = ops + 1
    /\ \/ Fault /\ UNCHANGED <<out, last>>
       \/ out' = r.out /\ Fault /\ UNCHANGED last
       \/ /\ out' = r.out
          /\ last' = [kind |-> "balance", addr |-> a, value |-> r.balance]
          /\ UNCHANGED phase
    /\ UNCHANGED <<hook, incs>>

(* transferValue: load destination, value and data, charge gas, then     *)
(* output.Transfer from the running contract; a refused transfer returns  *)
(* 1 and the contract goes on.                                             *)
TransferValue(sc, dest, value) ==
    /\ CanCall(sc)
    /\ ops' = ops + 1
    /\ \/ Fault /\ UNCHANGED out
       \/ out' = Transfer(out, hook, dest, sc, value).out /\ UNCHANGED phase
    /\ UNCHANGED <<hook, incs, last>>

(* createContract: load value, code and arguments, charge gas, then      *)
(* host.CreateNewContract, which derives the address with NewAddress and  *)
(* increases the creator's nonce; the address is stored to memory.        *)
CreateContract(sc) ==
    LET na == NewAddress(out, hook, sc)
        o1 == IncreaseNonce(na.out, hook, sc)
    IN
    /\ CanCall(sc)
    /\ ops' = ops + 1
    /\ \/ Fault /\ UNCHANGED <<out, incs, last>>
       \/ /\ out' = o1
          /\ incs' = [incs EXCEPT ![sc] = @ + 1]
          /\ last' = [kind |-> "create", creator |-> sc, nonce |-> na.nonce,
                      expected |-> IF TrueNonce(sc) > 0 THEN TrueNonce(sc) - 1 ELSE 0]
          /\ (Fault \/ UNCHANGED phase)
    /\ UNCHANGED hook

(* The call ends and the next begins: InitState empties the output; the   *)
(* node may have moved on to any state.                                    *)
NewCall ==
    /\ hook' \in [Addresses -> HookAccounts]
    /\ out' = [a \in Addresses |-> Absent]
    /\ phase' = "running"
    /\ incs' = [a \in Addresses |-> 0]
    /\ last' = [kind |-> "none"]
    /\ ops' = 0

Next ==
    \/ NewCall
    \/ \E sc \in Addresses :
          \/ CreateContract(sc)
          \/ \E a \in Addresses : StorageAccess(sc, a) \/ GetExternalBalance(sc, a)
          \/ \E dest \in Addresses, v \in Values : TransferValue(sc, dest, v)

Spec == Init /\ [][Next]_vars

-----------------------------------------------------------------------------
OutputAccounts == [nonce : Nat, balance : Balances \union {Nil}, delta : Int] \union {Absent}

TypeOK ==
    /\ hook \in [Addresses -> HookAccounts]
    /\ out \in [Addresses -> OutputAccounts]
    /\ phase \in {"running", "failed"}
    /\ incs \in [Addresses -> Nat]
    /\ last.kind \in {"none", "balance", "create"}
    /\ ops \in 0..MaxOps

(* No account is ever overdrawn: after any sequence of transferValue,     *)
(* getExternalBalance, storage and createContract calls by any contracts, *)
(* the hook's balance of every account plus its staged delta is not       *)
(* negative.  Transfer checks the sender through GetBalanceBigInt, whose  *)
(* cached snapshot must still be combined with every earlier delta.        *)
NoOverdraft == \A a \in Addresses : ProjectedBalance(a) >= 0

(* createContract derives the new address from the creator's nonce less   *)
(* one (specification 4.2 and 8.10): the hook's nonce plus the increases   *)
(* of this call.  The code takes the nonce of the creator's output         *)
(* account if one exists, even when the storage context created it with   *)
(* nonce 0 and nothing ever read the nonce into it.                        *)
NewAddressGetsCreatorNonce ==
    last.kind = "create" => last.nonce = last.expected
=============================================================================
