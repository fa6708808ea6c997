------------------------ MODULE MCBlockchainContext ------------------------
(* Three accounts (symmetric), nonces 0 and 2, balances 0 and 2, transfers *)
(* of 1 and 2, three EI calls per top-level call.                          *)
EXTENDS BlockchainContext, TLC

CONSTANTS a1, a2, a3

MCAddresses == {a1, a2, a3}
Symmetry == Permutations(MCAddresses)
=============================================================================
