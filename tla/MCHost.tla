------------------------------- MODULE MCHost -------------------------------
(* Host instantiated for TLC: two contracts, one ordinary and one         *)
(* protected key, the empty value and one non-empty value.                *)
EXTENDS Host, TLC

CONSTANTS a1, a2, k1, kp

MCAddresses == {a1, a2}
MCKeys == {k1, kp}
MCProtectedKeys == {kp}
MCVals == {<<>>, <<1>>}

Symmetry == Permutations(MCAddresses)
=============================================================================
