-------------------------- MODULE MCStorageContext --------------------------
EXTENDS StorageContext

CONSTANTS k1, k2, kp

MCKeys == {k1, k2, kp}
MCProtectedKeys == {kp}
(* Values of length 0, 1 and 2, two of them of equal length: every class  *)
(* of the gas table and an equal-length modification are reachable.       *)
MCVals == {<<>>, <<1>>, <<2>>, <<1, 1>>}
=============================================================================
