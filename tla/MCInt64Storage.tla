---------------------------- MODULE MCInt64Storage ----------------------------
EXTENDS Int64Storage

CONSTANTS k1, kp

MCUserKeys == {k1, kp}
MCInt64Values == {-3, 2, 7}
MCLockTimes == {-3, 3}
(* A word of three bytes is past int64: it loads back wrapped.             *)
MCRawData == {<<>>, <<3, 3, 3>>}
=============================================================================
