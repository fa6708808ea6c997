--------------------- MODULE MCEICallState ----------------------------------
EXTENDS EICallState

(* Argument lists: none; the most negative int64 before a small one; an   *)
(* argument too wide for an int64; a sign-extended -1.  Ids -1 and 2 are  *)
(* out of range of every list.                                             *)
MCArgLists == {<<>>, <<<<2, 0>>, <<1>>>>, <<<<0, 3, 1>>>>, <<<<3, 3, 3>>>>}
MCFunctions == {<<1>>, <<2, 3>>}
MCIds == {-1, 0, 2}
MCInt64Values == {-8, -1, 2}
MCFinishData == {<<2, 0>>}
MCAsyncIds == {<<1>>, <<2>>}
MCDestinations == {<<1>>, <<2>>}
MCCallbacks == {<<3>>}
=============================================================================
