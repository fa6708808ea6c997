------------------------------ MODULE MCMemory ------------------------------
(* Memory with int32 scaled to 8 bits (a byte to 2 bits), pages of four   *)
(* bytes and at most three pages.  The initial memories hold argument      *)
(* length fields of 1, 127 (int32 max) and -128 (int32 min); the inputs    *)
(* include int32 min and max, -1, 0 and the offsets around a page end;     *)
(* numArguments includes 32, 64 and 65, whose products by four overflow    *)
(* to -128, 0 and 4 as 2^29, 2^30 and 2^30 + 1 do with 32 bits.            *)
EXTENDS Memory

MCInitMemories ==
    { <<1, 0, 0, 0>>, <<0, 0, 0, 2>>, <<3, 3, 3, 1>>,
      <<1, 0, 0, 0, 1, 0, 0, 0>>, <<2, 0, 0, 0, 3, 1, 0, 0>> }
MCOffsets == {-128, -1, 0, 1, 4, 5, 127}
MCLengths == {-1, 0, 1, 4, 127}
MCStoreData == {<<3>>, <<1, 2, 3, 1, 2>>}
MCNumArgs == {-1, 0, 1, 2, 32, 64, 65}
MCArgOffsets == {-1, 0, 4, 5}
(* Topic counts around the memory's end: four topics of four bytes reach *)
(* offset 12, and with a length of 127 the int32 sum wraps.               *)
MCNumTopics == {-1, 0, 1, 2, 4}
=============================================================================
