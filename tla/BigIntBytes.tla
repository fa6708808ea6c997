---------------------------- MODULE BigIntBytes -----------------------------
(***************************************************************************)
(* The integer <-> byte-string conversions the EI functions apply to      *)
(* int64 values (arwen/kalyan3104api/kalyan3104ei.go): math/big's         *)
(* unsigned big-endian SetBytes and Bytes, Int64 and IsInt64, and the      *)
(* two's-complement SetBytes and ToBytes of the twos-complement package.   *)
(* Widths are scaled down: a byte has Base values and an int64 has         *)
(* Int64Bits bits, a whole number of bytes.                                *)
(***************************************************************************)
EXTENDS Integers, Sequences, SequencesExt

CONSTANTS
    Base,        \* values of one byte (256 in the code)
    Int64Bits    \* bits of an int64 (64 in the code)

Int64Min == -(2^(Int64Bits - 1))
Int64Max == 2^(Int64Bits - 1) - 1
Int64Range == Int64Min..Int64Max

(* big.Int.SetBytes: the bytes as an unsigned big-endian number.           *)
UnsignedValue(b) == FoldLeft(LAMBDA acc, x : acc * Base + x, 0, b)

(* The n-byte big-endian representation of 0 <= u < Base^n.                *)
FixedBytes(u, n) == [i \in 1..n |-> (u \div Base^(n - i)) % Base]

(* The fewest bytes holding the magnitude of x; none for zero.             *)
MagnitudeLen(x) ==
    CHOOSE n \in 0..(Int64Bits + 1) : Base^n > x /\ (n = 0 \/ Base^(n - 1) <= x)

(* big.Int.Bytes: the absolute value, big-endian, no leading zero bytes.   *)
BigBytes(x) ==
    LET m == IF x < 0 THEN -x ELSE x IN FixedBytes(m, MagnitudeLen(m))

(* big.Int.Int64 of a non-negative number: its low 64 bits read as an     *)
(* int64, so a value of 2^63 or more wraps round to a negative one.        *)
BigInt64(u) == ((u + 2^(Int64Bits - 1)) % 2^Int64Bits) - 2^(Int64Bits - 1)

(* Mutant of TwosSetBytes: the bytes read as unsigned, as big.Int.SetBytes.*)
TwosSetBytesUnsigned(b) == UnsignedValue(b)

(* twos.SetBytes: the bytes as a big-endian two's-complement number; the  *)
(* top bit of the first byte is the sign, and no bytes is zero.            *)
TwosSetBytes(b) ==
    IF b = <<>> THEN 0
    ELSE UnsignedValue(b) - (IF b[1] >= Base \div 2 THEN Base^Len(b) ELSE 0)

(* big.Int.IsInt64                                                         *)
IsInt64(x) == x \in Int64Range

(* The fewest bytes of a two's-complement form of x, at least one.         *)
TwosLen(x) ==
    CHOOSE n \in 1..(Int64Bits + 1) :
        /\ -(Base^n \div 2) <= x /\ x < Base^n \div 2
        /\ (n = 1 \/ ~(-(Base^(n - 1) \div 2) <= x /\ x < Base^(n - 1) \div 2))

(* Mutant of TwosToBytes: big.Int.Bytes, as int64storageStore encodes.   *)
TwosToBytesMagnitude(x) == BigBytes(x)

(* twos.ToBytes: the minimal two's-complement form of x, big-endian; zero *)
(* is the single byte 0.                                                   *)
TwosToBytes(x) ==
    FixedBytes(IF x < 0 THEN x + Base^TwosLen(x) ELSE x, TwosLen(x))

(* Reference: the number a byte string denotes in two's complement is the *)
(* one in the range of its width that is congruent to it as an unsigned   *)
(* number modulo Base^width.                                               *)
SpecTwosValue(b) ==
    IF b = <<>> THEN 0
    ELSE CHOOSE v \in (-(Base^Len(b) \div 2))..(Base^Len(b) \div 2 - 1) :
            (v - UnsignedValue(b)) % Base^Len(b) = 0
=============================================================================
