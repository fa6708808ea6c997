------------------------------- MODULE Memory -------------------------------
(***************************************************************************)
(* The WASM linear memory as the runtime context reads and writes it      *)
(* (arwen/contexts/runtime.go MemLoad, MemStore) and the unpacking of the  *)
(* arguments of a nested call from memory (getArgumentsFromMemory and     *)
(* bytesToInt32 in kalyan3104ei.go).                                       *)
(*                                                                         *)
(* Go's int32 and uint32 are kept with their wrap-around but scaled down  *)
(* to W bits, and a byte to W \div 4 bits, so that an argument length is  *)
(* still four little-endian bytes making one int32 and numArguments * 4    *)
(* still overflows where it does with 32 bits.  A page is PageSize bytes.  *)
(* Every step is one call by the contract with inputs chosen from small    *)
(* sets that include the extremes of int32.                                *)
(***************************************************************************)
EXTENDS Integers, Sequences, SequencesExt

CONSTANTS
    W,              \* bits of an int32
    PageSize,       \* bytes of a WASM page
    MaxPages,       \* memory.Grow fails beyond this many pages
    InitMemories,   \* the memories an instance may start a call with
    Offsets,        \* int32 offsets a contract passes
    Lengths,        \* int32 lengths a contract passes
    StoreData,      \* byte strings a contract stores
    NumArgs,        \* int32 numArguments values a contract passes
    ArgOffsets,     \* int32 offsets of the packed nested-call arguments
    MaxStores,      \* stores checked from one initial memory
    HashLen,        \* arwen.HashLen: bytes of one log topic
    NumTopics,      \* int32 numTopics values a contract passes to writeLog
    LogCost,        \* GasSchedule().Kalyan3104APICost.Log
    PersistPerByte  \* GasSchedule().BaseOperationCost.PersistPerByte

ASSUME W \in {4, 8, 12, 16} /\ PageSize \in Nat \ {0} /\ MaxPages \in Nat \ {0}

Base == 2^(W \div 4)            \* values of one byte
Bytes == 0..(Base - 1)
IntMin == -(2^(W - 1))
IntMax == 2^(W - 1) - 1

(* Two's-complement wrap of an int32 result, and the uint32 conversion.    *)
Int32(x) == ((x - IntMin) % (2^W)) + IntMin
Uint32(x) == x % (2^W)
(* uint64 of an int32 sign-extends; a uint64 is kept as 2W bits.         *)
Uint64(x) == x % (2^(2 * W))

VARIABLES
    memory,     \* memory.Data(): a sequence of bytes, whole pages long
    last,       \* the latest call: its kind, inputs, the memory it saw, its result
    stores      \* stores made so far by this instance

vars == <<memory, last, stores>>

Zeros(n) == [i \in 1..n |-> 0]

-----------------------------------------------------------------------------
(* Mutant of MemLoad: the copied range stops one byte short.              *)
MemLoadShortCopy(mem, offset, length) ==
    LET memLen       == Len(mem)
        requestedEnd == Uint32(offset + length)
        end          == IF requestedEnd > memLen THEN memLen ELSE requestedEnd
    IN
    CASE length = 0 -> [err |-> "none", data |-> <<>>]
      [] offset < 0 \/ Uint32(offset) > memLen -> [err |-> "BadBounds", data |-> <<>>]
      [] length < 0 -> [err |-> "NegativeLength", data |-> <<>>]
      [] OTHER -> [err |-> "none",
                   data |-> [i \in 1..length |-> IF offset + i < end THEN mem[offset + i] ELSE 0]]

(* runtimeContext.MemLoad.  A zero length returns at once; otherwise the   *)
(* offset is checked, then the sign of the length, and the result is      *)
(* length bytes: the memory from offset, zero-padded past its end.         *)
MemLoad(mem, offset, length) ==
    LET memLen       == Len(mem)
        requestedEnd == Uint32(offset + length)
        end          == IF requestedEnd > memLen THEN memLen ELSE requestedEnd
    IN
    CASE length = 0 -> [err |-> "none", data |-> <<>>]
      [] offset < 0 \/ Uint32(offset) > memLen -> [err |-> "BadBounds", data |-> <<>>]
      [] length < 0 -> [err |-> "NegativeLength", data |-> <<>>]
      [] OTHER -> [err |-> "none",
                   data |-> [i \in 1..length |-> IF offset + i <= end THEN mem[offset + i] ELSE 0]]

(* Mutant of MemStore: a store past the end grows two pages at once.       *)
MemStoreGrowTwo(mem, offset, data) ==
    LET dataLength   == Len(data)
        requestedEnd == Uint32(offset + dataLength)
        grown        == IF requestedEnd > Len(mem) THEN mem \o Zeros(2 * PageSize) ELSE mem
    IN
    CASE dataLength = 0 -> [err |-> "none", mem |-> mem]
      [] offset < 0 -> [err |-> "BadLowerBounds", mem |-> mem]
      [] requestedEnd > Len(mem) /\ Len(mem) + PageSize > MaxPages * PageSize ->
            [err |-> "GrowFailed", mem |-> mem]
      [] requestedEnd > Len(grown) -> [err |-> "BadUpperBounds", mem |-> grown]
      [] OTHER -> [err |-> "none",
                   mem |-> [i \in 1..Len(grown) |->
                              IF offset < i /\ i <= requestedEnd
                              THEN data[i - offset] ELSE grown[i]]]

(* runtimeContext.MemStore.  An empty store does nothing; a negative       *)
(* offset fails; a store past the end grows the memory by one page (which *)
(* stays grown) and fails BadUpperBounds if that is still not enough.      *)
MemStore(mem, offset, data) ==
    LET dataLength   == Len(data)
        requestedEnd == Uint32(offset + dataLength)
        grown        == IF requestedEnd > Len(mem) THEN mem \o Zeros(PageSize) ELSE mem
    IN
    CASE dataLength = 0 -> [err |-> "none", mem |-> mem]
      [] offset < 0 -> [err |-> "BadLowerBounds", mem |-> mem]
      [] requestedEnd > Len(mem) /\ Len(mem) + PageSize > MaxPages * PageSize ->
            [err |-> "GrowFailed", mem |-> mem]
      [] requestedEnd > Len(grown) -> [err |-> "BadUpperBounds", mem |-> grown]
      [] OTHER -> [err |-> "none",
                   mem |-> [i \in 1..Len(grown) |->
                              IF offset < i /\ i <= requestedEnd
                              THEN data[i - offset] ELSE grown[i]]]

(* Mutant of bytesToInt32: the length bytes read big-endian.               *)
BytesToInt32BigEndian(data) ==
    FoldLeft(LAMBDA acc, b : Int32(Int32(acc * Base) + b), 0, data)

(* bytesToInt32: from the last byte to the first, shift left one byte and  *)
(* add, in int32.                                                          *)
BytesToInt32(data) ==
    FoldRight(LAMBDA b, acc : Int32(Int32(acc * Base) + b), data, 0)

(* GuardedMakeByteSlice2D refuses a negative count.                        *)
GuardedMakeByteSlice2D(n) == n >= 0

(* The loop of getArgumentsFromMemory from argument i on: slice the i-th   *)
(* four length bytes (indices in int32; an index out of the slice is a Go  *)
(* panic), decode the length, MemLoad the argument at currOffset and move  *)
(* currOffset on by it (in int32).                                         *)
RECURSIVE ReadArguments(_, _, _, _, _)
ReadArguments(mem, lengthData, i, numArguments, currOffset) ==
    IF i >= numArguments
    THEN [outcome |-> "ok", args |-> <<>>, curr |-> currOffset]
    ELSE LET lo == Int32(i * 4)
             hi == Int32(lo + 4)
         IN
         IF lo < 0 \/ hi < lo \/ hi > Len(lengthData)
         THEN [outcome |-> "panic", args |-> <<>>, curr |-> currOffset]
         ELSE LET actualLen == BytesToInt32(SubSeq(lengthData, lo + 1, hi))
                  arg       == MemLoad(mem, currOffset, actualLen)
                  rest      == ReadArguments(mem, lengthData, i + 1, numArguments,
                                             Int32(currOffset + actualLen))
              IN
              IF arg.err # "none"
              THEN [outcome |-> "err", args |-> <<>>, curr |-> currOffset]
              ELSE [rest EXCEPT !.args = <<arg.data>> \o @]

(* getArgumentsFromMemory: the function name, then numArguments * 4        *)
(* length bytes (the product in int32), then the slice of arguments, then  *)
(* the loop; the result is the name, the arguments and the bytes read.     *)
GetArgumentsFromMemory(mem, fOff, fLen, numArguments, lOff, dataOffset) ==
    LET function   == MemLoad(mem, fOff, fLen)
        lengthData == MemLoad(mem, lOff, Int32(numArguments * 4))
        loop       == ReadArguments(mem, lengthData.data, 0, numArguments, dataOffset)
        Failed     == [outcome |-> "err", function |-> <<>>, args |-> <<>>, actualLen |-> 0]
    IN
    CASE function.err # "none" -> Failed
      [] lengthData.err # "none" -> Failed
      [] ~GuardedMakeByteSlice2D(numArguments) -> Failed
      [] loop.outcome = "err" -> Failed
      [] OTHER -> [outcome |-> loop.outcome, function |-> function.data,
                   args |-> loop.args, actualLen |-> Int32(loop.curr - dataOffset)]

(* Mutant of LoadTopics: the i-th topic read at topicPtr + i, without the  *)
(* HashLen stride.                                                         *)
RECURSIVE LoadTopicsNoStride(_, _, _, _)
LoadTopicsNoStride(mem, topicPtr, i, numTopics) ==
    IF i >= numTopics THEN [err |-> "none", topics |-> <<>>]
    ELSE LET t    == MemLoad(mem, Int32(topicPtr + i), HashLen)
             rest == LoadTopicsNoStride(mem, topicPtr, i + 1, numTopics)
         IN IF t.err # "none" THEN [err |-> t.err, topics |-> <<>>]
            ELSE [rest EXCEPT !.topics = <<t.data>> \o @]

(* The loop of writeLog from topic i on: MemLoad HashLen bytes at          *)
(* topicPtr + i * HashLen (in int32); the first error ends the function.   *)
RECURSIVE LoadTopics(_, _, _, _)
LoadTopics(mem, topicPtr, i, numTopics) ==
    IF i >= numTopics THEN [err |-> "none", topics |-> <<>>]
    ELSE LET t    == MemLoad(mem, Int32(topicPtr + Int32(i * HashLen)), HashLen)
             rest == LoadTopics(mem, topicPtr, i + 1, numTopics)
         IN IF t.err # "none" THEN [err |-> t.err, topics |-> <<>>]
            ELSE [rest EXCEPT !.topics = <<t.data>> \o @]

(* Mutant of WriteLogGas: only the log data is charged per byte.          *)
WriteLogGasDataOnly(numTopics, length) ==
    Uint64(LogCost + PersistPerByte * Uint64(length))

(* The gas writeLog charges: Log, plus PersistPerByte times               *)
(* uint64(numTopics*HashLen+length), the sum computed in int32.           *)
WriteLogGas(numTopics, length) ==
    Uint64(LogCost + PersistPerByte * Uint64(Int32(Int32(numTopics * HashLen) + length)))

(* writeLog: MemLoad the data, make the topic slice, MemLoad each topic,  *)
(* each failure going through WithFault; then output.WriteLog and UseGas.  *)
WriteLogCall(mem, pointer, length, topicPtr, numTopics) ==
    LET data   == MemLoad(mem, pointer, length)
        topics == LoadTopics(mem, topicPtr, 0, numTopics)
        Failed == [err |-> TRUE, data |-> <<>>, topics |-> <<>>, gas |-> 0]
    IN
    CASE data.err # "none" -> Failed
      [] ~GuardedMakeByteSlice2D(numTopics) -> Failed
      [] topics.err # "none" -> Failed
      [] OTHER -> [err |-> FALSE, data |-> data.data, topics |-> topics.topics,
                   gas |-> WriteLogGas(numTopics, length)]

-----------------------------------------------------------------------------
Init ==
    /\ memory \in InitMemories
    /\ last = [kind |-> "none"]
    /\ stores = 0

(* Loads and unpackings leave memory as it is, so the calls that may      *)
(* follow one are those that may follow the store (or instance start)     *)
(* before it; Observing limits them to that point, where they are all    *)
(* still taken, so that each is checked once per memory.                   *)
Observing == last.kind \in {"none", "store"}

(* A contract calls an EI function that reads memory.                      *)
Load(offset, length) ==
    /\ Observing
    /\ last' = [kind |-> "load", mem |-> memory, offset |-> offset, length |-> length,
                result |-> MemLoad(memory, offset, length)]
    /\ UNCHANGED <<memory, stores>>

(* A contract calls an EI function that writes memory.                     *)
Store(offset, data) ==
    LET r == MemStore(memory, offset, data) IN
    /\ stores < MaxStores
    /\ last' = [kind |-> "store", mem |-> memory, offset |-> offset, data |-> data,
                result |-> r]
    /\ memory' = r.mem
    /\ stores' = stores + 1

(* A contract calls one of the nested-call EI functions.                   *)
GetArguments(fOff, fLen, n, lOff, dOff) ==
    /\ Observing
    /\ last' = [kind |-> "args", mem |-> memory, fOff |-> fOff, fLen |-> fLen, n |-> n,
                lOff |-> lOff, dOff |-> dOff,
                result |-> GetArgumentsFromMemory(memory, fOff, fLen, n, lOff, dOff)]
    /\ UNCHANGED <<memory, stores>>

(* A contract calls writeLog.                                             *)
WriteLog(pointer, length, topicPtr, numTopics) ==
    /\ Observing
    /\ last' = [kind |-> "log", mem |-> memory, pointer |-> pointer, length |-> length,
                topicPtr |-> topicPtr, numTopics |-> numTopics,
                result |-> WriteLogCall(memory, pointer, length, topicPtr, numTopics)]
    /\ UNCHANGED <<memory, stores>>

(* StartWasmerInstance: the next contract instance starts with its own     *)
(* memory.                                                                 *)
NewInstance ==
    /\ memory' \in InitMemories
    /\ last' = [kind |-> "none"]
    /\ stores' = 0

Next ==
    \/ \E o \in Offsets, l \in Lengths : Load(o, l)
    \/ \E o \in Offsets, d \in StoreData : Store(o, d)
    \/ \E fo \in ArgOffsets, fl \in Lengths, n \in NumArgs, lo \in ArgOffsets, do \in ArgOffsets :
          GetArguments(fo, fl, n, lo, do)
    \/ \E p \in Offsets, l \in Lengths, tp \in Offsets, n \in NumTopics : WriteLog(p, l, tp, n)
    \/ NewInstance

Spec == Init /\ [][Next]_vars

-----------------------------------------------------------------------------
(* Reference definitions, in exact integer arithmetic.                     *)

(* The bytes at [offset, offset + length) read as section 8.5 of the       *)
(* specification describes mem_load: bad offset, negative length, or the   *)
(* bytes zero-padded past the end of memory.                               *)
SpecLoad(mem, offset, length) ==
    CASE offset < 0 \/ offset > Len(mem) -> [err |-> "BadBounds", data |-> <<>>]
      [] length < 0 -> [err |-> "NegativeLength", data |-> <<>>]
      [] OTHER -> [err |-> "none",
                   data |-> [i \in 1..length |->
                               IF offset + i <= Len(mem) THEN mem[offset + i] ELSE 0]]

(* A length field: four bytes, least significant first, two's complement. *)
LengthField(bytes) ==
    LET u == FoldLeft(LAMBDA x, y : x + y, 0,
                      [j \in DOMAIN bytes |-> bytes[j] * Base^(j - 1)])
    IN IF u > IntMax THEN u - 2^W ELSE u

(* Byte j of memory as a read sees it: zero past the end.                  *)
ByteAt(mem, j) == IF j <= Len(mem) THEN mem[j] ELSE 0

(* The length bytes of bytes [from+1, from+length] of memory.              *)
BytesAt(mem, from, length) == [b \in 1..length |-> ByteAt(mem, from + b)]

(* The arguments packed as section 4.7 describes: numArguments lengths at  *)
(* argumentsLengthOffset, the arguments one after another from dataOffset. *)
PackedArguments(mem, numArguments, argumentsLengthOffset, dataOffset) ==
    LET L(i) == LengthField(BytesAt(mem, argumentsLengthOffset + 4 * (i - 1), 4))
        start(i) == dataOffset + FoldLeft(LAMBDA x, y : x + y, 0,
                                          [j \in 1..(i - 1) |-> L(j)])
    IN [i \in 1..numArguments |-> BytesAt(mem, start(i), L(i))]

-----------------------------------------------------------------------------
TypeOK ==
    /\ memory \in Seq(Bytes)
    /\ Len(memory) % PageSize = 0
    /\ Len(memory) <= MaxPages * PageSize
    /\ last.kind \in {"none", "load", "store", "args", "log"}
    /\ stores \in 0..MaxStores

(* Every memory read of an EI function (MemLoad) with a non-zero length    *)
(* fails BadBounds for an offset outside memory, NegativeLength for a     *)
(* negative length, and otherwise returns exactly length bytes, the tail  *)
(* past the end of memory zero-padded (specification 8.5).  Breaks if the  *)
(* int32/uint32 end computation or the copy range is off.                 *)
MemLoadAsSpecified ==
    last.kind = "load" /\ last.length # 0 =>
        last.result = SpecLoad(last.mem, last.offset, last.length)

(* One MemStore grows the memory by at most one page; when it fails it    *)
(* leaves every byte that was there as it was, and when it succeeds the   *)
(* data is at offset and nothing else changed (specification 8.6).        *)
MemStoreAsSpecified ==
    last.kind = "store" =>
        LET before == last.mem
            n      == Len(last.data)
        IN
        /\ Len(memory) - Len(before) \in {0, PageSize}
        /\ last.result.err # "none" => SubSeq(memory, 1, Len(before)) = before
        /\ last.result.err = "none" =>
              /\ n > 0 => last.offset + n <= Len(memory)
              /\ \A j \in 1..Len(memory) :
                    memory[j] = IF last.offset < j /\ j <= last.offset + n
                                THEN last.data[j - last.offset]
                                ELSE ByteAt(before, j)

(* A nested call that getArgumentsFromMemory accepts reads the function    *)
(* name and the arguments exactly as packed (section 4.7): lengths as four *)
(* little-endian bytes each, arguments back to back from dataOffset.       *)
(* Breaks if a length is decoded in another byte order, if the data       *)
(* offset is not advanced, or if a length field is sliced from the wrong  *)
(* place.                                                                  *)
ArgumentsMatchPacking ==
    last.kind = "args" /\ last.result.outcome = "ok" =>
        /\ last.result.function = BytesAt(last.mem, last.fOff, last.fLen)
        /\ last.result.args = PackedArguments(last.mem, last.n, last.lOff, last.dOff)

(* A writeLog that succeeds hands the output exactly the data and the     *)
(* numTopics topics as they lie in memory: the data at pointer, topic i at *)
(* topicPtr + i * HashLen, each zero-padded past the end of memory.  About *)
(* the topic loop's int32 offsets and its early return on a failed load.   *)
WriteLogPersistsMemory ==
    last.kind = "log" /\ ~last.result.err =>
        /\ last.result.data = BytesAt(last.mem, last.pointer, last.length)
        /\ last.result.topics =
              [i \in 1..last.numTopics |->
                  BytesAt(last.mem, last.topicPtr + (i - 1) * HashLen, HashLen)]

(* A writeLog that succeeds is charged at least Log plus PersistPerByte   *)
(* for every byte it persists.  writeLog computes numTopics*HashLen+length *)
(* in int32 and widens it to uint64: a wrap must never lower the charge.   *)
WriteLogChargesPersistedBytes ==
    last.kind = "log" /\ ~last.result.err =>
        last.result.gas >= LogCost + PersistPerByte * (last.numTopics * HashLen + last.length)

(* Unpacking the arguments of a nested call never panics the host: every  *)
(* input a contract can pass is either accepted or refused with an error.  *)
(* The code computes numArguments * 4 and i * 4 in int32.                  *)
NoPanicInArguments ==
    last.kind = "args" => last.result.outcome # "panic"
=============================================================================
