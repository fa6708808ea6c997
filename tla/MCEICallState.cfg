CONSTANTS
    Base = 4
    Int64Bits = 4
    ArgLists <- MCArgLists
    Functions <- MCFunctions
    Ids <- MCIds
    Int64Values <- MCInt64Values
    FinishData <- MCFinishData
    MaxFinish = 2
    AsyncIds <- MCAsyncIds
    Destinations <- MCDestinations
    Callbacks <- MCCallbacks
    DataLengths = {0, 1}
    MaxAsync = 2
    GasProvided = 4
    FlatCost = 1
    PersistPerByte = 1
    DataCopyPerByte = 1
    AsyncCallStep = 1
    AsyncCallbackGasLock = 1

SPECIFICATION Spec
INVARIANT TypeOK
INVARIANT Int64ArgumentAsSpecified
INVARIANT Int64FinishReadsBack
INVARIANT ReturnDataReadsWhatWasFinished
INVARIANT AsyncContextsKeepRegistrations
INVARIANT AsyncCallGetsGasLeft
