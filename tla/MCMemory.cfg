CONSTANTS
    W = 8
    PageSize = 4
    MaxPages = 3
    MaxStores = 1
    ArgOffsets <- MCArgOffsets
    InitMemories <- MCInitMemories
    Offsets <- MCOffsets
    Lengths <- MCLengths
    StoreData <- MCStoreData
    NumArgs <- MCNumArgs
    NumTopics <- MCNumTopics
    HashLen = 4
    LogCost = 2
    PersistPerByte = 1

SPECIFICATION Spec
INVARIANT TypeOK
INVARIANT MemLoadAsSpecified
INVARIANT MemStoreAsSpecified
INVARIANT ArgumentsMatchPacking
INVARIANT WriteLogPersistsMemory
INVARIANT WriteLogChargesPersistedBytes
