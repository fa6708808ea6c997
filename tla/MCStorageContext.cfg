CONSTANTS
    k1 = k1
    k2 = k2
    kp = kp
    Keys <- MCKeys
    ProtectedKeys <- MCProtectedKeys
    Vals <- MCVals
    Nil = Nil
    NoUpdate = NoUpdate
    DataCopyPerByte = 1
    StorePerByte = 5
    PersistPerByte = 3
    ReleasePerByte = 2
    MaxOps = 3

SPECIFICATION Spec
INVARIANT TypeOK
PROPERTY RefinesContractStorage
PROPERTY StoreGasFollowsSchedule
