CONSTANTS
    k1 = k1
    kp = kp
    Nil = Nil
    NoUpdate = NoUpdate
    NoInt = NoInt
    Base = 4
    Int64Bits = 4
    UserKeys <- MCUserKeys
    ProtectedUserKeys = {kp}
    InitStored = {Nil}
    RawData <- MCRawData
    Int64Values <- MCInt64Values
    LockTimes <- MCLockTimes
    Timestamps = {0, 3, 5}
    MaxOps = 3

SPECIFICATION Spec
INVARIANT TypeOK
INVARIANT Int64StorageRoundTrip
INVARIANT LockFollowsTimestamp
