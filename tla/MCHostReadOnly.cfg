CONSTANTS
    a1 = a1
    a2 = a2
    k1 = k1
    kp = kp
    Nil = Nil
    NoUpdate = NoUpdate
    NoAddress = NoAddress
    NoInstance = NoInstance
    Addresses <- MCAddresses
    Keys <- MCKeys
    ProtectedKeys <- MCProtectedKeys
    Vals <- MCVals
    MaxInstances = 2
    MaxSteps = 3

SPECIFICATION Spec
SYMMETRY Symmetry
PROPERTY ReadOnlyCallsDoNotWrite
