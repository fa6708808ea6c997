CONSTANTS
    a1 = a1
    a2 = a2
    a3 = a3
    Addresses <- MCAddresses
    Nil = Nil
    Absent = Absent
    Nonces = {0, 2}
    Balances = {0, 2}
    Values = {1, 2}
    MaxOps = 3


SPECIFICATION Spec


INVARIANT NewAddressGetsCreatorNonce
