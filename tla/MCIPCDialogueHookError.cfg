CONSTANTS
    Scripts <- MCScripts
    Requests <- MCRequests
    MaxCalls = 3
    APINames = {"storageStore"}
    BuiltinNames = {"claimDeveloperRewards"}
    UpgradeFunctionName = "upgradeContract"
    InitFunctionName = "init"
    InitFunctionNameEth = "solidity.ctor"

SPECIFICATION Spec
INVARIANT NodeAcceptsOnlyAuthoritative
CHECK_DEADLOCK FALSE
