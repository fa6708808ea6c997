CONSTANTS
    Scripts <- MCScripts
    Requests <- MCRequests
    MaxCalls = 4
    APINames = {"storageStore"}
    BuiltinNames = {"claimDeveloperRewards"}
    UpgradeFunctionName = "upgradeContract"
    InitFunctionName = "init"
    InitFunctionNameEth = "solidity.ctor"

SPECIFICATION Spec
INVARIANT Lockstep
INVARIANT SuccessfulDeployInstallsItsCode
PROPERTY ImplementsContractCall
CHECK_DEADLOCK FALSE
