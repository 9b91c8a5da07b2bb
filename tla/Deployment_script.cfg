SPECIFICATION DeploymentSpec

CONSTANTS
    donor = donor
    ngo = ngo
    ministry = ministry
    Accounts <- MCAccounts
    Owner = donor
    ZeroAddress = ZeroAddress
    ComplianceAddress = ComplianceAddress
    VerificationAddress = VerificationAddress
    SeedRoles <- MCSeedRoles
    SeedOrder <- MCSeedOrder
    NoHash = NoHash
    DocumentHashes = {}
    ReceiptHashes = {}
    SignatorySets <- MCAllSign
    Registrable = {ngo}
    Dates = {1, 2}
    Thresholds = {1}
    Deadlines = {1}
    Budgets = {1}
    ReportedValues = {0}
    Amounts = {1}
    DefaultWindow = 1
    Windows = {2}
    MaxUint = 9
    MaxTime = 1
    MaxAgreements = 1
    MaxTargets = 1
    MaxRegistrations = 3
    MaxRecords = 1
    MaxSpendRequests = 1

INVARIANTS
    WiredBeforeSettling
    ScriptLeavesDeployed

CHECK_DEADLOCK FALSE
