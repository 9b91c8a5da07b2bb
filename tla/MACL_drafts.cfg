SPECIFICATION DeployedSpec

CONSTANTS
    donor = donor
    ngo = ngo
    ministry = ministry
    Accounts <- MCAccounts
    Owner = donor
    ZeroAddress = ZeroAddress
    ComplianceAddress = ComplianceAddress
    VerificationAddress = VerificationAddress
    SeedRoles <- MCSeedRoles
    SeedOrder <- MCSeedOrder
    NoHash = NoHash
    DocumentHashes = {}
    ReceiptHashes = {h1}
    SignatorySets <- MCAllSign
    Registrable = {ngo}
    Dates = {1, 2}
    Thresholds = {1, 2}
    Deadlines = {0, 1}
    Budgets = {1}
    ReportedValues = {1, 2}
    Amounts = {1}
    DefaultWindow = 1
    Windows = {0}
    MaxUint = 9
    MaxTime = 1
    MaxAgreements = 1
    MaxTargets = 2
    MaxRegistrations = 3
    MaxRecords = 1
    MaxSpendRequests = 1

INVARIANTS
    TypeOK
    VerdictRecomputable

CHECK_DEADLOCK FALSE
