SPECIFICATION DeployedSpec

CONSTANTS
    donor = donor
    ngo = ngo
    ministry = ministry
    Accounts <- MCAccounts
    Owner = donor
    ZeroAddress = ZeroAddress
    ComplianceAddress = ComplianceAddress
    VerificationAddress = VerificationAddress
    SeedRoles <- MCSeedRoles
    SeedOrder <- MCSeedOrder
    NoHash = NoHash
    DocumentHashes = {}
    ReceiptHashes = {h1}
    SignatorySets <- MCSignatorySets
    Registrable = {}
    Dates = {1, 2}
    Thresholds = {1}
    Deadlines = {1}
    Budgets = {}
    ReportedValues = {0, 1}
    Amounts = {}
    DefaultWindow = 1
    Windows = {1, 2, 9}
    MaxUint = 9
    MaxTime = 4
    MaxAgreements = 1
    MaxTargets = 1
    MaxRegistrations = 3
    MaxRecords = 2
    MaxSpendRequests = 0

INVARIANTS
    FinalisedByTwoSignatories
    OutcomesExclusive

PROPERTIES
    HistoryAppendOnly
    SettledOnItsSideOfTheDeadline
    ImplementsVerification

CHECK_DEADLOCK FALSE
