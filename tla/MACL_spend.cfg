SPECIFICATION DeployedSpec

CONSTANTS
    donor = donor
    ngo = ngo
    ministry = ministry
    Accounts <- MCAccounts
    Owner = donor
    ZeroAddress = ZeroAddress
    ComplianceAddress = ComplianceAddress
    VerificationAddress = VerificationAddress
    SeedRoles <- MCSeedRoles
    SeedOrder <- MCSeedOrder
    NoHash = NoHash
    DocumentHashes = {}
    ReceiptHashes = {h1, h2}
    SignatorySets <- MCSignatorySets
    Registrable = {}
    Dates = {1, 2}
    Thresholds = {1}
    Deadlines = {1}
    Budgets = {2, 3}
    ReportedValues = {}
    Amounts = {1, 2}
    DefaultWindow = 1
    Windows = {}
    MaxUint = 9
    MaxTime = 1
    MaxAgreements = 1
    MaxTargets = 1
    MaxRegistrations = 3
    MaxRecords = 0
    MaxSpendRequests = 3

INVARIANTS
    ApprovedByTwoOthers
    CommittedIsApproved
    NeverOverspent

PROPERTIES
    HistoryAppendOnly
    ImplementsBudget

CHECK_DEADLOCK FALSE
