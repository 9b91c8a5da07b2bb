SPECIFICATION PagesSpec

CONSTANTS
    donor = donor
    ngo = ngo
    ministry = ministry
    Accounts <- MCAccounts
    Owner = donor
    ZeroAddress = ZeroAddress
    ComplianceAddress = ComplianceAddress
    VerificationAddress = VerificationAddress
    SeedRoles <- MCSeedRoles
    SeedOrder <- MCSeedOrder
    NoHash = NoHash
    DocumentHashes = {}
    ReceiptHashes = {h1}
    SignatorySets <- MCSignatorySets
    Registrable = {}
    Dates = {1, 2}
    Thresholds = {1}
    Deadlines = {1}
    Budgets = {1}
    ReportedValues = {0}
    Amounts = {1}
    DefaultWindow = 1
    Windows = {2, 9}
    MaxUint = 9
    MaxTime = 3
    MaxAgreements = 1
    MaxTargets = 1
    MaxRegistrations = 2
    MaxRecords = 1
    MaxSpendRequests = 2
    NodeTotal = 2
    MaxReads = 2

INVARIANTS
    RowsTrue
    OffersRight

CHECK_DEADLOCK FALSE

ACTION_CONSTRAINT
    TheRestStandsStill
