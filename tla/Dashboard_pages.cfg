SPECIFICATION DashboardSpec

CONSTANTS
    donor = donor
    ngo = ngo
    f1 = f1
    f2 = f2
    g1 = g1
    g2 = g2
    Files <- MCFiles
    NoFile = NoFile
    NoHash = NoHash
    MaxPicks = 2
    MaxSubmits = 2
    MaxSettles = 2
    Agreements <- MCFunded
    NoAgreement = NoAgreement
    FormBudgets = {1}
    FormAmounts = {1, 2}
    NoAmount <- MCNoAmount
    MaxLoads = 2
    MaxChecks = 2
    NodeCount = 3
    ForkAt = 1
    Starts = {0, 3}
    MaxMinted = 2
    MaxPolls = 1
    Accounts <- MCAccounts
    Owner = donor
    ZeroAddress = ZeroAddress
    ComplianceAddress = ComplianceAddress
    SignatorySets = {}
    Registrable = {}
    Dates = {1, 2}
    Thresholds = {1, 2}
    Deadlines = {1}
    Budgets = {}
    MaxAgreements = 1
    MaxTargets = 2
    MaxRegistrations = 0
    Entered <- MCEntered
    NoMaking = NoMaking
    MaxFetches = 3
    MaxClicks = 2

SYMMETRY MCSymmetry

INVARIANTS
    RecordedIsStored
    UnhurriedAttachesPicked
    BudgetMirrored
    WarningNeverMissing
    PanelTellsForks
    FinalListExact
    UndisturbedEditHitsShown
    MadeIsPrefix

CHECK_DEADLOCK FALSE
