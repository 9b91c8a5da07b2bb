SPECIFICATION SessionsSpec

CONSTANTS
    Tabs = {t1, t2}
    NoTab = NoTab
    LoginRoles = {donor, ngo}
    NoRole = NoRole
    Displayed = {donor, ngo}
    Ttl = 1
    TimerMax = 2
    MaxClock = 1
    MaxTokens = 2
    MaxActs = 3
    MaxFaults = 1

INVARIANTS
    SignedOutStaysOut
    WritesAsShown

PROPERTIES
    LiveSessionKept
    DeadSessionEnds

CHECK_DEADLOCK FALSE
