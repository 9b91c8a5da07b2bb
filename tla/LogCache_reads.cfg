SPECIFICATION FairSpec

CONSTANTS
    Readers = {r1, r2}
    NoReader = NoReader
    NoEntry = NoEntry
    Window = 2
    MaxHead = 2
    MaxChains = 2

INVARIANTS
    CacheExact

PROPERTIES
    AnswersReachFarEnough
    AnswersNeverShrink
    AnsweredEventually
    ScansAdvance
