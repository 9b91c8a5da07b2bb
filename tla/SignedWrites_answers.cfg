SPECIFICATION FairSpec

CONSTANTS
    Requests = {w1, w2}
    Ops = {"report.submit", "record.endorse", "record.decline", "org.register"}
    OwnerKey = "owner"
    NoRequest = NoRequest

INVARIANTS
    AnswersTrue
    AuditTellsTheTruth
    NoNonceGap

PROPERTIES
    ImplementsWrites
    EveryWriteAnswered

CHECK_DEADLOCK FALSE
