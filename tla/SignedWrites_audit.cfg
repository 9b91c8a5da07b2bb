SPECIFICATION Spec

CONSTANTS
    Requests = {w1, w2}
    Ops = {"report.submit", "record.endorse"}
    OwnerKey = "owner"
    NoRequest = NoRequest

INVARIANTS
    AuditComplete

CHECK_DEADLOCK FALSE
