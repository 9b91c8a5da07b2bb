SPECIFICATION Spec

SYMMETRY MCSymmetry

CONSTANTS
    Requests = {u1, u2}
    Roles = {ngo, donor}
    f1 = f1
    f2 = f2
    Files <- MCFiles
    Names = {n1, n2}
    Size <- MCSize
    NoRow = NoRow
    NoRequest = NoRequest
    MaxSize = 2
    MaxUploads = 2
    MaxBytes = 3

INVARIANTS
    AcknowledgedVerifies
    OvershootBounded
