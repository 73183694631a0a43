SPECIFICATION Spec
CONSTANTS
    Packs = {p1, p2, p3}
    Manifests = {m1, m2}
    Unsound = {p3, m2}
    NoTarget = notarget
    Requests = {q1, q2}
    Nobody = nobody
    MaxRequests = 5
    MaxTasks = 3
SYMMETRY Symmetry
CHECK_DEADLOCK FALSE
INVARIANTS
    ConflictingDecisionRejected
