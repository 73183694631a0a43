SPECIFICATION Spec
CONSTANTS
    Actors = {1, 2}
    Paths = {p1}
    Requests = {q1, q2}
    MaxRequests = 4
    MaxWrites = 1
SYMMETRY Symmetry
CHECK_DEADLOCK FALSE
INVARIANTS
    TypeOK
    SeparationOfDuties
    ExecutedIsAttested
    RemovalsAccountedFor
PROPERTIES
    HoldStopsDestruction
