SPECIFICATION Spec
CONSTANTS
    Builds = {a, b}
    Snapshots = {s1, s2}
    NoPointer = nopointer
    Torn = torn
    Requests = {q1, q2}
    Nobody = nobody
    Pipeline = pipeline
    NoSubject = nosubject
    MaxRequests = 4
    MaxTasks = 1
    MaxReports = 2
    MaxFaults = 2
INVARIANTS
    TypeOK
    OnlyClearedBuildsServed
    AuditTrailNamesServedPointer
PROPERTIES
    ImplementsAtomicPointer
