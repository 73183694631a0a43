SPECIFICATION Spec
CONSTANTS
    Builds = {a, b}
    Snapshots = {s1}
    NoPointer = nopointer
    Torn = torn
    Requests = {q1, q2}
    Nobody = nobody
    Pipeline = pipeline
    NoSubject = nosubject
    MaxRequests = 2
    MaxTasks = 2
    MaxReports = 2
    MaxFaults = 0
PROPERTIES
    NoPublishOverOpenTasks
