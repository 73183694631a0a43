SPECIFICATION FairSpec
CONSTANTS
    MaxEvents = 3
    Dispatchers = {d1, d2}
    MaxBatch = 2
    MaxAttempts = 2
CHECK_DEADLOCK FALSE
INVARIANTS
    TypeOK
    MarksTruthful
PROPERTIES
    EventsSettle
