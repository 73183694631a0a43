SPECIFICATION MCSpec
CONSTANTS
    f1 = f1
    g1 = g1
    folder = folder
    mailbox = mailbox
    t1 = t1
    t2 = t2
    t3 = t3
    cols1 = cols1
    cols2 = cols2
    Items <- MCItems
    SourceOf <- MCSourceOf
    Plugins = {mailbox}
    Contents = {t1, t2, t3}
    ColumnsOf <- MCColumnsOf
    NotUtf8 = {t2}
    Sensitive = {t1}
    Anomalous = {t1}
    Missing = missing
    NoColumns = nocolumns
    NoManifest = nomanifest
    Torn = torn
    MaxRuns = 2
    MaxEdits = 2
    MaxDecisions = 1
    MaxFaults = 1
CHECK_DEADLOCK FALSE
INVARIANTS
    TypeOK
    ManifestTellsRaw
    StrictRunIsComplete
    PassedOnlyIfIngestedOrMissed
    FindingsSurface
PROPERTIES
    RunsEnd
