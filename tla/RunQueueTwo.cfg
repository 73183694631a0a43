SPECIFICATION FairSpec
CONSTANTS
    Workers = {w1, w2}
    NoWorker = none
    MaxRunId = 3
    MaxApiRuns = 2
    Workspaces = {ws1}
    NoWorkspace = nows
    ApiRunTypes = {"other"}
    Schedules = {1}
    MCWorkspace = ws1
    ScheduleWorkspace <- MCScheduleWorkspace
    ScheduleRunType <- MCScheduleRunType
    Interval <- MCInterval
    Never = never
    RefreshEnabled = TRUE
    MaxRunsPerTick = 2
    WorkspaceLimit = 1
    MaxEpoch = 1
    MaxCrashes = 1
INVARIANTS
    TypeOK
    CommittedRunsTruthful
PROPERTIES
    QueuedRunsFinish
