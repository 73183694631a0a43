SPECIFICATION Spec
CONSTANTS
    Workers = {w1}
    NoWorker = none
    MaxRunId = 4
    MaxApiRuns = 2
    Workspaces = {ws1, ws2}
    NoWorkspace = nows
    ApiRunTypes = {"discover", "materialize_refresh", "other"}
    Schedules = {1}
    MCWorkspace = ws1
    ScheduleWorkspace <- MCScheduleWorkspace
    ScheduleRunType <- MCScheduleRunType
    Interval <- MCInterval
    Never = never
    RefreshEnabled = FALSE
    MaxRunsPerTick = 2
    WorkspaceLimit = 1
    MaxEpoch = 2
    MaxCrashes = 1
INVARIANTS
    StepsFollowDag
    OneRunPerInterval
PROPERTIES
    OutcomeIsFinal
