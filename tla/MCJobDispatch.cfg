CONSTANTS
    Agents = {a1}
    Operators = {o1}
    Keys = {k1, k2}
    None = None
    MaxJobs = 2
    MaxDispatchAttempts = 2
    DispatchLease = 1
    ExecutionResultDeadline = 1
    MaxActiveJobsPerAgent = 2
    ReconcileLimit = 1
    MaxLate = 1
SPECIFICATION HeartbeatSpec
INVARIANTS
    AtMostOnceExecution
    RowTellsExecution
    ReportsStand
PROPERTIES
    EveryJobFinishes
    PendingSettles
