CONSTANTS
    Agents = {a1}
    Operators = {o1}
    Keys = {k1}
    None = None
    MaxJobs = 1
    MaxDispatchAttempts = 1
    DispatchLease = 1
    ExecutionResultDeadline = 1
    MaxActiveJobsPerAgent = 1
    ReconcileLimit = 1
    MaxLate = 0
SPECIFICATION DispatchSpec
INVARIANT NeverStopsOnTransientErrors
