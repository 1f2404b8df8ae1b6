CONSTANTS
    Agents = {a1}
    Operators = {o1, o2}
    Keys = {k1, k2}
    Procs = {t1, t2, t3}
    None = None
    MaxJobs = 3
    MaxBegins = 4
    MaxDispatchAttempts = 2
    DispatchLease = 1
    ExecutionResultDeadline = 1
    MaxActiveJobsPerAgent = 2
SPECIFICATION Spec
SYMMETRY Symmetry
INVARIANTS
    NoDeadlock
    CreationsSerialized
    AnsweredFirstServedFirst
    ExecutionListedInOrder
PROPERTIES
    DispatchesOldest
    TxImplementsLifecycle
