\* Two agents, so that unfiltered reads reconcile across agents, and three jobs,
\* so that two of them share an agent and the queue bound is reached.
CONSTANTS
    Agents = {a1, a2}
    Operators = {o1, o2}
    Keys = {k1, k2}
    None = None
    MaxJobs = 3
    MaxDispatchAttempts = 2
    DispatchLease = 1
    ExecutionResultDeadline = 2
    MaxActiveJobsPerAgent = 2
    ReconcileLimit = 1
SPECIFICATION Spec
SYMMETRY Symmetry
INVARIANTS
    RowsUsable
    HistoryTellsRow
PROPERTIES
    TerminalIsFinal
    ImplementsLifecycle
