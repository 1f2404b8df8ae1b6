\* Three requests at a time, two of which may be logins; two sessions per operator.
CONSTANTS
    Operators = {o1, o2}
    Procs = {p1, p2, p3}
    MaxActive = 2
    MaxHashing = 2
    MaxLogins = 4
    None = None
SPECIFICATION Spec
SYMMETRY Symmetry
INVARIANTS
    SessionsBounded
    RecentSessionsSurvive
    AuditTellsSessions
PROPERTIES
    DisabledGetsNoSession
