\* Both helpers may end up serving on sockets that were removed under them, with
\* nothing left to do: the system may stop.
CONSTANTS
    Helpers = {h1, h2}
    Clients = {c1, c2}
    MaxConcurrentConnections = 1
    MaxFaults = 3
    None = None
SPECIFICATION HelperFairSpec
CHECK_DEADLOCK FALSE
INVARIANTS
    HandlersContained
    PathTellsHelper
PROPERTIES
    ShutdownEnds
    ServesAgain
