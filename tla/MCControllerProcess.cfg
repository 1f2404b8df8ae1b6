CONSTANTS
    Requests = {r1, r2, r3}
SPECIFICATION ControllerFairSpec
INVARIANTS
    ReturnIsTrue
PROPERTIES
    StopEnds
