SPECIFICATION ClockSpec
CONSTANTS
    Ms = 2
    Second = 4
    Options <- AllOptions
    MaxSessions = 2
INVARIANTS
    ClockTypeOK
    OvershootBelowFloor
    RunoffCoversClock
    EveryPeriodReported
PROPERTIES
    EveryRunEnds
CHECK_DEADLOCK FALSE
