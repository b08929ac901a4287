SPECIFICATION ClockSpec
CONSTANTS
    Ms = 2
    Second = 4
    Options <- TwoRuns
    MaxSessions = 2
INVARIANTS
    FreshRunoffClock
CHECK_DEADLOCK FALSE
