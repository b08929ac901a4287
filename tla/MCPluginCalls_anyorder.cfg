\* Two rounds, up to one [PLUGINS] library beside the built-in plugins. Every
\* round may end for good, so the last unload leaves nothing to do.
CONSTANTS
    s1 = s1
    s2 = s2
    PeriodData <- MCPeriodData
    MaxRows = 1
    MaxPeriods = 2
    MaxLoads = 2
SPECIFICATION CallSpec
CHECK_DEADLOCK FALSE
INVARIANTS
    FooterCountsPeriods
    ReportEndsOnce
PROPERTIES
    FinalizedIsFinal
