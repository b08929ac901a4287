\* Three models, routing steps shorter and longer than a runoff step, a client
\* that forces, sets and looks up before and behind the clock.
SPECIFICATION Spec
CONSTANTS
    Hour = 12
    Models <- RainModels
    RoutingSteps = {1, 4}
    Intensities = {5}
    Lookups = {0, 14}
INVARIANTS
    RainTypeOK
    RainIsTheSeries
PROPERTIES
    ReportedRainIsOfTheStep
