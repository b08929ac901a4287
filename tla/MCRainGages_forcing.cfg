\* A client forces the rain of a gage; the runoff loop reads the gage again.
SPECIFICATION Spec
CONSTANTS
    Hour = 12
    Models <- RainModels
    RoutingSteps = {3}
    Intensities = {5}
    Lookups = {0}
PROPERTY GageForcingReachesRunoff
