CONSTANTS
    Entities = {"e1"}
    Collections = {"c", "s1", "s2"}
    Homes = {"h1", "h2"}
    EntityModel <- MCEntityModel
    CollModel <- MCCollModel
    CollScope <- MCCollScope
    Partial = "c"
    SubsetHomes <- MCOverlap
    TrimEvery = 9
    MaxEventsPerModel = 9
    MaxEventsTotal = 9
    MaxWrites = 2
    MaxEpoch = 0
    MaxGeneration = 2
    MaxQueue = 4
    Disturbances = {}
    Windows = {}
    LoadWindows = {}
SPECIFICATION ServingSpec
CHECK_DEADLOCK FALSE
INVARIANTS SubsetMarksSound LoadedStaysCurrent
