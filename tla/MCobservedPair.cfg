CONSTANTS
    Entities = {"e1"}
    Collections = {"c1"}
    Homes = {"h1"}
    EntityModel <- MCGlobalEntityModel
    CollModel <- MCGlobalCollModel
    CollScope <- MCGlobalScope
    TrimEvery = 9
    MaxEventsPerModel = 9
    MaxEventsTotal = 9
    MaxWrites = 2
    MaxEpoch = 0
    MaxGeneration = 2
    MaxQueue = 4
    Disturbances = {}
    Windows = {"observed-pair"}
SPECIFICATION FairSpec
PROPERTIES Converges
CHECK_DEADLOCK FALSE
