CONSTANTS
    Entities = {"e1"}
    Collections = {"c", "s1"}
    Homes = {"h1"}
    EntityModel <- MCEntityModel
    CollModel <- MCCollModel
    CollScope <- MCCollScope
    Partial = "c"
    SubsetHomes <- MCByHome
    TrimEvery = 9
    MaxEventsPerModel = 9
    MaxEventsTotal = 9
    MaxWrites = 2
    MaxEpoch = 1
    MaxGeneration = 2
    MaxQueue = 4
    Disturbances = {"unmount","crash","restore"}
    Windows = {}
    LoadWindows = {}
SPECIFICATION SettledSpec
INVARIANTS PartialTypeOK SubsetMarksSound LoadedStaysCurrent NoLoadAcrossRecovery
CHECK_DEADLOCK FALSE
