CONSTANTS
    Entities = {"e1"}
    Collections = {"c1"}
    Homes = {"h1"}
    EntityModel <- MCGlobalEntityModel
    CollModel <- MCGlobalCollModel
    CollScope <- MCGlobalScope
    TrimEvery = 9
    MaxEventsPerModel = 9
    MaxEventsTotal = 9
    MaxWrites = 2
    MaxEpoch = 1
    MaxGeneration = 2
    MaxQueue = 3
    Disturbances = {"crash", "unmount", "drop", "restore", "stop"}
    Windows = {}
SPECIFICATION Spec
INVARIANTS TypeOK CoverageSound RemountSound DeliverySound GateHeld NoMarkAcrossRecovery
PROPERTIES MountAtomic
