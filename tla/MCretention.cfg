CONSTANTS
    e1 = e1
    e2 = e2
    e3 = e3
    Entities = {e1, e2, e3}
    Collections = {"c1"}
    Homes = {"h1", "h2"}
    EntityModel <- MCModels
    CollModel <- MCCollModel
    CollScope <- MCScope
    TrimEvery = 1
    MaxEventsPerModel = 1
    MaxEventsTotal = 1
    MaxWrites = 3
    MaxEpoch = 0
    MaxGeneration = 2
    MaxQueue = 4
    Disturbances = {"unmount"}
    Windows = {}
SPECIFICATION Spec
INVARIANTS RemountSound DeliverySound
SYMMETRY MCSymmetry
