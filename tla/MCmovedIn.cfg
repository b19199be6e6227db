SPECIFICATION FSpec
CONSTANTS
    e1 = e1
    e2 = e2
    e3 = e3
    Entities = {e1}
    EntityModel <- MCModelOf
    Known = {"Note"}
    Groups = {"g", "h"}
    Mine = {"g"}
    Homes = {{"g"}, {"h"}}
    Targets = {}
    MaxEvents = 4
    MaxFaults = 0
    OpenFeedWindows = {"moved-in"}
INVARIANTS CaughtUpShowsTheTruth
CHECK_DEADLOCK FALSE
