SPECIFICATION FSpec
CONSTANTS
    e1 = e1
    e2 = e2
    e3 = e3
    Entities = {e1, e2, e3}
    EntityModel <- MCModelOf
    Known = {"Note"}
    Groups = {"g", "h"}
    Mine = {"g"}
    Homes = {{"g"}, {"h"}}
    Targets = {"All", "h", "Note"}
    MaxEvents = 3
    MaxFaults = 1
    OpenFeedWindows = {}
INVARIANTS FeedTypeOK CaughtUpShowsTheTruth SquashIsEquivalent
PROPERTIES CommitsReachTheSubscriber
CHECK_DEADLOCK FALSE
