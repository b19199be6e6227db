CONSTANTS
    Keys = {"global", "a", "b"}
    ScopeOf <- MCScopeOf
    Calls = {"t1", "t2"}
    MaxInstances = 3
    Windows = {}
SPECIFICATION RSpec
INVARIANTS RTypeOK OneInstancePerKey DrainsEndFirst TeardownIsDone
PROPERTIES TeardownEnds
CHECK_DEADLOCK FALSE
