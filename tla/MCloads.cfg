CONSTANTS
    Callers = {"t1", "t2", "t3"}
    Requests = {"r1", "r2"}
    RequestOf <- MCRequestOf
    MaxWake = 2
    Hooks = {"h1", "h2"}
    FirstTarget <- MCFirstTarget
    MaxAttempts <- MCAttempts
    MaxGeneration = 1
SPECIFICATION PLSpec
INVARIANTS PLTypeOK NoLostWake ReadyIsEarned
PROPERTIES Serves AnswersAreNew LoadingEnds
CHECK_DEADLOCK FALSE
