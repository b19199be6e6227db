SPECIFICATION WSpec
CONSTANTS
    p1 = p1
    t1 = t1
    t2 = t2
    NoRow = NoRow
    ProjectIds = {p1}
    TodoIds = {t1, t2}
    ProjectOf <- MCProjectOf
    MaxWrites = 2
    MaxRecoveries = 1
INVARIANTS WriteTypeOK TodosHaveTheirProject LogTellsTables MarksHoldUnderWrites SyncedIsServerTruth
CHECK_DEADLOCK FALSE
