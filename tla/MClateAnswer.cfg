SPECIFICATION WSpec
CONSTANTS
    p1 = p1
    t1 = t1
    t2 = t2
    NoRow = NoRow
    ProjectIds = {p1}
    TodoIds = {t1, t2}
    ProjectOf <- MCProjectOf
    MaxWrites = 2
    MaxRecoveries = 0
INVARIANT RowsReflectTheServer
CHECK_DEADLOCK FALSE
