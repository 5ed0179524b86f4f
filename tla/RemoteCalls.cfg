CONSTANTS
    Calls = {c1, c2}
    Values = {v1, v2}
    Absent = Absent
    Nothing = Nothing
SPECIFICATION FairSpec
INVARIANTS Linearizable
PROPERTIES ShutdownIsFinal CallReturns
CHECK_DEADLOCK FALSE
