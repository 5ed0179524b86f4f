SPECIFICATION Spec
CONSTANTS
    Calls = {c1}
    Items = {x1}
    Activities = {a1, a2}
    Checkpointer = "file"
    Constructors = {"new"}
    Restarts = {"crash"}
    Absent = Absent
    Plain = Plain
    Garbage = Garbage
INVARIANTS AckedSurviveRestart
CHECK_DEADLOCK FALSE
