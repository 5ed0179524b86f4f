SPECIFICATION Spec
CONSTANTS
    Calls = {c1, c2}
    Items = {x1}
    Activities = {a1, a2, a3}
    Checkpointer = "file"
    Constructors = {"new", "from_memory"}
    Restarts = {"crash", "drop"}
    Absent = Absent
    Plain = Plain
    Garbage = Garbage
INVARIANTS ProvenanceResolves
SYMMETRY MCSymmetry
CHECK_DEADLOCK FALSE
