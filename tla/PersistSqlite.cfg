SPECIFICATION Spec
CONSTANTS
    Calls = {c1, c2}
    Items = {x1}
    Activities = {a1, a2, a3}
    Checkpointer = "sqlite"
    Constructors = {"new"}
    Restarts = {"crash"}
    Absent = Absent
    Plain = Plain
    Garbage = Garbage
INVARIANTS TypeOK VersionsOrderHistory AckedDurable ProvenanceResolves
PROPERTIES DurableVersionNeverRegresses ImplementsDurableLog
