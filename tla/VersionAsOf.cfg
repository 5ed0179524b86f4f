SPECIFICATION LogSpec
CONSTANTS
    Branches = {main, dev}
    Main = main
    Messages = {m1}
    Keys = {k1}
    Vals = {v1, v2}
    Types = {}
    Absent = Absent
    Unserializable = Unserializable
    MaxCommits = 3
INVARIANTS AsOfIsStable
