SPECIFICATION LogSpec
CONSTANTS
    Branches = {main, dev}
    Main = main
    Messages = {m1}
    Keys = {k1}
    Vals = {v1}
    Types = {T1}
    Absent = Absent
    Unserializable = Unserializable
    MaxCommits = 4
INVARIANTS TypeOK HistoryIsADag LogListsAncestorsOnce SerializableAsOfIsStable
PROPERTIES LineageNeverRewritten HistoryNeverLost
