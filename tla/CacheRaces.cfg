SPECIFICATION Spec
CONSTANTS
    p1 = p1
    p2 = p2
    p3 = p3
    Callers = {c1, c2, c3}
    Prompts = {p1, p2, p3}
    Key <- MCKey
    Policies = {"None", "ContentAddressed", "Lru"}
    Capacity = 2
    NoCall = NoCall
    MaxRaces = 3
INVARIANTS CachedIsEvictable OverCapacityOnlyByRaces
