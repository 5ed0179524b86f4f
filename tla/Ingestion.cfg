SPECIFICATION Spec
CONSTANTS
    Setups <- MCSetups
    Events <- MCEvents
    HashOrder <- MCHashOrder
    Stateful = {"w"}
    KnownPaths <- MCKnownPaths
    MaxVersions = 2
    Silent = {"e4"}
    Spaced = {"a b"}
    MaxStates = 1
    MaxNotes <- MCMaxNotes
    MaxRestarts = 1
    MaxFresh = 3
INVARIANTS TreeMirrorsPaths EventsKeepTheirNodes AnnotationsSurvive
CHECK_DEADLOCK FALSE
