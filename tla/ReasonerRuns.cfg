CONSTANTS
    Classes = {A, B, C}
    Properties = {P, Q}
    Nodes = {n1, n2, n3}
    Individuals = {1, 2}
    Bases <- MCBases
    RuleSets <- MCRuleSets
    Caps = {1, 4}
    Enough = 4
    MaxRuns = 2
    MaxClassFacts = 3
    MaxPropertyFacts = 3
    MaxPairs = 3
    ClassModels <- MCClassModels
    PropertyModels <- MCPropertyModels
SPECIFICATION Spec
SYMMETRY MCSymmetry
INVARIANTS TypeOK Sound OkIsClosed RerunIsClean NeverHalfClosed CapOnlyWhenTight
CHECK_DEADLOCK FALSE
