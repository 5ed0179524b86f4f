SPECIFICATION Spec
CONSTANTS
    Forever <- MCForever
    Colons <- MCColons
    StandardBindings <- MCStandard
    LastParts <- MCLastParts
    CodePoints <- MCCodePoints
    Spaced <- MCSpaced
    Dotted <- MCDotted
    NsRank <- MCNsRank
    Worlds <- MCWorlds
    Activities <- MCActivities
    PathQueries <- MCPathQueries
    Triples <- MCTriples
INVARIANTS
    TraverseFollowsPaths
    CypherAnswers
    SparqlChainAnswers
    ReportIsExact
    ShaclKeepsFindings
    CodecsKeepTriples
    WireKeepsStore
    ImportReadsExport
