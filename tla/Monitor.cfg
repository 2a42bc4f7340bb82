SPECIFICATION FairSpec
CONSTANT TIMEOUT = 4
INVARIANTS
    TypeOK
    LineStateFresh
    VerdictMatchesLine
    BusyIsTimed
PROPERTIES
    ImplementsLineMonitor
    RestingLineIsJudged
