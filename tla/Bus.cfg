SPECIFICATION FairSpec
CONSTANTS
    Cards = {c1, c2}
    HALF = 4
    TIMEOUT = 9
    LONG = 9
    HALVES = 6
    PRINT = 16
INVARIANTS
    TypeOK
    LowIsShort
    NoFalseCollision
    CarrierSensed
    VerdictsAgree
PROPERTIES
    MonitorsImplementLineMonitor
    LineComesBack
