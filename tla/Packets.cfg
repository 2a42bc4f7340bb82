SPECIFICATION Spec
CONSTANTS
    PH_MSG_SIZE = 3
    Texts <- MCTexts
    SRC = 170
    DEST = 187
    Masks <- MCMasks
    Cuts <- MCCuts
    MAX_BYTES = 19
    MAX_FAULTS = 1
INVARIANTS
    TypeOK
    ChecksumIsRemainder
PROPERTIES
    IntactIsAccepted
    DamageIsNoticed
    AcceptedIsReceived
    AcceptedWasSent
