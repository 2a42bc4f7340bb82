SPECIFICATION Spec
CONSTANTS
    BUF_SIZE = 4
    BITS = 2
    MSG_SIZE = 2
    Frames <- MCFrames
PROPERTY NextIsNewTransmission
