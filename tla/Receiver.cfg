SPECIFICATION FairSpec
CONSTANTS
    BUF_SIZE = 4
    BITS = 2
    MSG_SIZE = 2
    Frames <- MCFrames
INVARIANTS
    TypeOK
    BitsRecovered
PROPERTIES
    BytesFaithful
    MessageComplete
    RestIsDelivered
    RecoversOnQuietLine
