SPECIFICATION Spec
CONSTANTS
    BUF_SIZE = 4
    x = x
    y = y
    z = z
    Bytes <- MCBytes
INVARIANT TypeOK
PROPERTY ImplementsLossyQueue
