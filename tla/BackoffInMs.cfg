SPECIFICATION Spec
CONSTANTS
    nul = nul
    a = a
    b = b
    cr = cr
    NUL = nul
    CR = cr
    Chars <- MCChars
    MAX_MSG = 2
    BITS = 2
    TICKS = 8
    Backoffs <- MCBackoffs
    BUF_SIZE = 20
PROPERTY BackoffInMs
