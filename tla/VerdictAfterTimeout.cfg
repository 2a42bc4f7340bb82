SPECIFICATION Spec
CONSTANT TIMEOUT = 4
INVARIANT VerdictAfterTimeout
