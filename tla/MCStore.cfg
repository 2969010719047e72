SPECIFICATION Spec
CONSTANTS
    MAX_FILE_BUFFER = 3
    Bytes <- MCBytes
    Strings <- MCStrings
    Lengths <- MCLengths
    Cells = {c1, c2, c3}
    NULL = NULL
INVARIANTS
    RingOK
    ListIsQueue
PROPERTIES
    ImplementsByteQueue
