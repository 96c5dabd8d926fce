\* Tables of up to three columns with a record, or fewer columns with more.
SPECIFICATION Spec
CHECK_DEADLOCK FALSE
CONSTANTS
    BITS = 2
    INF_MAGNITUDE = 30720
    MAX_SCALE = 4
    U8_MAX = 255
    U16_MAX = 65535
    U32_MAX = 100000
    NaT <- MCNaT
    TableNames = {"t", "SPACES"}
    ColumnInputs <- MCAllColumnInputs
    ConstraintInputs <- MCConstraintInputs
    Values <- MCValues
    MaxColumns = 3
    MaxConstraints = 2
    MaxSize = 5
INVARIANTS
    RoundTrip
    KeyAgrees
    IndexSorted
    SearchEnds
    EqualKeysHashAlike
    TypeTextRoundTrip
    PanicsExplained
