\* Three threads, one table, two failures and two restarts; more indexes than operations. Clients may stop calling.
CONSTANTS
    Threads = {t1, t2, t3}
    Tables = {tb1}
    Values = {v1}
    Zero = Zero
    NoIndex <- MinusOne
    NoTable = NoTable
    IndexLimit = 8
    MaxOps = 7
    MaxFaults = 2
    MaxRestarts = 2
    EarlyUse = FALSE
SPECIFICATION Spec
SYMMETRY Symmetry
CHECK_DEADLOCK FALSE
INVARIANTS
    TypeOK
    UniqueIds
    CounterPastFile
    StoredPagesKept
