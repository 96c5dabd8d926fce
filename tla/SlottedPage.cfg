\* A page of eight bytes behind its header, with records of up to three bytes.
SPECIFICATION Spec
CONSTANTS
    CAPACITY = 8
    SLOT_SIZE = 2
    Names = {a, b}
    MaxSize = 3
    Bytes <- MCBytes
    Records <- MCRecords
    Zero = Zero
    PageTypes = {Leaf}
    INVALID_PAGE_INDEX = INVALID_PAGE_INDEX
    Parents <- MCParents
SYMMETRY Symmetry
INVARIANTS
    TypeOK
    HeapWellFormed
PROPERTIES
    
    ImplementsRecordList
