\* Records that take more than half of a page, split in ascending order.
SPECIFICATION Spec
CHECK_DEADLOCK FALSE
CONSTANTS
    Root = Root
    Spare = {a, b}
    Pages <- MCPages
    Keys = {1, 2, 3, 4}
    Sizes = {2, 8}
    CAPACITY = 12
    SLOT_SIZE = 2
    ParentLow = ParentLow
    ZeroWord = ZeroWord
    Parents <- MCParents
    INVALID_PAGE_INDEX = INVALID
SYMMETRY Symmetry
INVARIANT SplitKeepsRecords
