\* Three pages of up to three records; a large one takes more than
\* half of a page.  The model stops after a failed split.
SPECIFICATION Spec
CHECK_DEADLOCK FALSE
CONSTANTS
    Root = Root
    Spare = {a, b}
    Pages <- MCPages
    Keys = {1, 2, 3, 4}
    Sizes = {2, 8}
    CAPACITY = 12
    SLOT_SIZE = 2
    ParentLow = ParentLow
    ZeroWord = ZeroWord
    Parents <- MCParents
    INVALID_PAGE_INDEX = INVALID
SYMMETRY Symmetry
INVARIANTS
    TypeOK
    ScanInOrder
    SearchFinds
    BackPointers
    ParentSurvives
    MergeWhole
    UniformSplitsSucceed
PROPERTIES
    ImplementsKeyMap
