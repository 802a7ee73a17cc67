CONSTANTS
    Patches <- MCSplitPatch
    RowTypes <- MCRowTypes
    MaxRows = 5
    ZBX_MAX_OVERFLOW_SQL_SIZE = 1
    NULL = NULL
SPECIFICATION Spec
INVARIANTS
    ExecutedOnceInOrder
