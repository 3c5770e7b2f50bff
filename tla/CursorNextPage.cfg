SPECIFICATION Spec
CONSTANTS
    MaxQueries = 2
    MaxRows = 3
    PageSize = 2
    ExecPageSize = 2
CHECK_DEADLOCK FALSE
INVARIANT EndOfPageNeverPanics
