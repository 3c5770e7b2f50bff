\* Results on either side of one, two and three pages.
SPECIFICATION FairSpec
CONSTANTS
    MaxQueries = 2
    MaxRows = 5
    PageSize = 2
    ExecPageSize = 3
CHECK_DEADLOCK FALSE
INVARIANT TypeOK
INVARIANT NoRowLostOrRepeated
INVARIANT EofMeansComplete
INVARIANT OnePageNeedsNoCursor
PROPERTY IterationEnds
PROPERTY CursorsKeepApart
