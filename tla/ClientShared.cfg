\* Two callers of one client, a goroutine that may close it, a link that may
\* fail: the promises of each call, the abstract connection, and that calls
\* return.
SPECIFICATION FairSpec
CONSTANTS
    c1 = c1
    c2 = c2
    opener = opener
    Callers = {c1, c2}
    Opener = opener
    MaxCalls = 1
    Ops = {"operation", "heartbeat"}
    MayClose = TRUE
    LinkFails = TRUE
    ServerFlags = {0, 1, 4}
INVARIANT TypeOK
INVARIANT OneFrameInFlight
INVARIANT ReaderIsServed
INVARIANT AnswersAreTrue
INVARIANT OperationsNeverMismatch
INVARIANT PanicOnlyAfterClose
PROPERTY ImplementsCallSpec
PROPERTY EveryCallReturns
