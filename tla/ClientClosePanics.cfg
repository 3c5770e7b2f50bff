SPECIFICATION Spec
CONSTANTS
    c1 = c1
    c2 = c2
    opener = opener
    Callers = {c1, c2}
    Opener = opener
    MaxCalls = 1
    Ops = {"operation"}
    MayClose = TRUE
    LinkFails = FALSE
    ServerFlags = {0}
INVARIANT ClientIsThreadSafe
