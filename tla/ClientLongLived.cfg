SPECIFICATION Spec
CONSTANTS
    c1 = c1
    c2 = c2
    opener = opener
    Callers = {c1}
    Opener = opener
    MaxCalls = 66
    Ops = {"heartbeat"}
    MayClose = FALSE
    LinkFails = FALSE
    ServerFlags = {0}
INVARIANT HeartbeatsSucceedBelow128
