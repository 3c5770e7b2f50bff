\* Two goroutines, two connections of which one may stay idle, and losses.
SPECIFICATION FairSpec
CONSTANTS
    u1 = u1
    u2 = u2
    Users = {u1, u2}
    s1 = s1
    s2 = s2
    Slots = {s1, s2}
    NoSlot = NoSlot
    MaxIdle = 1
    Kinds <- MCKinds
    MaxLosses = 1
INVARIANT TypeOK
INVARIANT ExecutedAtMostOnce
INVARIANT ResultsAreTrue
INVARIANT NoConnectionLeaks
PROPERTY EveryCallReturns
PROPERTY RepeatedCallsSucceed
