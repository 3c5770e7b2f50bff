\* At-least-once delivery with DDL, stale handles, lost connections and
\* requests that outlive them.
SPECIFICATION Spec
CONSTANTS
    Names <- MCNames
    Wanted <- MCWanted
    Lower <- MCLower
    Listed <- MCNames
    Keys <- MCKeys
    Batches <- MCBatches
    MaxTables = 3
    MaxVersion = 2
INVARIANT TypeOK
INVARIANT ReplayIsIdempotent
INVARIANT AcknowledgedWasApplied
PROPERTY WritesOnlyMeant
