\* Results of up to four columns; indices from two on are not fixnums.
\* Connection names of up to three parameters.
SPECIFICATION StreamSpec
CONSTANTS
    Columns <- MCColumns
    MaxCols = 4
    MaxRows = 2
    MaxPages = 1
    FixMax = 1
    NoOrigin = NoOrigin
    Tables <- MCTables
    GoNames <- MCGoNames
    Upper <- MCUpper
    Urls <- MCUrls
    Lower <- MCLower
    Semver <- MCSemver
    Decimal <- MCDecimal
    Literal <- MCLiteral
    Servers <- MCServers
    NoAuth = NoAuth
INVARIANT TypeOK
INVARIANT MetadataIsTrue
INVARIANT MessageIsConsumed
INVARIANT FailuresHaveTheirCause
INVARIANT ValuesAreKept
INVARIANT ValuesReachTheirColumns
INVARIANT UrlIsUnderstood
INVARIANT ConnectedAsAgreed
CHECK_DEADLOCK FALSE
