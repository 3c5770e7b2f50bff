\* Rows of up to three columns over bytes of two bits, single values
\* exhaustively.
SPECIFICATION Spec
CONSTANTS
    ByteBits = 2
    MaxCols = 3
    Scale = 1
    Precisions = {0, 3, 6, 9, 12}
    Float64s <- SomeFloat64s
    Float32s <- SomeFloat32s
    Float64bits <- Float64Places
    Float32bits <- Float32Places
    Values <- ByColumns
    Format <- Formatted
CHECK_DEADLOCK FALSE
INVARIANT TypeOK
INVARIANT OffsetsDelimitElements
INVARIANT ReadsBackTheSame
INVARIANT DecimalsAreMinimal
INVARIANT OnlyNullIsEmpty
INVARIANT NoIntegerIsTruncated
