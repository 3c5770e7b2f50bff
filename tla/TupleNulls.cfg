\* "NULLs of every type read back as NULL" (README.md:259), over the rows of
\* TupleRoundTrip.
SPECIFICATION Spec
CONSTANTS
    ByteBits = 2
    MaxCols = 3
    Scale = 1
    Precisions = {0, 3, 6, 9, 12}
    Float64s <- SomeFloat64s
    Float32s <- SomeFloat32s
    Float64bits <- Float64Places
    Float32bits <- Float32Places
    Values <- ByColumns
    Format <- Formatted
CHECK_DEADLOCK FALSE
INVARIANT NullsReadBack
