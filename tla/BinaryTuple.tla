---------------------------- MODULE BinaryTuple ----------------------------
(***************************************************************************)
(* A row on its way to the server and back: BuildBinaryTuple encodes the    *)
(* columns one after the other and puts the header and the offset table in  *)
(* front (binary-tuple.go); NewTupleFromByteArrayWithMetadata, GetValue and *)
(* rows.Next take it apart again (tuple.go, sql/v1/rows.go).  The server    *)
(* stores and returns the elements as they are (external).                  *)
(*                                                                         *)
(* A value the user passes has the Go type it has: nil, an integer (int,    *)
(* int32 or int64), an unsigned one, a float64 (in tenths), a Decimal, a    *)
(* byte slice, a string, a string that is a numeral, a bool, a UUID, a      *)
(* time: an instant for a TIMESTAMP, a calendar time for the others.        *)
(***************************************************************************)
EXTENDS ByteString, Temporal

CONSTANTS MaxCols,     \* bound: columns of a row
          Scale,       \* the scale of decimal columns
          Precisions,  \* the precisions of TIME and DATETIME columns
          Float64s,    \* the numbers, in tenths, that a float64 can be
          Float32s,    \* and those that a float32 can be
          Float64bits, \* math.Float64bits, as bytes
          Float32bits, \* math.Float32bits
          Values,      \* the values the user passes, by the number of columns and the kind
          Format(_)    \* fmt.Sprintf("%v"), and the text of a numeral

Kinds == {"null", "boolean", "int8", "int16", "int32", "int64", "float", "double", "decimal",
          "date", "time", "datetime", "timestamp", "uuid", "string", "bytes"}

ASSUME ColsAssumption == MaxCols \in Nat \ {0} /\ Scale \in Nat \ {0} /\ Fits(Scale, 2)
ASSUME PrecisionsAssumption == Precisions # {} /\ Precisions \subseteq Nat

\* Times return in four, five or six bytes of eight bits.
ASSUME WholeBytesAssumption == 8 % ByteBits = 0

\* A float32 is a float64, and no two floats have the same bits.
ASSUME FloatsAssumption ==
    /\ Float32s # {} /\ Float32s \subseteq Float64s /\ Float64s \subseteq Int
    /\ Float64bits \in [Float64s -> [1..8 -> Bytes]] /\ Float32bits \in [Float32s -> [1..4 -> Bytes]]
    /\ \A s, t \in Float64s : Float64bits[s] = Float64bits[t] => s = t
    /\ \A s, t \in Float32s : Float32bits[s] = Float32bits[t] => s = t

Nil    == [type |-> "nil"]
Panic  == [type |-> "panic"]
Failed == [type |-> "error"]

\* The values there are.
Int64 == -(Power(Byte, 8) \div 2)..(Power(Byte, 8) \div 2 - 1)
Below(n) == 0..(n - 1)
Lesser(m, n) == IF m < n THEN m ELSE n
UserValues(kind) ==
    {Nil} \cup [type : {"bool"}, b : BOOLEAN]
      \cup [type : {"int"}, n : Int64] \cup [type : {"uint"}, n : Below(Power(Byte, 8))]
      \cup [type : {"float"}, tenths : Float64s] \cup [type : {"numeral"}, n : Int]
      \cup [type : {"decimal"}, unscaled : Int, scale : Int]
      \cup [type : {"text", "blob"}, s : Seq(Bytes)] \cup [type : {"uuid"}, s : [1..16 -> Bytes]]
      \cup IF kind = "timestamp" THEN [type : {"instant"}, sec : Int64, nsec : Below(Lesser(Billion, Power(Byte, 4)))]
           ELSE [type : {"calendar"}, year : Int, month : 1..12, day : 1..31,
                 secs : Below(Day), nsec : Below(Billion)]

\* What is formatted is not empty and, being UTF-8, does not begin with 0x80;
\* bytes are formatted as a list of numbers.
ASSUME ValuesAssumption ==
    \A len \in 1..MaxCols :
        /\ DOMAIN Values[len] \subseteq Kinds
        /\ \A kind \in DOMAIN Values[len] : \A v \in Values[len][kind] :
              /\ v \in UserValues(kind)
              /\ v.type # "text" => /\ Format(v) \in Seq(Bytes) /\ Format(v) # <<>>
                                    /\ Format(v)[1] # SignBit
              /\ v.type = "blob" => Format(v) # v.s

VARIABLES phase,      \* "build", "failed", "built" or "read"
          cols,       \* the columns' kinds
          precision,  \* and the precision of the TIME and DATETIME ones
          vals,       \* the values encoded so far
          valueArea,  \* their bytes
          offsets,    \* the end offset of each element
          out,        \* the tuple: header, offset table, value area
          read        \* what the reader makes of each element

vars == <<phase, cols, precision, vals, valueArea, offsets, out, read>>

Init == /\ phase = "build"
        /\ \E len \in 1..MaxCols : cols \in [1..len -> DOMAIN Values[len]]
        /\ precision \in IF \E i \in DOMAIN cols : cols[i] \in {"time", "datetime"}
                         THEN Precisions ELSE {0}
        /\ vals = <<>>
        /\ valueArea = <<>>
        /\ offsets = <<>>
        /\ out = <<>>
        /\ read = <<>>

-----------------------------------------------------------------------------
(* Encoding one value: appendBinaryTupleValue                              *)

Ok(bytes) == [ok |-> TRUE, bytes |-> bytes]
Error     == [ok |-> FALSE, bytes |-> <<>>]

\* The widths putBinaryTupleInt tries.
Widths(kind) == CASE kind = "int8"  -> <<1>>
                  [] kind = "int16" -> <<1, 2>>
                  [] kind = "int32" -> <<1, 2, 4>>
                  [] kind = "int64" -> <<2, 4, 8>>

\* Fault: an integer that fits no width is cut to the widest.
putIntTruncating(kind, n) ==
    LET w == Widths(kind)
        fitting == {i \in DOMAIN w : Fits(n, w[i]) \/ i = Len(w)}
        first == CHOOSE i \in fitting : \A j \in fitting : i <= j
    IN  Ok(LittleEndian(n, w[first]))

putBinaryTupleInt(kind, n) ==
    LET w == Widths(kind)
        fitting == {i \in DOMAIN w : Fits(n, w[i])}
        first == CHOOSE i \in fitting : \A j \in fitting : i <= j
    IN  IF fitting = {} THEN Error ELSE Ok(LittleEndian(n, w[first]))

\* int64(v): an unsigned value wraps around, a float loses its fraction; one
\* beyond the range becomes the least int64 (on amd64).
Whole(tenths) == IF tenths < 0 THEN -((-tenths) \div 10) ELSE tenths \div 10

toInt64(v) ==
    LET all == Power(Byte, 8)
        half == all \div 2
    IN  IF v.type # "float" THEN ((v.n + half) % all) - half
        ELSE IF Fits(Whole(v.tenths), 8) THEN Whole(v.tenths) ELSE -half

\* A conversion takes the nearest number there is (one of two as near).
Distance(s, t) == IF s < t THEN t - s ELSE s - t
Nearest(S, t) == CHOOSE s \in S : \A r \in S : Distance(s, t) <= Distance(r, t)

toFloat64(v) == IF v.type = "float" THEN v.tenths ELSE Nearest(Float64s, 10 * v.n)
float32(f) == Nearest(Float32s, f)

\* A double that is a float32 is written as one.
floatBytes(kind, f) == IF kind = "float" \/ float32(f) = f THEN Float32bits[float32(f)]
                       ELSE Float64bits[f]

\* Fault: redundant leading bytes are kept.
twosComplementUntrimmed(v) ==
    IF v >= 0
    THEN LET b == BigBytes(v)
         IN  IF b = <<>> THEN <<0>> ELSE IF b[1] >= SignBit THEN <<0>> \o b ELSE b
    ELSE BigBytes(Power(Byte, (BitLen(-v) + ByteBits) \div ByteBits) + v)

\* The shortest two's-complement form: for a negative number one byte more
\* than the magnitude may need, then without the redundant leading bytes.
Redundant(b, i) == b[i] = Byte - 1 /\ b[i + 1] >= SignBit

twosComplementBytes(v) ==
    IF v >= 0
    THEN LET b == BigBytes(v)
         IN  IF b = <<>> THEN <<0>> ELSE IF b[1] >= SignBit THEN <<0>> \o b ELSE b
    ELSE LET length == (BitLen(-v) + ByteBits) \div ByteBits
             b == BigBytes(Power(Byte, length) + v)
             drop == CHOOSE d \in 0..(Len(b) - 1) :
                        /\ \A i \in 1..d : Redundant(b, i)
                        /\ d = Len(b) - 1 \/ ~Redundant(b, d + 1)
             trimmed == SubSeq(b, drop + 1, Len(b))
         IN  IF trimmed[1] < SignBit THEN <<Byte - 1>> \o trimmed ELSE trimmed

\* A Decimal keeps its own scale, a numeral is scaled to the column's; an
\* integer is taken for the unscaled value and any other string for zero.
toDecimal(v) ==
    CASE v.type = "decimal" -> v
      [] v.type = "numeral" -> [type |-> "decimal", unscaled |-> v.n * Power(10, Scale), scale |-> Scale]
      [] v.type = "float"   -> [type |-> "decimal", unscaled |-> v.tenths * Power(10, Scale - 1),
                                scale |-> Scale]
      [] v.type = "int"     -> [type |-> "decimal", unscaled |-> v.n, scale |-> Scale]
      [] v.type = "text"    -> [type |-> "decimal", unscaled |-> 0, scale |-> Scale]

Types == {"bool", "int", "uint", "float", "decimal", "numeral", "text", "blob", "uuid",
          "instant", "calendar"}

\* The types each kind's conversion accepts; the others are an error.
Accepted(kind) ==
    CASE kind = "boolean" -> {"bool", "text", "numeral", "int", "float"}
      [] kind \in {"int8", "int16", "int32", "int64"} -> {"int", "uint", "float"}
      [] kind \in {"float", "double"} -> {"int", "float"}
      [] kind = "decimal" -> {"decimal", "numeral", "int", "float", "text"}
      [] kind = "timestamp" -> {"instant"}
      [] kind \in {"date", "time", "datetime"} -> {"calendar"}
      [] kind = "uuid" -> {"uuid"}
      [] kind = "bytes" -> {"text", "blob", "numeral"}
      [] OTHER -> Types

toBool(v) == CASE v.type = "bool" -> v.b
               [] v.type = "int" -> v.n # 0
               [] v.type = "float" -> v.tenths # 0
               [] v.type = "numeral" -> v.n = 1
               [] OTHER -> FALSE     \* a string other than "true" and "1"

\* A string that is empty is a single 0x80.
MarkedEmpty(s) == IF s = <<>> THEN <<SignBit>> ELSE s

\* Fault: an empty value is left empty.
MarkedLeading(s) == IF s # <<>> /\ s[1] = SignBit THEN <<SignBit>> \o s ELSE s

\* Empty bytes are a single 0x80; bytes that begin with 0x80 get another one.
Marked(s) == IF s = <<>> \/ s[1] = SignBit THEN <<SignBit>> \o s ELSE s

\* What is not a string is formatted for a string column, bytes too.
stringOf(v) == IF v.type = "text" THEN v.s ELSE Format(v)
bytesOf(v)  == IF v.type = "numeral" THEN Format(v) ELSE v.s

appendBinaryTupleValue(kind, v) ==
    IF v = Nil THEN Ok(<<>>)
    ELSE IF v.type \notin Accepted(kind) THEN Error
    ELSE CASE kind = "null" -> Ok(<<>>)
           [] kind = "boolean" -> Ok(IF toBool(v) THEN <<1>> ELSE <<0>>)
           [] kind \in {"int8", "int16", "int32", "int64"} -> putBinaryTupleInt(kind, toInt64(v))
           [] kind \in {"float", "double"} ->
                Ok(floatBytes(kind, toFloat64(v)))
           [] kind = "decimal" -> Ok(LittleEndian(toDecimal(v).scale, 2)
                                       \o twosComplementBytes(toDecimal(v).unscaled))
           [] kind = "timestamp" -> Ok(LittleEndian(v.sec, 8)
                                       \o IF v.nsec # 0 THEN LittleEndian(v.nsec, 4) ELSE <<>>)
           [] kind \in {"date", "datetime"} /\ ~DateInRange(v) -> Error
           [] kind = "date" /\ DateInRange(v) -> Ok(ToBytes(encodeDate(v)))
           [] kind = "time" -> Ok(ToBytes(encodeTime(v)))
           [] kind = "datetime" /\ DateInRange(v) -> Ok(ToBytes(encodeDate(v) \o encodeTime(v)))
           [] kind = "uuid" -> Ok(v.s)
           [] kind = "string" -> Ok(MarkedEmpty(stringOf(v)))
           [] kind = "bytes" -> Ok(Marked(bytesOf(v)))

-----------------------------------------------------------------------------
(* The tuple: BuildBinaryTuple                                             *)

\* The loop over the columns: the value of the next one.
AppendValue ==
    /\ phase = "build" /\ Len(vals) < Len(cols)
    /\ \E v \in Values[Len(cols)][cols[Len(vals) + 1]] :
          LET e == appendBinaryTupleValue(cols[Len(vals) + 1], v)
          IN  \/ /\ e.ok
                 /\ vals' = Append(vals, v)
                 /\ valueArea' = valueArea \o e.bytes
                 /\ offsets' = Append(offsets, Len(valueArea \o e.bytes))
                 /\ UNCHANGED phase
              \/ /\ ~e.ok
                 /\ phase' = "failed"
                 /\ UNCHANGED <<vals, valueArea, offsets>>
    /\ UNCHANGED <<cols, precision, out, read>>

\* Fault: an offset of 0x100 in one byte.
EntrySizeOffByOne(len) == CASE len <= Byte -> 1
                            [] len > Byte /\ len <= Power(Byte, 2) - 1 -> 2
                            [] len > Power(Byte, 2) - 1 /\ len <= Power(Byte, 4) \div 2 - 1 -> 4
                            [] OTHER -> 0

\* The width of an offset; 0 when the value area is too big.
EntrySize(len) == CASE len <= Byte - 1 -> 1
                    [] len > Byte - 1 /\ len <= Power(Byte, 2) - 1 -> 2
                    [] len > Power(Byte, 2) - 1 /\ len <= Power(Byte, 4) \div 2 - 1 -> 4
                    [] OTHER -> 0

\* Fault: the widest offsets are given by their size, not its logarithm.
HeaderIsSize(size) == CASE size = 1 -> 0 [] size = 2 -> 1 [] OTHER -> size

Header(size) == CASE size = 1 -> 0 [] size = 2 -> 1 [] OTHER -> 2

OffsetTable(size) ==
    [i \in 1..(Len(offsets) * size) |->
        LittleEndian(offsets[((i - 1) \div size) + 1], size)[((i - 1) % size) + 1]]

Build ==
    /\ phase = "build" /\ Len(vals) = Len(cols)
    /\ LET size == EntrySize(Len(valueArea))
       IN  IF size = 0 THEN phase' = "failed" /\ UNCHANGED out
           ELSE /\ phase' = "built"
                /\ out' = <<Header(size)>> \o OffsetTable(size) \o valueArea
    /\ UNCHANGED <<cols, precision, vals, valueArea, offsets, read>>

-----------------------------------------------------------------------------
(* Taking it apart: NewTupleFromByteArrayWithMetadata, GetValue            *)

EntrySizeOf(header) == CASE header = 3 -> 8 [] header = 0 -> 1 [] OTHER -> 2 * header

\* Fault: offsets are read big-endian.
entryOffsetBigEndian(i, size) ==
    IF i = 0 THEN 0 ELSE Unsigned(SubSeq(out, 2 + (i - 1) * size, 1 + i * size))

entryOffset(i, size) ==
    IF i = 0 THEN 0
    ELSE Unsigned(Reversed(SubSeq(out, 2 + (i - 1) * size, 1 + i * size)))

\* Element i; the last one ends where the tuple ends.
Element(i) ==
    LET size == EntrySizeOf(out[1])
        valueBase == 1 + Len(cols) * size
        end == IF i = Len(cols) THEN Len(out) - valueBase ELSE entryOffset(i, size)
    IN  SubSeq(out, valueBase + entryOffset(i - 1, size) + 1, valueBase + end)

\* The leading 0x80 of a string or of bytes is dropped.
Unmarked(raw) == IF raw # <<>> /\ raw[1] = SignBit THEN Tail(raw) ELSE raw

\* expandDoubleValue: by the length.
floatOf(raw) == IF Len(raw) = 4 THEN CHOOSE t \in Float32s : Float32bits[t] = raw
                ELSE CHOOSE t \in Float64s : Float64bits[t] = raw

\* The zero time.Time has the date January 1, year 1.
Calendar(date, time) ==
    [type |-> "calendar", year |-> date.year, month |-> date.month, day |-> date.day,
     secs |-> time.secs, nsec |-> time.nsec]
NoDate == [year |-> 1, month |-> 1, day |-> 1]
NoTime == [secs |-> 0, nsec |-> 0]

\* The time is added to the date field by field, without a carry into the day.
DateTime(bits, p) ==
    LET time == decodeTime(bits, p)
    IN  Calendar(decodeDate(bits), [time EXCEPT !.secs = @ % Day])

\* An element, by its kind and the precision p of its column.  One of length
\* zero is NULL, after the marker has been dropped.  A timestamp is read with
\* its nanoseconds, which slices beyond the end of one that has none.
GetValue(kind, p, raw) ==
    LET value == IF kind \in {"string", "bytes"} THEN Unmarked(raw) ELSE raw
    IN  IF value = <<>> THEN Nil
        ELSE CASE kind = "null" -> Nil
               [] kind = "boolean" -> [type |-> "bool", b |-> value[1] # 0]
               [] kind \in {"int8", "int16", "int32", "int64"} ->
                    [type |-> "int", n |-> Signed(Reversed(value))]
               [] kind = "decimal" ->
                    [type |-> "decimal", unscaled |-> Signed(SubSeq(value, 3, Len(value))),
                     scale |-> Signed(Reversed(SubSeq(value, 1, 2)))]
               [] kind = "timestamp" ->
                    IF Len(value) < 12 THEN Panic
                    ELSE [type |-> "instant", sec |-> Signed(Reversed(SubSeq(value, 1, 8))),
                          nsec |-> Unsigned(Reversed(SubSeq(value, 9, 12)))]
               [] kind \in {"float", "double"} ->
                    [type |-> "float", tenths |-> floatOf(value)]
               [] kind = "date" -> Calendar(decodeDate(ToBits(value)), NoTime)
               [] kind \in {"time", "datetime"} /\ p \notin DOMAIN FractionBits -> Failed
               [] kind = "time" /\ p \in DOMAIN FractionBits ->
                    Calendar(NoDate, decodeTime(ToBits(value), p))
               [] kind = "datetime" /\ p \in DOMAIN FractionBits -> DateTime(ToBits(value), p)
               [] kind = "uuid" -> [type |-> "uuid", s |-> Flip(value)]
               [] kind \in {"string", "bytes"} -> [type |-> "text", s |-> value]

\* rows.Next asserts the type of what it converts to a string.
NextValue(kind, p, raw) ==
    LET value == GetValue(kind, p, raw)
    IN  IF kind \in {"decimal", "timestamp", "datetime", "uuid"} /\ value = Nil THEN Panic ELSE value

\* The server returns an element as it is, but encodes a time for its column.
FromServer(kind, p, raw) ==
    IF kind \notin {"time", "datetime"} \/ raw = <<>> THEN raw
    ELSE LET bits == ToBits(raw)
             date == Len(bits) - 48
         IN  ToBytes(SubSeq(bits, 1, date) \o Returned(SubSeq(bits, date + 1, date + 48), p))

ReadBack ==
    /\ phase = "built"
    /\ phase' = "read"
    /\ read' = [i \in DOMAIN cols |-> NextValue(cols[i], precision, FromServer(cols[i], precision, Element(i)))]
    /\ UNCHANGED <<cols, precision, vals, valueArea, offsets, out>>

-----------------------------------------------------------------------------

Next == \/ AppendValue
        \/ Build
        \/ ReadBack

Spec == Init /\ [][Next]_vars

-----------------------------------------------------------------------------
(* Properties                                                              *)

\* What a value is once it is in its column.
Meaning(kind, p, v) ==
    CASE v = Nil -> Nil
      [] v # Nil /\ kind = "decimal" /\ v.type \in {"numeral", "int"} ->
            [type |-> "decimal", unscaled |-> v.n * Power(10, Scale), scale |-> Scale]
      [] v # Nil /\ kind = "decimal" /\ v.type = "float" ->
            [type |-> "decimal", unscaled |-> v.tenths * Power(10, Scale - 1), scale |-> Scale]
      [] v # Nil /\ kind \in {"float", "double"} /\ v.type = "int" ->
            [type |-> "float", tenths |-> 10 * v.n]
      [] v # Nil /\ kind = "boolean" /\ v.type \in {"numeral", "int"} ->
            [type |-> "bool", b |-> v.n # 0]
      [] v # Nil /\ kind = "boolean" /\ v.type = "float" -> [type |-> "bool", b |-> v.tenths # 0]
      [] v # Nil /\ kind \in {"string", "bytes"} /\ v.type = "blob" -> [type |-> "text", s |-> v.s]
      [] v # Nil /\ kind \in {"string", "bytes"} /\ v.type \notin {"text", "blob"} ->
            [type |-> "text", s |-> Format(v)]
      [] v # Nil /\ kind = "date" -> Calendar(v, NoTime)
      [] v # Nil /\ kind = "time" -> Calendar(NoDate, [v EXCEPT !.nsec = Truncated(@, p)])
      [] v # Nil /\ kind = "datetime" -> [v EXCEPT !.nsec = Truncated(@, p)]
      [] v # Nil /\ kind \in {"int8", "int16", "int32", "int64"} /\ v.type = "uint" -> [type |-> "int", n |-> v.n]
      [] v # Nil /\ kind \in {"int8", "int16", "int32", "int64"} /\ v.type = "float"
         /\ v.tenths % 10 = 0 -> [type |-> "int", n |-> v.tenths \div 10]
      [] OTHER -> v

\* Everything has its type; the bytes are bytes.
TypeOK ==
    /\ phase \in {"build", "failed", "built", "read"}
    /\ Len(cols) \in 1..MaxCols /\ \A i \in DOMAIN cols : cols[i] \in Kinds
    /\ Len(vals) <= Len(cols)
    /\ \A i \in DOMAIN valueArea : valueArea[i] \in Bytes
    /\ \A i \in DOMAIN offsets : offsets[i] \in Nat
    /\ \A i \in DOMAIN out : out[i] \in Bytes

\* The elements cover the value area without gap or overlap, each beginning
\* where the one before it ends, whatever the width of the offset table
\* (binary-tuple.go:17-27).
OffsetsDelimitElements ==
    /\ Len(offsets) = Len(vals)
    /\ \A i \in 1..(Len(offsets) - 1) : offsets[i] <= offsets[i + 1]
    /\ offsets # <<>> => offsets[Len(offsets)] = Len(valueArea)
    /\ phase = "built" => \A i \in DOMAIN cols : entryOffset(i, EntrySizeOf(out[1])) = offsets[i]

\* "Zero length" is "an unambiguous NULL marker" (binary-tuple.go:29-31): an
\* element of a column with a type is empty exactly when the value is nil.
OnlyNullIsEmpty ==
    phase = "built" => \A i \in DOMAIN cols :
        cols[i] # "null" => (Element(i) = <<>> <=> vals[i] = Nil)

\* The values the encoder accepts although it cannot keep them: any in a
\* column of an unknown type, a string that is no number or no Boolean, bytes
\* in a string column (they are formatted), the fraction of a float in an
\* integer column, a float or an unsigned integer beyond the signed range, a
\* scale of more than 16 bits (binary-tuple.go:416-442, 462-494).
Dropped(kind, v) ==
    /\ v # Nil
    /\ \/ kind = "null"
       \/ kind = "string" /\ v.type = "blob"
       \/ kind = "decimal" /\ v.type = "text"
       \/ kind = "decimal" /\ v.type = "decimal" /\ ~Fits(v.scale, 2)
       \/ kind = "boolean" /\ (v.type = "text" \/ (v.type = "numeral" /\ v.n \notin {0, 1}))
       \/ /\ kind \in {"int8", "int16", "int32", "int64"}
          /\ \/ v.type = "float" /\ (v.tenths % 10 # 0 \/ ~Fits(v.tenths \div 10, 8))
             \/ v.type = "uint" /\ ~Fits(v.n, 8)

\* The values of which nothing is claimed, since the code does with them what
\* src/README.md denies: the Dropped ones (line 242: "not silently dropped") and the
\* NULLs on which rows.Next panics (line 259: read back as NULL; see
\* NullsReadBack).
LeftOut(kind, v) ==
    \/ Dropped(kind, v)
    \/ v = Nil /\ kind \in {"decimal", "datetime", "timestamp", "uuid"}

\* What does not survive the way back: a timestamp without nanoseconds
\* (rows.Next panics on it), an empty string (read as NULL), one that begins
\* with 0x80, an integer in a column with a scale (taken for the unscaled
\* value), a number that is none of the column's floats, a year before 0, a
\* UUID (its halves are reversed on the way back only), a time of nanosecond
\* precision or of one that decodeTime does not know.
Exceptional(kind, p, v) ==
    \/ v # Nil /\ kind = "timestamp" /\ v.nsec = 0
    \/ v # Nil /\ kind \in {"string", "bytes"} /\ v.type \in {"text", "blob"} /\ v.s = <<>>
    \/ v # Nil /\ kind = "string" /\ v.type = "text" /\ v.s # <<>> /\ v.s[1] = SignBit
    \/ v # Nil /\ kind = "decimal" /\ v.type = "int" /\ v.n # 0 /\ Scale # 0
    \/ /\ v # Nil /\ kind \in {"float", "double"}
       /\ (IF v.type = "int" THEN 10 * v.n ELSE v.tenths)
             \notin IF kind = "float" THEN Float32s ELSE Float64s
    \/ v # Nil /\ kind \in {"date", "datetime"} /\ v.year < 0
    \/ v # Nil /\ kind = "uuid" /\ v.s # Flip(v.s)
    \/ /\ v # Nil /\ kind \in {"time", "datetime"}
       /\ p \notin DOMAIN FractionBits \/ (p = 12 /\ v.nsec # 0)

\* A row that has been written is read back with the same values, through
\* every width of integer, decimal and offset and whatever its neighbours are,
\* the exceptional values excepted and no others.  The values LeftOut are left
\* out of the claim, not out of the rows.
ReadsBackTheSame ==
    phase = "read" => \A i \in DOMAIN cols :
        ~LeftOut(cols[i], vals[i]) =>
            (read[i] = Meaning(cols[i], precision, vals[i]) <=> ~Exceptional(cols[i], precision, vals[i]))

\* "NULLs of every type read back as NULL" (src/README.md:259): they do not, since
\* rows.Next asserts the type of what it turns into a string (rows.go:122-126).
NullsReadBack == phase = "read" => \A i \in DOMAIN cols : vals[i] = Nil => read[i] = Nil

\* The unscaled value is the shortest two's-complement form, "equivalent to
\* java.math.BigInteger#toByteArray" (binary-tuple.go:366): a key written
\* twice has the same bytes as the server's own encoding of it.
DecimalsAreMinimal ==
    phase = "built" => \A i \in DOMAIN cols :
        cols[i] = "decimal" /\ vals[i] # Nil =>
            LET b == SubSeq(Element(i), 3, Len(Element(i)))
            IN  /\ b # <<>>
                /\ Len(b) > 1 => ~(b[1] = 0 /\ b[2] < SignBit) /\ ~Redundant(b, 1)

\* An integer, or a number given as an unsigned integer or a float, that is
\* accepted for an integer column fits the column and arrives in it whole,
\* whichever of the widths putBinaryTupleInt finds for it
\* (binary-tuple.go:303-346); what it accepts and does not keep is Dropped.
NoIntegerIsTruncated ==
    \A i \in DOMAIN vals :
        cols[i] \in {"int8", "int16", "int32", "int64"} /\ vals[i] # Nil /\ ~Dropped(cols[i], vals[i]) =>
            LET n == IF vals[i].type = "float" THEN vals[i].tenths \div 10 ELSE vals[i].n
                width == CASE cols[i] = "int8" -> 1 [] cols[i] = "int16" -> 2
                           [] cols[i] = "int32" -> 4 [] cols[i] = "int64" -> 8
            IN  /\ Fits(n, width)
                /\ phase \in {"built", "read"} => Signed(Reversed(Element(i))) = n
=============================================================================
