--------------------------- MODULE ArgumentTuple ---------------------------
(***************************************************************************)
(* The arguments of an SQL statement (QuerySQL, QuerySQLFieldsRaw): they are *)
(* added to a Tuple one after the other and written as one tuple, in which  *)
(* every argument has three elements: its type, its scale and its value     *)
(* (tuple.go: AddValue, the setters, Bytes).  The server's reading of the   *)
(* three is external.                                                       *)
(***************************************************************************)
EXTENDS ByteString, Temporal

CONSTANTS MaxArgs,    \* bound: arguments of a statement
          Arguments   \* the values users pass

VARIABLES args,      \* the arguments added so far
          values,    \* the Tuple's values: [type, scale, value]
          payload,   \* what Bytes has returned; <<>> before
          refused    \* AddValue has returned an error, and the statement with it

vars == <<args, values, payload, refused>>

Nil == [type |-> "nil"]

Init == args = <<>> /\ values = <<>> /\ payload = <<>> /\ refused = FALSE

-----------------------------------------------------------------------------
(* AddValue                                                                *)

\* The type ids of types.go.
TypeId(type) == CASE type = "nil" -> 0 [] type = "bool" -> 1
                  [] type \in {"int8", "byte"} -> 2 [] type = "int16" -> 3
                  [] type = "int32" -> 4 [] type = "int64" -> 5 [] type = "float32" -> 6
                  [] type = "float64" -> 7 [] type = "decimal" -> 8 [] type = "date" -> 9
                  [] type = "time" -> 10 [] type = "datetime" -> 11 [] type = "timestamp" -> 12
                  [] type = "uuid" -> 13 [] type = "string" -> 15 [] type = "bytes" -> 16

\* The narrowest of 1, 2, 4 and 8 bytes.
encodeIntLe(v) == LittleEndian(v, CASE Fits(v, 1) -> 1
                                    [] ~Fits(v, 1) /\ Fits(v, 2) -> 2
                                    [] ~Fits(v, 2) /\ Fits(v, 4) -> 4
                                    [] OTHER -> 8)

\* For a negative number as many bytes as its magnitude has, of which Bytes()
\* drops leading zeros.
encodeDecimalUnscaled(n) ==
    IF n = 0 THEN <<0>>
    ELSE IF n > 0
    THEN IF BigBytes(n)[1] >= SignBit THEN <<0>> \o BigBytes(n) ELSE BigBytes(n)
    ELSE LET bytes == (BitLen(-n) + ByteBits - 1) \div ByteBits
             b == BigBytes(Power(Byte, bytes) + n)
         IN  IF b[1] < SignBit THEN <<Byte - 1>> \o b ELSE b

TimeBytes(v) ==
    CASE v.type = "date" -> ToBytes(encodeDate(v))
      [] v.type = "time" -> ToBytes(encodeTime(v))
      [] v.type = "datetime" -> ToBytes(encodeDate(v) \o encodeTime(v))
      [] v.type = "timestamp" -> LittleEndian(v.sec, 8) \o LittleEndian(v.nsec, 4)

\* The bits of a float stand for it as an integer.
ValueBytes(v) ==
    CASE v.type = "nil" -> <<>>
      [] v.type = "bool" -> IF v.b THEN <<1>> ELSE <<0>>
      [] v.type \in {"int8", "byte"} -> LittleEndian(v.n, 1)
      [] v.type \in {"int16", "int32", "int64"} -> encodeIntLe(v.n)
      [] v.type = "float32" -> LittleEndian(v.n, 4)
      [] v.type = "float64" -> LittleEndian(v.n, 8)
      [] v.type \in {"date", "time", "datetime", "timestamp"} -> TimeBytes(v)
      [] v.type = "uuid" -> Flip(v.s)
      [] v.type = "decimal" -> LittleEndian(v.scale, 2) \o encodeDecimalUnscaled(v.unscaled)
      [] v.type \in {"string", "bytes"} -> v.s

\* A type AddValue does not know (a time.Time, an unsigned integer), a scale
\* of more than 16 bits and a year of more than 15 are errors.
Encodable(v) == /\ v.type # "other"
                /\ v.type = "decimal" => Fits(v.scale, 2)
                /\ v.type \in {"date", "datetime"} => DateInRange(v)

\* The values of Go's types.  The bits of a float stand for it.
Interval(w) == (-(Power(Byte, w) \div 2))..((Power(Byte, w) \div 2) - 1)
IsArgument(v) ==
    \/ v \in {Nil, [type |-> "other"]}
    \/ v \in [type : {"bool"}, b : BOOLEAN]
    \/ v \in [type : {"byte"}, n : Bytes]
    \/ v \in [type : {"int8"}, n : Interval(1)]
    \/ v \in [type : {"int16"}, n : Interval(2)]
    \/ v \in [type : {"int32", "float32"}, n : Interval(4)]
    \/ v \in [type : {"int64", "float64"}, n : Int] /\ v.n \div Power(Byte, 4) \in Interval(4)
    \/ v \in [type : {"decimal"}, unscaled : Int, scale : Int]
    \/ v \in [type : {"date"}, year : Int, month : 1..12, day : 1..31]
    \/ v \in [type : {"time"}, secs : 0..(Day - 1), nsec : 0..(Billion - 1)]
    \/ v \in [type : {"datetime"}, year : Int, month : 1..12, day : 1..31,
               secs : 0..(Day - 1), nsec : 0..(Billion - 1)]
    \/ v \in [type : {"timestamp"}, sec : Int, nsec : 0..(Billion - 1)]
         /\ v.nsec \in Interval(4) /\ v.sec \div Power(Byte, 4) \in Interval(4)
    \/ v \in [type : {"uuid"}, s : [1..16 -> Bytes]]
    \/ v \in [type : {"string", "bytes"}, s : Seq(Bytes)]

\* A statement's bytes can be counted with 8 bytes: the length of a slice is
\* an int.
ASSUME ArgumentsAssumption ==
    /\ MaxArgs \in Nat \ {0}
    /\ \A v \in Arguments : IsArgument(v)
    /\ \A v \in Arguments : Encodable(v) =>
          (MaxArgs * (Len(ValueBytes(v)) + 3)) \div Power(Byte, 4) < Power(Byte, 4) - 1

CanAdd == payload = <<>> /\ ~refused /\ Len(args) < MaxArgs

typeScaleValue(v) == [type |-> TypeId(v.type),
                      scale |-> IF v.type = "decimal" THEN v.scale ELSE 0,
                      value |-> ValueBytes(v)]

AddValue(v) ==
    /\ CanAdd /\ Encodable(v)
    /\ args' = Append(args, v)
    /\ values' = Append(values, typeScaleValue(v))
    /\ UNCHANGED <<payload, refused>>

\* The statement is not sent.
AddValueFails(v) == /\ CanAdd /\ ~Encodable(v)
                    /\ refused' = TRUE
                    /\ UNCHANGED <<args, values, payload>>

-----------------------------------------------------------------------------
(* Bytes                                                                   *)

ScaleLength(scale) == IF scale < Byte - 1 THEN 1 ELSE 2

\* Fault: the scale is not counted.
LengthWithoutScale(t) == IF t.type = 0 THEN 0 ELSE 1 + Len(t.value)

\* typeScaleValue.getLength: a NULL is not counted.
Length(t) == IF t.type = 0 THEN 0 ELSE 1 + ScaleLength(t.scale) + Len(t.value)

\* The bytes before the i-th argument, as Bytes counts them.
Start(i) == LET before[k \in 0..Len(values)] ==
                    IF k = 0 THEN 0 ELSE before[k - 1] + Length(values[k])
            IN  before[i - 1]

EntrySize(total) == IF total < Byte - 1 THEN 1 ELSE IF total < Power(Byte, 2) - 1 THEN 2
                    ELSE IF total < Power(Byte, 4) - 1 THEN 4 ELSE 8
toHeader(size) == IF size = 8 THEN 3 ELSE size \div 2

Concat(parts) == LET upTo[k \in 0..Len(parts)] == IF k = 0 THEN <<>> ELSE upTo[k - 1] \o parts[k]
                 IN  upTo[Len(parts)]

\* Three end offsets: of the type, of the scale and of the value.
Offsets(i, size) == LET start == Start(i)
                    IN  LittleEndian(start + 1, size) \o LittleEndian(start + 2, size)
                          \o LittleEndian(start + Length(values[i]), size)

\* The type, the scale and the value, of a NULL too.
Triple(t) == <<t.type>> \o LittleEndian(t.scale, ScaleLength(t.scale)) \o t.value

TupleBytes ==
    LET size == EntrySize(Start(Len(values)) + Length(values[Len(values)]))
    IN  <<toHeader(size)>> \o Concat([i \in DOMAIN values |-> Offsets(i, size)])
          \o Concat([i \in DOMAIN values |-> Triple(values[i])])

WriteBytes ==
    /\ payload = <<>> /\ args # <<>> /\ ~refused
    /\ payload' = TupleBytes
    /\ UNCHANGED <<args, values, refused>>

Next == \/ \E v \in Arguments : AddValue(v) \/ AddValueFails(v)
        \/ WriteBytes

Spec == Init /\ [][Next]_vars

-----------------------------------------------------------------------------
(* The server (external)                                                   *)

SizeOf(header) == <<1, 2, 4, 8>>[header + 1]

OffsetAt(e) == IF e = 0 THEN 0
               ELSE LET size == SizeOf(payload[1])
                    IN  Unsigned(Reversed(SubSeq(payload, 2 + (e - 1) * size, 1 + e * size)))

ElementAt(e) == LET base == 1 + 3 * Len(args) * SizeOf(payload[1])
                IN  SubSeq(payload, base + OffsetAt(e - 1) + 1, base + OffsetAt(e))

Unmarked(raw) == IF raw[1] = SignBit THEN Tail(raw) ELSE raw

\* A year has a sign.  A time of six bytes has nanoseconds.
YearOf(bits)  == Field(bits, 9, 15) - 32768 * bits[24]
MonthOf(bits) == Field(bits, 5, 4)
DayOf(bits)   == Field(bits, 0, 5)
SecsOf(bits)  == Field(bits, 30, 6) + 60 * Field(bits, 36, 6) + Hour * Field(bits, 42, 5)
NsecOf(bits)  == Field(bits, 0, 30)

\* A value, by its type.
Decoded(id, raw) ==
    CASE id = TypeId("bool") -> [type |-> "bool", b |-> raw[1] # 0]
      [] id \in 2..7 ->
           [type |-> <<"int8", "int16", "int32", "int64", "float32", "float64">>[id - 1],
            n |-> Signed(Reversed(raw))]
      [] id = TypeId("date") ->
           LET bits == ToBits(raw)
           IN  [type |-> "date", year |-> YearOf(bits), month |-> MonthOf(bits),
                day |-> DayOf(bits)]
      [] id = TypeId("time") ->
           [type |-> "time", secs |-> SecsOf(ToBits(raw)), nsec |-> NsecOf(ToBits(raw))]
      [] id = TypeId("datetime") ->
           LET bits == ToBits(raw)
               time == SubSeq(bits, 25, 72)
           IN  [type |-> "datetime", year |-> YearOf(bits), month |-> MonthOf(bits),
                day |-> DayOf(bits), secs |-> SecsOf(time), nsec |-> NsecOf(time)]
      [] id = TypeId("timestamp") ->
           [type |-> "timestamp", sec |-> Signed(Reversed(SubSeq(raw, 1, 8))),
            nsec |-> Signed(Reversed(SubSeq(raw, 9, 12)))]
      [] id = TypeId("uuid") -> [type |-> "uuid", s |-> Flip(raw)]
      [] id = TypeId("decimal") ->
           [type |-> "decimal", unscaled |-> Signed(SubSeq(raw, 3, Len(raw))),
            scale |-> Signed(Reversed(SubSeq(raw, 1, 2)))]
      [] id = TypeId("string") -> [type |-> "string", s |-> Unmarked(raw)]
      [] id = TypeId("bytes") -> [type |-> "bytes", s |-> Unmarked(raw)]
      [] OTHER -> [type |-> "unknown"]

\* An argument: elements of no bytes are NULL.
Received(i) == LET type == ElementAt(3 * i - 2)
                   raw == ElementAt(3 * i)
               IN  IF type = <<>> \/ raw = <<>> THEN Nil ELSE Decoded(type[1], raw)

-----------------------------------------------------------------------------
(* Properties                                                              *)

\* A negative decimal whose two's complement begins with a zero byte, which
\* big.Int.Bytes leaves out (tuple.go:736): the server takes it for another
\* number, where the comment at tuple.go:716-717 has "a signed minimal-length
\* sequence the server interprets correctly".  Nothing is claimed of it.
Miswritten(v) ==
    v.type = "decimal" /\ v.unscaled < 0
      /\ LET k == Width(-v.unscaled, Byte)
         IN  -v.unscaled > Power(Byte, k) - Power(Byte, k - 1)

\* Values that are not read as they are passed: a Go byte beyond the range of
\* a TINYINT, which has a sign; a string that is empty or begins with 0x80,
\* for want of the marker; a decimal whose scale needs two bytes, of which the
\* offsets have one.
Changed(v) ==
    \/ v.type = "byte" /\ v.n >= SignBit
    \/ v.type \in {"string", "bytes"} /\ (v.s = <<>> \/ v.s[1] = SignBit)
    \/ v.type = "decimal" /\ v.scale >= Byte - 1

\* Arguments that change on the way: these; the one after a NULL, which is
\* written but not counted; and a NULL whose second offset, not counted
\* either, is the first that its width cannot hold.
Exceptional(i) ==
    \/ Changed(args[i])
    \/ args[i] # Nil /\ \E j \in 1..(i - 1) : args[j] = Nil
    \/ args[i] = Nil /\ Start(i) + 2 = Power(Byte, SizeOf(payload[1]))

\* From the second value after a NULL on, the offsets lead to bytes of the
\* arguments before, which may by accident be the right ones.
Astray(i) == /\ args[i] # Nil
             /\ \E j, k \in 1..(i - 1) : j < k /\ args[j] = Nil /\ args[k] # Nil

\* A Go byte is passed as a TINYINT.
Sent(v) == IF v.type = "byte" THEN [type |-> "int8", n |-> v.n] ELSE v

\* The server finds every argument where the offset table says, of the type
\* and with the value that the user has passed, the exceptional ones excepted
\* and no others, as far as the offsets are not astray and the argument itself
\* is not one of those that are Miswritten; a statement with an argument that
\* is refused is not sent.
ArgumentsArrive ==
    payload # <<>> =>
        /\ ~refused
        /\ \A i \in DOMAIN args : ~Astray(i) /\ ~Miswritten(args[i]) =>
             (Received(i) = Sent(args[i]) <=> ~Exceptional(i))
=============================================================================
