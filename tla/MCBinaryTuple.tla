--------------------------- MODULE MCBinaryTuple ---------------------------
(***************************************************************************)
(* BinaryTuple for TLC, with bytes of two bits: a BIGINT has 16 bits and an *)
(* offset table entry one, two or four bytes for a value area of up to 3,   *)
(* 15 or 127 bytes.                                                         *)
(***************************************************************************)
EXTENDS BinaryTuple, FiniteSets

Ints(S)     == {[type |-> "int", n |-> n] : n \in S}
Uint(S)    == {[type |-> "uint", n |-> n] : n \in S}
Numeral(S) == {[type |-> "numeral", n |-> n] : n \in S}
Dec(S, T)  == {[type |-> "decimal", unscaled |-> u, scale |-> s] : u \in S, s \in T}
Text(S)    == {[type |-> "text", s |-> s] : s \in S}
Blob(S)    == {[type |-> "blob", s |-> s] : s \in S}
Instants(S, T) == {[type |-> "instant", sec |-> s, nsec |-> t] : s \in S, t \in T}
Floats(S)  == {[type |-> "float", tenths |-> t] : t \in S}
Uuids(S)   == {[type |-> "uuid", s |-> s] : s \in S}
Times(Y, S, T) == {[type |-> "calendar", year |-> y, month |-> m, day |-> d, secs |-> s, nsec |-> t] :
                     y \in Y, m \in {1, 12}, d \in {1, 31}, s \in S, t \in T}
Bool       == {[type |-> "bool", b |-> b] : b \in BOOLEAN}

\* The text of a value: digits of a number, brackets around bytes.
Formatted(v) == CASE v.type \in {"int", "numeral"} -> <<1, v.n % Byte>>
                  [] v.type = "blob" -> <<3>> \o v.s \o <<3>>
                  [] OTHER -> <<3, 1>>

\* A float64 is any tenth near zero, a float32 a half; the bits of a float are
\* its place among the others.
SomeFloat64s == -40..40 \cup {48, -327690, -327680, 327670, 327680}
SomeFloat32s == {t \in SomeFloat64s : t % 5 = 0}
Place(t, S) == Cardinality({s \in S : s < t})
Float64Places == [t \in SomeFloat64s |-> LittleEndian(Place(t, SomeFloat64s), 8)]
Float32Places == [t \in SomeFloat32s |-> LittleEndian(Place(t, SomeFloat32s), 4)]

Strings(n) == UNION {[1..k -> Bytes] : k \in 0..n}

\* The years at the ends of 15 bits, the seconds at the ends of their fields,
\* fractions of each precision.
Years == {-16385, -16384, -1, 0, 1, 2026, 16383, 16384}
Seconds == {0, 59, 60, 3599, 3600, 59380, 86399}
Nanos == {0, 1, 999, 1000, 999999, 1000000, 644838000, 999999999}

\* Every integer of 16 bits and beyond each narrower column, every decimal of
\* up to seven bytes, every byte string of up to five, NULL, and values of a
\* wrong type.
Exhaustive ==
    [null |-> Ints({1}) \cup Blob({<<1>>}) \cup Floats({1}) \cup {Nil},
     int8 |-> Ints(-40..40) \cup Uint({1, 65535}) \cup Floats(-31..31) \cup Text({<<1>>}) \cup {Nil},
     int16 |-> Ints(-300..300) \cup Uint(0..10) \cup {Nil},
     int32 |-> Ints(-300..300) \cup Numeral({1}) \cup {Nil},
     int64 |-> Ints(-32768..32767) \cup Uint({7, 32767, 32768, 65535}) \cup Bool
                \cup Floats({-327690, -327680, 15, 327670, 327680}) \cup {Nil},
     float |-> Floats({-5, 0, 10, 12, 25}) \cup Ints({-3, 0, 3, 5}) \cup Bool \cup {Nil},
     double |-> Floats(-40..40) \cup Ints({-3, 0, 3, 5}) \cup {Nil},
     decimal |-> Dec(-5000..5000, {0}) \cup Dec(-20..20, -8..7) \cup Dec({1}, {-9, 8})
                   \cup Numeral(-500..500) \cup Ints(-40..40) \cup Floats(-9..9) \cup Text({<<3>>})
                   \cup Uint({1}) \cup Blob({<<1>>}) \cup {Nil},
     boolean |-> Bool \cup Ints({0, 2}) \cup Floats({-5, 0}) \cup Blob({<<1>>}) \cup Numeral(0..2) \cup Text({<<3>>}) \cup {Nil},
     date |-> Times(Years, {0, 3600}, {0}) \cup {Nil},
     time |-> Times({1, 2026}, Seconds, Nanos) \cup Bool \cup {Nil},
     datetime |-> Times(Years, Seconds, Nanos) \cup {Nil},
     timestamp |-> Instants(-130..130, 0..20) \cup Text({<<1>>}) \cup {Nil},
     uuid |-> Uuids({[i \in 1..16 |-> 2], [i \in 1..16 |-> i % 4]}) \cup Text({<<1>>}) \cup {Nil},
     bytes |-> Text(Strings(2)) \cup Blob(Strings(5)) \cup Numeral({0, 2}) \cup Ints({1}) \cup {Nil},
     string |-> Text(Strings(5)) \cup Blob(Strings(2)) \cup Numeral({0, 2}) \cup Ints({1}) \cup Bool
                  \cup {Nil}]

\* Rows of several columns: boundary values, NULLs, empty strings, and enough
\* bytes for every width of the offset table and for none.
Rows ==
    [int8 |-> Ints({-2, 1}) \cup {Nil}, int64 |-> Ints({-9, 7, 200}) \cup {Nil},
     decimal |-> Dec({-33, 8}, {1}) \cup {Nil},
     bytes |-> Blob({<<>>, <<0>>, <<2>>, <<2, 2>>, <<3, 2, 1>>}) \cup {Nil},
     string |-> Text({<<1>>, [i \in 1..9 |-> 3], [i \in 1..130 |-> 3]}) \cup {Nil}]

\* One column exhaustively; two or three with the values of Rows.
ByColumns == <<Exhaustive, Rows, Rows>>
=============================================================================
