-------------------------- MODULE MCArgumentTuple --------------------------
(***************************************************************************)
(* ArgumentTuple for TLC, with bytes of six bits: enough for a type id.     *)
(***************************************************************************)
EXTENDS ArgumentTuple

Ints(T, S) == {[type |-> t, n |-> n] : t \in T, n \in S}
Dec(S, T) == {[type |-> "decimal", unscaled |-> u, scale |-> s] : u \in S, s \in T}
Str(S)    == {[type |-> "string", s |-> s] : s \in S}
Bin(S)    == {[type |-> "bytes", s |-> s] : s \in S}
Dates(Y)  == {[type |-> "date", year |-> y, month |-> 12, day |-> 31] : y \in Y}
Times(S, N) == {[type |-> "time", secs |-> s, nsec |-> n] : s \in S, n \in N}
Stamps(S) == {[type |-> "timestamp", sec |-> s, nsec |-> 7] : s \in S}
DateTimes(Y) == {[type |-> "datetime", year |-> y, month |-> 1, day |-> 1,
                  secs |-> 86399, nsec |-> 999999999] : y \in Y}
Uuids(S)  == {[type |-> "uuid", s |-> s] : s \in S}
Bool      == {[type |-> "bool", b |-> b] : b \in BOOLEAN}

\* Bytes that are also the type id of a string.
Filled(n) == [i \in 1..n |-> 15]

\* Arguments of every type: numbers on both sides of the widths, decimals on
\* both sides of the ones that change, NULL, empty strings, and values long
\* enough for offsets of one, two and four bytes.
Mixed == {Nil} \cup Bool
           \cup Ints({"int8"}, {-32}) \cup Ints({"byte"}, {31, 32})
           \cup Ints({"int16"}, {-2048}) \cup Ints({"int32", "float32", "float64"}, {5})
           \cup Ints({"int64"}, {-2049, -2048, -33, -32, 31, 32, 2047, 2048, 300000})
           \cup Dec({-4096, -4095, -4033, -4032, -65, -32, 0, 31, 32, 300000}, {-3})
           \cup Dec({-4095, 1}, {61, 62}) \cup Dec({1}, {-2049, 2047, 2048})
           \cup Dates({-16385, -16384, 2026}) \cup Times({59380, 86399}, {644838000})
           \cup DateTimes({-1, 16383, 16384}) \cup Stamps({-1, 70000})
           \cup Uuids({[i \in 1..16 |-> i]}) \cup {[type |-> "other"]}
           \cup Str({<<>>, Filled(1), Filled(60), Filled(4092)}) \cup Bin({<<3, 32>>, <<32, 3>>})
=============================================================================
