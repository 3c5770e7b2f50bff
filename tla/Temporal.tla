------------------------------ MODULE Temporal ------------------------------
(***************************************************************************)
(* The elements for DATE, TIME and DATETIME: fields of a few bits each,     *)
(* packed from the lowest bit up (tuple.go).  The bits have the code's      *)
(* widths, whatever the number of them in a byte.                           *)
(*                                                                         *)
(* A time.Time is its calendar date, the second of the day and nanoseconds. *)
(***************************************************************************)
EXTENDS Numeral

Thousand == 1000
Million == 1000000
Billion == 1000000000

Hour == 3600     \* seconds
Day  == 86400

\* A year is 15 bits signed; one that does not fit is an error.
DateInRange(v) == -16384 <= v.year /\ v.year <= 16383

encodeDate(v) == Bits(v.day, 5) \o Bits(v.month, 4) \o Bits(v.year, 15)

\* Seconds, minutes and hours.
clockBits(secs) == Bits(secs % 60, 6) \o Bits((secs \div 60) % 60, 6) \o Bits(secs \div Hour, 5)

encodeTime(v) == Bits(v.nsec, 30) \o clockBits(v.secs) \o <<0>>

\* The first three bytes.  The year's sign bit is read as any other bit.
decodeDate(bits) == [year |-> Field(bits, 9, 15), month |-> Field(bits, 5, 4),
                     day |-> Field(bits, 0, 5)]

\* The bits of the fraction, by the precision of the column; decodeTime knows
\* no other precisions.
FractionBits == [p \in {0, 6, 9, 12} |-> CASE p = 9 -> 20 [] p = 12 -> 30 [] OTHER -> 10]

\* The last four, five or six bytes.  A fraction of 30 bits is nanoseconds
\* and is read as microseconds.
decodeTime(bits, precision) ==
    LET f == FractionBits[precision]
        width == CASE f = 10 -> 32 [] f = 20 -> 40 [] f = 30 -> 48
        last == SubSeq(bits, Len(bits) - width + 1, Len(bits))
        fraction == Field(last, 0, f)
    IN  [secs |-> Field(last, f, 6) + 60 * Field(last, f + 6, 6) + Hour * Field(last, f + 12, 5)
                    + (IF f = 30 THEN fraction \div Million ELSE 0),
         nsec |-> CASE f = 10 -> fraction * Million
                    [] f = 20 -> fraction * Thousand
                    [] f = 30 -> (fraction % Million) * Thousand]

-----------------------------------------------------------------------------
(* The server (external)                                                   *)

\* What a column of this precision keeps: milliseconds, microseconds or all.
Truncated(nsec, precision) == CASE precision = 9 -> nsec - (nsec % Thousand)
                                [] precision = 12 -> nsec
                                [] OTHER -> nsec - (nsec % Million)

\* A result is encoded anew, as short as the precision of its column allows.
Returned(time, precision) ==
    LET nsec == Field(time, 0, 30)
        clock == SubSeq(time, 31, 47)
    IN  CASE precision = 9 -> Bits(nsec \div Thousand, 20) \o clock \o Bits(0, 3)
          [] precision = 12 -> time
          [] OTHER -> Bits(nsec \div Million, 10) \o clock \o Bits(0, 5)
=============================================================================
