------------------------------ MODULE Numeral ------------------------------
(***************************************************************************)
(* Numbers and the digits they are written with, in any base: bytes and     *)
(* bits are digits, lowest first or highest first.                          *)
(***************************************************************************)
EXTENDS Integers, Sequences

\* b^k, by its recursion.
Power(b, k) == LET power[i \in 0..k] == IF i = 0 THEN 1 ELSE b * power[i - 1]
               IN  power[k]

\* The low w digits of v, lowest first; of a negative number its complement's.
Digits(v, base, w) ==
    LET shifted[i \in 0..w] == IF i = 0 THEN v ELSE shifted[i - 1] \div base
    IN  [i \in 1..w |-> shifted[i - 1] % base]

\* The number of digits of n >= 0, without leading zeros.
Width(n, base) ==
    LET shifted[i \in 0..n] == IF i = 0 THEN n ELSE shifted[i - 1] \div base
    IN  CHOOSE k \in 0..n : shifted[k] = 0 /\ \A i \in 0..(k - 1) : shifted[i] # 0

\* The number that digits stand for, highest first.
Value(s, base) ==
    LET upTo[i \in 0..Len(s)] == IF i = 0 THEN 0 ELSE upTo[i - 1] * base + s[i]
    IN  upTo[Len(s)]

\* The same of a complement: the first digit has the sign.
SignedValue(s, base) ==
    LET first == IF 2 * s[1] >= base THEN s[1] - base ELSE s[1]
        upTo[i \in 1..Len(s)] == IF i = 1 THEN first ELSE upTo[i - 1] * base + s[i]
    IN  IF s = <<>> THEN 0 ELSE upTo[Len(s)]

Reversed(s) == [i \in 1..Len(s) |-> s[Len(s) + 1 - i]]

\* The digits of n >= 0, highest first, without leading zeros; none for 0.
AllDigits(n, base) == Reversed(Digits(n, base, Width(n, base)))

-----------------------------------------------------------------------------

\* The low w bits of n, lowest first, and the number they stand for.
Bits(n, w) == Digits(n, 2, w)
Number(bits) == Value(Reversed(bits), 2)

Field(bits, first, w) == Number(SubSeq(bits, first + 1, first + w))

\* Bits in groups of w, lowest first, and back.
Pack(bits, w) == [k \in 1..(Len(bits) \div w) |-> Field(bits, (k - 1) * w, w)]
Unpack(s, w)  == [i \in 1..(Len(s) * w) |-> Bits(s[((i - 1) \div w) + 1], w)[((i - 1) % w) + 1]]
=============================================================================
