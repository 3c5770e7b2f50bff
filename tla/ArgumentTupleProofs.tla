------------------------ MODULE ArgumentTupleProofs ------------------------
(***************************************************************************)
(* Proofs about ArgumentTuple, for bytes of 8 bits (or of any width that    *)
(* divides 24), any number of arguments and any values.                     *)
(***************************************************************************)
EXTENDS ArgumentTuple, NumeralProofs

-----------------------------------------------------------------------------
(* Byte strings                                                            *)

\* A byte has at least four values, the sign bit being half of them.
LEMMA ByteFacts ==
    /\ ByteBits \in Nat /\ ByteBits >= 2
    /\ Byte \in Nat /\ Byte >= 4 /\ SignBit \in Nat /\ SignBit >= 2 /\ Byte = 2 * SignBit
<1>1. ByteBits \in Nat /\ ByteBits >= 2 /\ ByteBits - 1 \in Nat /\ ByteBits - 2 \in Nat
      /\ (ByteBits - 1) + 1 = ByteBits /\ (ByteBits - 2) + 1 = ByteBits - 1
  BY ByteBitsAssumption
<1>2. 2 \in Nat /\ 2 >= 2
  OBVIOUS
<1>3. \A k \in Nat : Power(2, k) \in Nat /\ Power(2, k) > k /\ Power(2, k + 1) = 2 * Power(2, k)
  BY <1>2, PowerGrows
<1>4. /\ Power(2, ByteBits - 2) \in Nat /\ Power(2, ByteBits - 2) > ByteBits - 2
      /\ Power(2, ByteBits - 1) = 2 * Power(2, ByteBits - 2)
      /\ Power(2, ByteBits) = 2 * Power(2, ByteBits - 1)
  BY <1>1, <1>3
<1> QED
  BY <1>1, <1>4 DEF Byte, SignBit

\* Powers of the number of a byte's values.
LEMMA BytePowers ==
    /\ \A k \in Nat : Power(Byte, k) \in Nat /\ Power(Byte, k) > k /\ Power(Byte, k + 1) = Byte * Power(Byte, k)
    /\ \A k, j \in Nat : Power(Byte, k) <= Power(Byte, k + j)
<1>1. Byte \in Nat /\ Byte >= 2
  BY ByteFacts
<1> QED
  BY <1>1, PowerGrows

\* The little-endian form has the width asked for, and is read as the number
\* again if that fits.
LEMMA LittleEndianFacts ==
    ASSUME NEW n \in Int, NEW w \in Nat
    PROVE  /\ LittleEndian(n, w) \in Seq(Bytes) /\ Len(LittleEndian(n, w)) = w
           /\ w >= 1 => (Signed(Reversed(LittleEndian(n, w))) = n <=> Fits(n, w))
           /\ n \in Nat /\ n < Power(Byte, w) => Unsigned(Reversed(LittleEndian(n, w))) = n
<1>1. Byte \in Nat /\ Byte >= 2 /\ SignBit \in Nat /\ SignBit >= 1 /\ Byte = 2 * SignBit
  BY ByteFacts
<1>2. LittleEndian(n, w) \in Seq(Bytes) /\ Len(LittleEndian(n, w)) = w
  BY <1>1, DigitsShift DEF LittleEndian, Bytes
<1>3. w >= 1 => (Signed(Reversed(LittleEndian(n, w))) = n <=> Fits(n, w))
  BY <1>1, SignedDigits DEF Signed, LittleEndian, Fits
<1>4. n \in Nat /\ n < Power(Byte, w) => Unsigned(Reversed(LittleEndian(n, w))) = n
  BY <1>1, DigitsRoundTrip DEF Unsigned, LittleEndian
<1> QED
  BY <1>2, <1>3, <1>4

\* The first number that does not fit is read as zero.
LEMMA WrapsToZero ==
    ASSUME NEW w \in Nat
    PROVE  Unsigned(Reversed(LittleEndian(Power(Byte, w), w))) = 0
<1>1. PICK p \in Nat : p = Power(Byte, w)
  BY BytePowers
<1>2. Byte \in Nat /\ Byte >= 2
  BY ByteFacts
<1>3. PICK x : x = Value(Reversed(Digits(p, Byte, w)), Byte)
  OBVIOUS
<1>4. p > 0 /\ x \in 0..(p - 1) /\ \E q \in Int : p = q * p + x
  <2>1. PICK b \in Nat : b = Byte /\ b >= 2
    BY <1>2
  <2>2. p \in Int
    OBVIOUS
  <2>3. /\ Power(b, w) > 0 /\ Value(Reversed(Digits(p, b, w)), b) \in 0..(Power(b, w) - 1)
        /\ \E q \in Int : p = q * Power(b, w) + Value(Reversed(Digits(p, b, w)), b)
    BY ONLY <2>1, <2>2, w \in Nat, DigitsValue
  <2> QED
    BY <1>1, <1>3, <2>1, <2>3, Zenon
<1>5. PICK q \in Int : p = q * p + x
  BY <1>4
<1>6. (1 - q) * p = x
  BY <1>4, <1>5
<1>7. 1 - q \in Int /\ -p < (1 - q) * p /\ (1 - q) * p < p
  BY <1>4, <1>6
<1>8. 1 - q = 0
  BY <1>7, NoMultiple
<1>9. x = 0
  BY <1>6, <1>8
<1> QED
  BY <1>1, <1>3, <1>9 DEF Unsigned, LittleEndian

\* Bytes() has no leading zero, and is the number again.
LEMMA BigBytesFacts ==
    ASSUME NEW n \in Nat
    PROVE  /\ BigBytes(n) \in Seq(Bytes) /\ Len(BigBytes(n)) \in Nat
           /\ Value(BigBytes(n), Byte) = n
           /\ n < Power(Byte, Len(BigBytes(n)))
           /\ n # 0 => /\ Len(BigBytes(n)) >= 1 /\ BigBytes(n)[1] # 0
                       /\ Power(Byte, Len(BigBytes(n)) - 1) <= n
<1>1. Byte \in Nat /\ Byte >= 2
  BY ByteFacts
<1> QED
  BY <1>1, AllDigitsFacts DEF BigBytes, Bytes

\* A two's-complement number by its value without the sign.
LEMMA SignedFacts ==
    ASSUME NEW s \in Seq(Bytes), Len(s) >= 1
    PROVE  /\ Signed(s) \in Int /\ Value(s, Byte) \in Nat /\ Power(Byte, Len(s)) \in Nat
           /\ s[1] \in Nat
           /\ s[1] >= SignBit => Signed(s) = Value(s, Byte) - Power(Byte, Len(s))
           /\ s[1] < SignBit => Signed(s) = Value(s, Byte)
<1>1. Byte \in Nat /\ Byte >= 2 /\ SignBit \in Nat /\ SignBit >= 1 /\ Byte = 2 * SignBit
  BY ByteFacts
<1>2. s[1] \in Bytes /\ Len(s) \in Nat
  OBVIOUS
<1>3. s \in Seq(0..(Byte - 1)) /\ s[1] \in Nat /\ Len(s) \in Nat
  BY <1>1, <1>2 DEF Bytes
<1>4. Value(s, Byte) \in Nat /\ Power(Byte, Len(s)) \in Nat
  BY <1>1, <1>3, ValueBound, BytePowers
<1>5. /\ SignedValue(s, Byte) \in Int
      /\ SignedValue(s, Byte) = Value(s, Byte) - IF s[1] >= SignBit THEN Power(Byte, Len(s)) ELSE 0
  BY <1>1, <1>3, SignedValueFacts
<1>6. ASSUME s[1] < SignBit PROVE SignedValue(s, Byte) = Value(s, Byte)
  <2>1. ~(s[1] >= SignBit)
    BY <1>1, <1>3, <1>6
  <2>2. SignedValue(s, Byte) = Value(s, Byte) - 0
    BY <1>5, <2>1
  <2> QED
    BY <1>4, <2>2
<1>7. s[1] >= SignBit => SignedValue(s, Byte) = Value(s, Byte) - Power(Byte, Len(s))
  BY <1>5
<1> QED
  BY <1>3, <1>4, <1>5, <1>6, <1>7 DEF Signed

\* A byte in front.
LEMMA InFront ==
    ASSUME NEW x \in Bytes, NEW b \in Seq(Bytes), Len(b) >= 1
    PROVE  /\ <<x>> \o b \in Seq(Bytes) /\ Len(<<x>> \o b) = Len(b) + 1
           /\ (<<x>> \o b)[1] = x
           /\ Value(<<x>> \o b, Byte) = x * Power(Byte, Len(b)) + Value(b, Byte)
<1>1. Byte \in Nat /\ Byte >= 2
  BY ByteFacts
<1> QED
  BY <1>1, DigitInFront DEF Bytes

-----------------------------------------------------------------------------
(* Decimals                                                                *)

\* The bytes reserved for a negative number are those of its magnitude.
LEMMA MagnitudeBytes ==
    ASSUME NEW m \in Nat, m # 0, NEW k, k = (BitLen(m) + ByteBits - 1) \div ByteBits
    PROVE  /\ k \in Nat /\ k >= 1 /\ k = Width(m, Byte)
           /\ Power(Byte, k - 1) <= m /\ m < Power(Byte, k)
<1>1. 2 \in Nat /\ 2 >= 2 /\ ByteBits \in Nat /\ ByteBits >= 2 /\ Byte \in Nat /\ Byte >= 2
  BY ByteFacts
<1>2. PICK w : w = BitLen(m)
  OBVIOUS
<1>3. w \in Nat /\ w >= 1 /\ Power(2, w - 1) <= m /\ m < Power(2, w)
  BY <1>1, <1>2, AllDigitsFacts DEF BitLen
<1>4. PICK r \in 0..(ByteBits - 1) : k \in Nat /\ w + ByteBits - 1 = ByteBits * k + r
  <2>1. w + ByteBits - 1 \in Nat
    BY <1>1, <1>3
  <2> QED
    BY <1>1, <1>2, <2>1, DivFacts
<1>5. k # 0
  <2> SUFFICES ASSUME k = 0 PROVE FALSE
    OBVIOUS
  <2>1. ByteBits * k = 0
    BY <1>1
  <2> QED
    BY <1>1, <1>3, <1>4, <2>1
<1>6. PICK u \in Nat : u = ByteBits * k
  BY <1>1, <1>4
<1>7. ByteBits * (k - 1) = u - ByteBits
  BY <1>1, <1>4, <1>6
<1>8. u >= w /\ u - ByteBits <= w - 1 /\ k - 1 \in Nat
  BY <1>1, <1>3, <1>4, <1>5, <1>6
<1>9. u - ByteBits \in Nat
  BY <1>1, <1>4, <1>7, <1>8
<1>10. Power(Byte, k) = Power(2, u) /\ Power(Byte, k - 1) = Power(2, u - ByteBits)
  <2>1. \A i \in Nat : Power(Byte, i) = Power(2, ByteBits * i)
    BY <1>1, PowerOfPower DEF Byte
  <2> QED
    BY <1>4, <1>6, <1>7, <1>8, <2>1
<1>11. \A i, j \in Nat : Power(2, i) \in Nat /\ Power(2, i) <= Power(2, i + j)
  BY <1>1, PowerGrows
<1>12. Power(2, w) <= Power(2, u) /\ Power(2, w) \in Nat /\ Power(2, u) \in Nat
  <2>1. u - w \in Nat /\ w + (u - w) = u
    BY <1>3, <1>8
  <2> QED
    BY <1>3, <1>11, <2>1
<1>13. Power(2, u - ByteBits) <= Power(2, w - 1) /\ Power(2, u - ByteBits) \in Nat /\ Power(2, w - 1) \in Nat
  <2>1. (w - 1) - (u - ByteBits) \in Nat /\ (u - ByteBits) + ((w - 1) - (u - ByteBits)) = w - 1 /\ w - 1 \in Nat
    BY <1>1, <1>3, <1>8
  <2>2. Power(2, u - ByteBits) <= Power(2, (u - ByteBits) + ((w - 1) - (u - ByteBits)))
    BY <1>9, <1>11, <2>1
  <2> QED
    BY <1>9, <1>11, <2>1, <2>2
<1>14. k >= 1 /\ Power(Byte, k - 1) <= m /\ m < Power(Byte, k)
  <2>1. Power(Byte, k - 1) <= m
    BY <1>3, <1>10, <1>13
  <2>2. m < Power(Byte, k)
    BY <1>3, <1>10, <1>12
  <2> QED
    BY <1>4, <1>5, <2>1, <2>2
<1> QED
  BY <1>1, <1>4, <1>14, WidthIs

\* The negative numbers whose complement begins with a zero byte.
Shortened(n) == n < 0 /\ -n > Power(Byte, Width(-n, Byte)) - Power(Byte, Width(-n, Byte) - 1)

\* What a negative number of magnitude m is written as.
Complement(m) == LET c == BigBytes(Power(Byte, (BitLen(m) + ByteBits - 1) \div ByteBits) - m)
                 IN  IF c[1] < SignBit THEN <<Byte - 1>> \o c ELSE c

\* What encodeDecimalUnscaled writes of a negative number is read as that
\* number, unless the leading zeros of its complement were lost.
LEMMA NegativeFacts ==
    ASSUME NEW m \in Nat, m # 0, NEW b, b = Complement(m)
    PROVE  /\ b \in Seq(Bytes) /\ Len(b) >= 1
           /\ Signed(b) = -m <=> ~(m > Power(Byte, Width(m, Byte)) - Power(Byte, Width(m, Byte) - 1))
<1>13. PICK k : k = (BitLen(m) + ByteBits - 1) \div ByteBits
  OBVIOUS
<1>14. PICK c : c = BigBytes(Power(Byte, k) - m)
  OBVIOUS
<1>1. /\ k \in Nat /\ k >= 1 /\ k = Width(m, Byte)
      /\ Power(Byte, k - 1) <= m /\ m < Power(Byte, k)
  BY <1>13, MagnitudeBytes
<1>12. b = IF c[1] < SignBit THEN <<Byte - 1>> \o c ELSE c
  BY <1>13, <1>14, Zenon DEF Complement
<1>2. Byte \in Nat /\ Byte >= 4 /\ SignBit \in Nat /\ Byte = 2 * SignBit /\ Byte - 1 \in Bytes /\ SignBit <= Byte - 1
  BY ByteFacts DEF Bytes
<1>3. PICK P \in Nat, Q \in Nat : P = Power(Byte, k) /\ Q = Power(Byte, k - 1) /\ P = Byte * Q
  <2>1. k - 1 \in Nat /\ (k - 1) + 1 = k
    BY <1>1
  <2> QED
    BY <1>1, <2>1, BytePowers
<1>4. P - m \in Nat /\ P - m # 0
  BY <1>1, <1>3
<1>5. PICK d \in Nat : d = P - m
  BY <1>4
<1>6. /\ c \in Seq(Bytes) /\ Len(c) >= 1 /\ Len(c) \in Nat /\ Value(c, Byte) = d
      /\ d < Power(Byte, Len(c)) /\ Power(Byte, Len(c) - 1) <= d
  BY <1>3, <1>4, <1>5, <1>14, BigBytesFacts
<1>7. PICK R \in Nat, S \in Nat : R = Power(Byte, Len(c)) /\ S = Power(Byte, Len(c) - 1) /\ R = Byte * S
  <2>1. Len(c) - 1 \in Nat /\ (Len(c) - 1) + 1 = Len(c)
    BY <1>6
  <2> QED
    BY <1>6, <2>1, BytePowers
<1>8. b \in Seq(Bytes) /\ Len(b) >= 1 /\ Signed(b) = d - R
  <2>1. CASE c[1] < SignBit
    <3>1. b = <<Byte - 1>> \o c
      BY <1>12, <2>1
    <3>2. /\ b \in Seq(Bytes) /\ Len(b) = Len(c) + 1 /\ b[1] = Byte - 1
          /\ Value(b, Byte) = (Byte - 1) * Power(Byte, Len(c)) + Value(c, Byte)
      BY <1>2, <1>6, <3>1, InFront
    <3>3. Power(Byte, Len(c) + 1) = Byte * R
      BY <1>6, <1>7, BytePowers
    <3>4. Signed(b) = Value(b, Byte) - Power(Byte, Len(c) + 1)
      <4>1. Len(b) >= 1 /\ b[1] >= SignBit
        BY <1>2, <1>6, <3>2
      <4>2. Signed(b) = Value(b, Byte) - Power(Byte, Len(b))
        BY <3>2, <4>1, SignedFacts
      <4> QED
        BY <3>2, <4>2, Zenon
    <3>5. Signed(b) = ((Byte - 1) * R + d) - Byte * R
      BY <1>6, <1>7, <3>2, <3>3, <3>4
    <3>6. ((Byte - 1) * R + d) - Byte * R = d - R
      BY <1>2
    <3> QED
      BY <1>6, <3>2, <3>5, <3>6
  <2>2. CASE ~(c[1] < SignBit)
    <3>1. b = c /\ c[1] \in Bytes
      BY <1>6, <1>12, <2>2
    <3>2. c[1] >= SignBit
      BY <1>2, <2>2, <3>1 DEF Bytes
    <3> QED
      BY <1>6, <1>7, <3>1, <3>2, SignedFacts
  <2> QED
    BY <2>1, <2>2
<1>9. Signed(b) = -m <=> P = R
  <2>1. d - R = -m <=> P = R
    BY <1>5
  <2> QED
    BY <1>8, <2>1, Zenon
<1>10. ASSUME m > P - Q PROVE P # R
  <2>1. S < Q
    BY <1>3, <1>5, <1>6, <1>7, <1>10
  <2>2. Byte * S < Byte * Q
    BY <1>2, <2>1
  <2> QED
    BY <1>3, <1>7, <2>2
<1>11. ASSUME ~(m > P - Q) PROVE P = R
  <2>1. Q <= d /\ d < P /\ d # 0
    BY <1>3, <1>4, <1>5, <1>11
  <2>2. Width(d, Byte) = k
    BY <1>1, <1>2, <1>3, <2>1, WidthIs
  <2>3. Len(c) = Width(d, Byte)
    <3>1. c = AllDigits(d, Byte)
      BY <1>3, <1>5, <1>14, Zenon DEF BigBytes
    <3>2. Byte \in Nat /\ Byte >= 2 /\ d \in Nat
      BY <1>2
    <3>3. Len(AllDigits(d, Byte)) = Width(d, Byte)
      BY ONLY <3>2, AllDigitsFacts
    <3> QED
      BY <3>1, <3>3, Zenon
  <2> QED
    BY <1>3, <1>7, <2>2, <2>3
<1> QED
  BY <1>1, <1>3, <1>8, <1>9, <1>10, <1>11

\* The bytes of a decimal's number are read as the number again, unless it is
\* one of those.
LEMMA UnscaledFacts ==
    ASSUME NEW n \in Int, NEW b, b = encodeDecimalUnscaled(n)
    PROVE  /\ b \in Seq(Bytes) /\ Len(b) >= 1
           /\ Signed(b) = n <=> ~Shortened(n)
           /\ n >= 0 => Value(b, Byte) = n
<1>1. Byte \in Nat /\ Byte >= 4 /\ SignBit \in Nat /\ SignBit >= 2 /\ 0 \in Bytes
  BY ByteFacts DEF Bytes
<1>2. CASE n = 0
  <2>1. b = <<0>>
    BY <1>2 DEF encodeDecimalUnscaled
  <2>2. b \in Seq(Bytes) /\ Len(b) = 1 /\ b[1] = 0
    BY <1>1, <2>1, SingleFacts
  <2>3. Value(b, Byte) = 0
    BY <1>1, <2>1, ValueOfDigit
  <2>4. Signed(b) = 0
    BY <1>1, <2>2, <2>3, SignedFacts
  <2> QED
    BY <1>2, <2>2, <2>3, <2>4 DEF Shortened
<1>3. CASE n > 0
  <2>1. PICK c : c = BigBytes(n)
    OBVIOUS
  <2>2. b = IF c[1] >= SignBit THEN <<0>> \o c ELSE c
    BY <1>3, <2>1 DEF encodeDecimalUnscaled
  <2>3. n \in Nat /\ c \in Seq(Bytes) /\ Len(c) >= 1 /\ Value(c, Byte) = n
    BY <1>3, <2>1, BigBytesFacts
  <2>4. CASE c[1] >= SignBit
    <3>1. b = <<0>> \o c
      BY <2>2, <2>4
    <3>2. /\ b \in Seq(Bytes) /\ Len(b) = Len(c) + 1 /\ b[1] = 0
          /\ Value(b, Byte) = 0 * Power(Byte, Len(c)) + Value(c, Byte)
      BY <1>1, <2>3, <3>1, InFront
    <3>3. 0 * Power(Byte, Len(c)) = 0
      BY <2>3, BytePowers
    <3>4. Value(b, Byte) = n
      BY <2>3, <3>2, <3>3
    <3>5. Signed(b) = n
      BY <1>1, <2>3, <3>2, <3>4, SignedFacts
    <3> QED
      BY <1>3, <2>3, <3>2, <3>4, <3>5 DEF Shortened
  <2>5. CASE ~(c[1] >= SignBit)
    <3>1. b = c /\ c[1] \in Bytes
      BY <2>2, <2>3, <2>5
    <3>2. c[1] < SignBit
      BY <1>1, <2>5, <3>1 DEF Bytes
    <3>3. Signed(b) = n
      BY <2>3, <3>1, <3>2, SignedFacts
    <3> QED
      BY <1>3, <2>3, <3>1, <3>3 DEF Shortened
  <2> QED
    BY <2>4, <2>5
<1>4. CASE n < 0
  <2>1. PICK m \in Nat : m = -n /\ n = -m /\ m # 0
    BY <1>4
  <2>2. PICK k \in Nat : k = (BitLen(m) + ByteBits - 1) \div ByteBits
    BY <2>1, MagnitudeBytes
  <2>3. Power(Byte, k) \in Nat
    BY BytePowers
  <2>4. Power(Byte, k) + n = Power(Byte, k) - m
    BY <2>1, <2>3
  <2>5. b = Complement(m)
    <3>1. ~(n = 0) /\ ~(n > 0)
      BY <1>4
    <3>2. (BitLen(-n) + ByteBits - 1) \div ByteBits = k
      BY <2>1, <2>2, Zenon
    <3> QED
      BY <2>2, <2>4, <3>1, <3>2, Zenon DEF encodeDecimalUnscaled, Complement
  <2>6. /\ b \in Seq(Bytes) /\ Len(b) >= 1
        /\ Signed(b) = -m <=> ~(m > Power(Byte, Width(m, Byte)) - Power(Byte, Width(m, Byte) - 1))
    BY ONLY <2>1, <2>5, m \in Nat, NegativeFacts
  <2>7. Shortened(n) <=> m > Power(Byte, Width(m, Byte)) - Power(Byte, Width(m, Byte) - 1)
    BY <1>4, <2>1, Zenon DEF Shortened
  <2> QED
    BY <1>4, <2>1, <2>6, <2>7
<1> QED
  BY <1>2, <1>3, <1>4

-----------------------------------------------------------------------------
(* Values and their types                                                  *)

\* The numbers of the types.
LEMMA TypeIds ==
    /\ TypeId("nil") = 0 /\ TypeId("bool") = 1 /\ TypeId("int8") = 2 /\ TypeId("byte") = 2
    /\ TypeId("int16") = 3 /\ TypeId("int32") = 4 /\ TypeId("int64") = 5 /\ TypeId("float32") = 6
    /\ TypeId("float64") = 7 /\ TypeId("decimal") = 8 /\ TypeId("date") = 9 /\ TypeId("time") = 10
    /\ TypeId("datetime") = 11 /\ TypeId("timestamp") = 12 /\ TypeId("uuid") = 13
    /\ TypeId("string") = 15 /\ TypeId("bytes") = 16
BY DEF TypeId

\* How a value of each type is read.
LEMMA DecodedFacts ==
    ASSUME NEW raw
    PROVE  /\ Decoded(1, raw) = [type |-> "bool", b |-> raw[1] # 0]
           /\ Decoded(8, raw) = [type |-> "decimal", unscaled |-> Signed(SubSeq(raw, 3, Len(raw))),
                                 scale |-> Signed(Reversed(SubSeq(raw, 1, 2)))]
           /\ Decoded(9, raw) = [type |-> "date", year |-> YearOf(ToBits(raw)),
                                 month |-> MonthOf(ToBits(raw)), day |-> DayOf(ToBits(raw))]
           /\ Decoded(10, raw) = [type |-> "time", secs |-> SecsOf(ToBits(raw)), nsec |-> NsecOf(ToBits(raw))]
           /\ Decoded(11, raw) = [type |-> "datetime", year |-> YearOf(ToBits(raw)),
                                  month |-> MonthOf(ToBits(raw)), day |-> DayOf(ToBits(raw)),
                                  secs |-> SecsOf(SubSeq(ToBits(raw), 25, 72)),
                                  nsec |-> NsecOf(SubSeq(ToBits(raw), 25, 72))]
           /\ Decoded(12, raw) = [type |-> "timestamp", sec |-> Signed(Reversed(SubSeq(raw, 1, 8))),
                                  nsec |-> Signed(Reversed(SubSeq(raw, 9, 12)))]
           /\ Decoded(13, raw) = [type |-> "uuid", s |-> Flip(raw)]
           /\ Decoded(15, raw) = [type |-> "string", s |-> Unmarked(raw)]
           /\ Decoded(16, raw) = [type |-> "bytes", s |-> Unmarked(raw)]
<1>1. ASSUME NEW id \in {1, 8, 9, 10, 11, 12, 13, 15, 16} PROVE id \notin 2..7
  BY <1>1
<1>2. Decoded(1, raw) = [type |-> "bool", b |-> raw[1] # 0]
  <2>1. 1 = TypeId("bool") /\ 1 \notin 2..7 /\ 1 # 8 /\ 1 # 9 /\ 1 # 10 /\ 1 # 11 /\ 1 # 12 /\ 1 # 13
        /\ 1 # 15 /\ 1 # 16
    BY <1>1, TypeIds
  <2> QED
    BY <2>1, TypeIds, Zenon DEF Decoded
<1>3. Decoded(8, raw) = [type |-> "decimal", unscaled |-> Signed(SubSeq(raw, 3, Len(raw))),
                         scale |-> Signed(Reversed(SubSeq(raw, 1, 2)))]
  BY TypeIds DEF Decoded
<1>4. Decoded(9, raw) = [type |-> "date", year |-> YearOf(ToBits(raw)),
                         month |-> MonthOf(ToBits(raw)), day |-> DayOf(ToBits(raw))]
  BY TypeIds DEF Decoded
<1>5. Decoded(10, raw) = [type |-> "time", secs |-> SecsOf(ToBits(raw)), nsec |-> NsecOf(ToBits(raw))]
  BY TypeIds DEF Decoded
<1>6. Decoded(11, raw) = [type |-> "datetime", year |-> YearOf(ToBits(raw)),
                          month |-> MonthOf(ToBits(raw)), day |-> DayOf(ToBits(raw)),
                          secs |-> SecsOf(SubSeq(ToBits(raw), 25, 72)),
                          nsec |-> NsecOf(SubSeq(ToBits(raw), 25, 72))]
  BY TypeIds DEF Decoded
<1>7. Decoded(12, raw) = [type |-> "timestamp", sec |-> Signed(Reversed(SubSeq(raw, 1, 8))),
                          nsec |-> Signed(Reversed(SubSeq(raw, 9, 12)))]
  BY TypeIds DEF Decoded
<1>8. Decoded(13, raw) = [type |-> "uuid", s |-> Flip(raw)]
  BY TypeIds DEF Decoded
<1>9. Decoded(15, raw) = [type |-> "string", s |-> Unmarked(raw)]
  BY TypeIds DEF Decoded
<1>10. Decoded(16, raw) = [type |-> "bytes", s |-> Unmarked(raw)]
  BY TypeIds DEF Decoded
<1> QED
  BY <1>2, <1>3, <1>4, <1>5, <1>6, <1>7, <1>8, <1>9, <1>10

\* Integers and floats are read by their two's complement.
LEMMA DecodedNumbers ==
    ASSUME NEW raw
    PROVE  /\ Decoded(2, raw) = [type |-> "int8", n |-> Signed(Reversed(raw))]
           /\ Decoded(3, raw) = [type |-> "int16", n |-> Signed(Reversed(raw))]
           /\ Decoded(4, raw) = [type |-> "int32", n |-> Signed(Reversed(raw))]
           /\ Decoded(5, raw) = [type |-> "int64", n |-> Signed(Reversed(raw))]
           /\ Decoded(6, raw) = [type |-> "float32", n |-> Signed(Reversed(raw))]
           /\ Decoded(7, raw) = [type |-> "float64", n |-> Signed(Reversed(raw))]
<1> DEFINE names == <<"int8", "int16", "int32", "int64", "float32", "float64">>
<1>1. ASSUME NEW id \in 2..7 PROVE Decoded(id, raw) = [type |-> names[id - 1], n |-> Signed(Reversed(raw))]
  BY <1>1, TypeIds DEF Decoded
<1>2. /\ names[2 - 1] = "int8" /\ names[3 - 1] = "int16" /\ names[4 - 1] = "int32"
      /\ names[5 - 1] = "int64" /\ names[6 - 1] = "float32" /\ names[7 - 1] = "float64"
  OBVIOUS
<1> HIDE DEF names
<1> QED
  BY <1>1, <1>2

\* Nothing but an empty element is read as NULL.
LEMMA DecodedNotNil ==
    ASSUME NEW id, NEW raw
    PROVE  /\ Decoded(id, raw) # Nil
           /\ Decoded(0, raw) = [type |-> "unknown"]
<1>1. ASSUME id \in 2..7 PROVE Decoded(id, raw).type # "nil"
  BY <1>1, DecodedNumbers
<1>2. ASSUME id \in {1, 8, 9, 10, 11, 12, 13, 15, 16} PROVE Decoded(id, raw).type # "nil"
  <2>1. Decoded(1, raw).type = "bool"
    <3>1. \A x : [type |-> "bool", b |-> x].type = "bool"
      OBVIOUS
    <3>2. Decoded(1, raw) = [type |-> "bool", b |-> raw[1] # 0]
      BY DecodedFacts
    <3> QED
      BY <3>1, <3>2, Zenon
  <2>2. Decoded(8, raw).type = "decimal"
    BY DecodedFacts
  <2>3. Decoded(9, raw).type = "date"
    BY DecodedFacts
  <2>4. Decoded(10, raw).type = "time"
    BY DecodedFacts
  <2>5. Decoded(11, raw).type = "datetime"
    BY DecodedFacts
  <2>6. Decoded(12, raw).type = "timestamp"
    BY DecodedFacts
  <2>7. Decoded(13, raw).type = "uuid"
    BY DecodedFacts
  <2>8. Decoded(15, raw).type = "string"
    BY DecodedFacts
  <2>9. Decoded(16, raw).type = "bytes"
    BY DecodedFacts
  <2> QED
    BY <1>2, <2>1, <2>2, <2>3, <2>4, <2>5, <2>6, <2>7, <2>8, <2>9
<1>3. ASSUME id \notin 2..7, id \notin {1, 8, 9, 10, 11, 12, 13, 15, 16}
      PROVE  Decoded(id, raw) = [type |-> "unknown"]
  BY <1>3, TypeIds DEF Decoded
<1>4. Decoded(0, raw) = [type |-> "unknown"]
  BY TypeIds DEF Decoded
<1> QED
  BY <1>1, <1>2, <1>3, <1>4 DEF Nil

\* What a value of each type has, and that it is what its fields say.
Determined(v) ==
    /\ v = Nil <=> v.type = "nil"
    /\ v.type = "bool" => v.b \in BOOLEAN /\ v = [type |-> "bool", b |-> v.b]
    /\ v.type = "byte" => v.n \in Bytes
    /\ v.type = "int8" => v.n \in Interval(1)
    /\ v.type = "int16" => v.n \in Interval(2)
    /\ v.type \in {"int32", "float32"} => v.n \in Interval(4)
    /\ v.type \in {"int64", "float64"} => v.n \in Int /\ v.n \div Power(Byte, 4) \in Interval(4)
    /\ v.type \in {"int8", "int16", "int32", "int64", "float32", "float64"} =>
          v = [type |-> v.type, n |-> v.n]
    /\ v.type = "decimal" => /\ v.unscaled \in Int /\ v.scale \in Int
                             /\ v = [type |-> "decimal", unscaled |-> v.unscaled, scale |-> v.scale]
    /\ v.type \in {"date", "datetime"} => v.year \in Int /\ v.month \in 1..12 /\ v.day \in 1..31
    /\ v.type \in {"time", "datetime"} => v.secs \in 0..(Day - 1) /\ v.nsec \in 0..(Billion - 1)
    /\ v.type = "date" => v = [type |-> "date", year |-> v.year, month |-> v.month, day |-> v.day]
    /\ v.type = "time" => v = [type |-> "time", secs |-> v.secs, nsec |-> v.nsec]
    /\ v.type = "datetime" => v = [type |-> "datetime", year |-> v.year, month |-> v.month, day |-> v.day,
                                   secs |-> v.secs, nsec |-> v.nsec]
    /\ v.type = "timestamp" => /\ v.sec \in Int /\ v.sec \div Power(Byte, 4) \in Interval(4)
                               /\ v.nsec \in Interval(4)
                               /\ v = [type |-> "timestamp", sec |-> v.sec, nsec |-> v.nsec]
    /\ v.type = "uuid" => v.s \in [1..16 -> Bytes] /\ v = [type |-> "uuid", s |-> v.s]
    /\ v.type \in {"string", "bytes"} => v.s \in Seq(Bytes) /\ v = [type |-> v.type, s |-> v.s]

\* The types of arguments.
ArgumentTypes == {"nil", "other", "bool", "byte", "int8", "int16", "int32", "int64", "float32", "float64",
                  "decimal", "date", "time", "datetime", "timestamp", "uuid", "string", "bytes"}

\* Every argument is determined by its fields.
LEMMA ArgumentFacts ==
    ASSUME NEW v, IsArgument(v)
    PROVE  Determined(v) /\ v.type \in ArgumentTypes
<1> DEFINE G == Determined(v) /\ v.type \in ArgumentTypes
           I1 == Interval(1)
           I2 == Interval(2)
           I4 == Interval(4)
           D == 0..(Day - 1)
           N == 0..(Billion - 1)
           V1 == {Nil, [type |-> "other"]}
           V2 == [type : {"bool"}, b : BOOLEAN]
           V3 == [type : {"byte"}, n : Bytes]
           V4 == [type : {"int8"}, n : I1]
           V5 == [type : {"int16"}, n : I2]
           V6 == [type : {"int32", "float32"}, n : I4]
           V7 == [type : {"int64", "float64"}, n : Int]
           V8 == [type : {"decimal"}, unscaled : Int, scale : Int]
           V9 == [type : {"date"}, year : Int, month : 1..12, day : 1..31]
           V10 == [type : {"time"}, secs : D, nsec : N]
           V11 == [type : {"datetime"}, year : Int, month : 1..12, day : 1..31, secs : D, nsec : N]
           V12 == [type : {"timestamp"}, sec : Int, nsec : N]
           V13 == [type : {"uuid"}, s : [1..16 -> Bytes]]
           V14 == [type : {"string", "bytes"}, s : Seq(Bytes)]
<1>1. \/ v \in V1 \/ v \in V2 \/ v \in V3 \/ v \in V4 \/ v \in V5 \/ v \in V6
      \/ v \in V7 /\ v.n \div Power(Byte, 4) \in I4
      \/ v \in V8 \/ v \in V9 \/ v \in V10 \/ v \in V11
      \/ v \in V12 /\ v.nsec \in I4 /\ v.sec \div Power(Byte, 4) \in I4
      \/ v \in V13 \/ v \in V14
  BY Zenon DEF IsArgument
<1> HIDE DEF V1, V2, V3, V4, V5, V6, V7, V8, V9, V10, V11, V12, V13, V14, I1, I2, I4, D, N
<1>2. G <=> Determined(v) /\ v.type \in ArgumentTypes
  OBVIOUS
<1>3. v \in V1 => G
  BY DEF Determined, ArgumentTypes, Nil, V1
<1>4. v \in V2 => G
  BY DEF Determined, ArgumentTypes, Nil, V2
<1>5. v \in V3 => G
  BY DEF Determined, ArgumentTypes, Nil, V3
<1>6. v \in V4 => G
  BY DEF Determined, ArgumentTypes, Nil, V4, I1
<1>7. v \in V5 => G
  BY DEF Determined, ArgumentTypes, Nil, V5, I2
<1>8. v \in V6 => G
  BY DEF Determined, ArgumentTypes, Nil, V6, I4
<1>9. v \in V7 /\ v.n \div Power(Byte, 4) \in I4 => G
  BY DEF Determined, ArgumentTypes, Nil, V7, I4
<1>10. v \in V8 => G
  BY DEF Determined, ArgumentTypes, Nil, V8
<1>11. v \in V9 => G
  BY DEF Determined, ArgumentTypes, Nil, V9
<1>12. v \in V10 => G
  BY DEF Determined, ArgumentTypes, Nil, V10, D, N
<1>13. v \in V11 => G
  BY DEF Determined, ArgumentTypes, Nil, V11, D, N
<1>14. v \in V12 /\ v.nsec \in I4 /\ v.sec \div Power(Byte, 4) \in I4 => G
  BY DEF Determined, ArgumentTypes, Nil, V12, I4
<1>15. v \in V13 => G
  BY DEF Determined, ArgumentTypes, Nil, V13
<1>16. v \in V14 => G
  BY DEF Determined, ArgumentTypes, Nil, V14
<1> HIDE DEF G
<1>17. G
  BY <1>1, <1>3, <1>4, <1>5, <1>6, <1>7, <1>8, <1>9, <1>10, <1>11, <1>12, <1>13, <1>14, <1>15, <1>16
<1> QED
  BY <1>2, <1>17

-----------------------------------------------------------------------------
(* Reading a value                                                         *)

\* A value that changes, whether anything is claimed of it or not.
Altered(v) == Changed(v) \/ Miswritten(v)

\* The bytes b of the value v are read as what was passed, unless v is one of
\* those that change.
ReadAs(v, b) == /\ b \in Seq(Bytes)
                /\ (IF b = <<>> THEN Nil ELSE Decoded(TypeId(v.type), b)) = Sent(v) <=> ~Altered(v)

\* A number in its range fits.
LEMMA RangeFacts ==
    /\ \A w \in Nat : \A n \in Interval(w) : n \in Int /\ Fits(n, w)
    /\ \A n \in Int : n \div Power(Byte, 4) \in Interval(4) => Fits(n, 8)
    /\ \A n \in Bytes : n \in Nat /\ (Fits(n, 1) <=> ~(n >= SignBit))
<1>1. Byte \in Nat /\ Byte >= 4 /\ SignBit \in Nat /\ Byte = 2 * SignBit
  BY ByteFacts
<1>2. ASSUME NEW w \in Nat, NEW n \in Interval(w) PROVE n \in Int /\ Fits(n, w)
  <2>1. PICK p \in Nat : p = Power(Byte, w)
    BY BytePowers
  <2>2. n \in (-(p \div 2))..((p \div 2) - 1)
    BY <1>2, <2>1 DEF Interval
  <2>3. p \div 2 \in Int
    BY <2>1
  <2>4. n \in Int /\ -(p \div 2) <= n /\ n < p \div 2
    BY <2>2, <2>3
  <2> QED
    BY <2>1, <2>4 DEF Fits
<1>3. ASSUME NEW n \in Int, n \div Power(Byte, 4) \in Interval(4) PROVE Fits(n, 8)
  <2>1. PICK p \in Nat : p = Power(Byte, 4)
    BY BytePowers
  <2>2. PICK h \in Nat : p = 2 * h /\ h >= 1
    <3>1. PICK t \in Nat : t = Power(Byte, 3) /\ t > 3
      BY BytePowers
    <3>2. Power(Byte, 3 + 1) = Byte * t
      BY <3>1, BytePowers
    <3>3. p = 2 * (SignBit * t)
      BY <1>1, <2>1, <3>1, <3>2
    <3>4. SignBit * t \in Nat /\ SignBit * t >= 1
      BY <1>1, <3>1
    <3> QED
      BY <3>3, <3>4
  <2>3. Power(Byte, 8) = p * p
    <3>1. 4 \in Nat /\ 4 + 4 = 8 /\ Byte >= 2
      BY <1>1
    <3>2. Power(Byte, 4 + 4) = Power(Byte, 4) * Power(Byte, 4)
      BY <1>1, <3>1, PowerAdds
    <3> QED
      BY <2>1, <3>1, <3>2
  <2>4. PICK q \in Int : q = n \div p
    BY <2>1, <2>2
  <2>5. -h <= q /\ q <= h - 1
    <3>1. q \in (-(p \div 2))..((p \div 2) - 1)
      BY <1>3, <2>1, <2>4 DEF Interval
    <3>2. p \div 2 = h
      BY <2>2
    <3> QED
      BY <3>1, <3>2
  <2>6. PICK r \in 0..(p - 1) : n = p * q + r
    <3>1. p \in Nat /\ p >= 2 /\ n \in Int
      BY <2>2
    <3>2. n = p * (n \div p) + (n % p) /\ n % p \in 0..(p - 1)
      BY ONLY <3>1, IntDivFacts
    <3> QED
      BY <2>4, <3>2, Zenon
  <2>7. p * q >= p * (-h) /\ p * q <= p * (h - 1)
    BY <2>5
  <2>8. PICK x \in Nat : x = p * h
    OBVIOUS
  <2>9. p * (-h) = -x /\ p * (h - 1) = x - p /\ p * q \in Int
    BY <2>8
  <2>10. -x <= n /\ n < x
    BY <2>6, <2>7, <2>9
  <2>11. (p * p) \div 2 = x
    <3>1. p * p = 2 * x
      BY <2>2, <2>8
    <3> QED
      BY <2>8, <3>1
  <2> QED
    BY <2>3, <2>10, <2>11 DEF Fits
<1>4. ASSUME NEW n \in Bytes PROVE n \in Nat /\ (Fits(n, 1) <=> ~(n >= SignBit))
  <2>1. Power(Byte, 1) = Byte
    <3>1. Power(Byte, 0) = 1 /\ Power(Byte, 0 + 1) = Byte * Power(Byte, 0)
      BY <1>1, PowerUnfolds
    <3> QED
      BY <1>1, <3>1
  <2>2. Byte \div 2 = SignBit
    BY <1>1
  <2>3. n \in Nat
    BY <1>1 DEF Bytes
  <2> QED
    BY <1>1, <2>1, <2>2, <2>3 DEF Fits
<1> QED
  BY <1>2, <1>3, <1>4

\* A number is written in a width that it fits.
LEMMA NumberBytes ==
    ASSUME NEW v, Determined(v), v.type \in {"int8", "int16", "int32", "int64", "float32", "float64"}
    PROVE  v.n \in Int /\ \E w \in Nat : w >= 1 /\ Fits(v.n, w) /\ ValueBytes(v) = LittleEndian(v.n, w)
<1>1. ASSUME NEW n \in Int, Fits(n, 8)
      PROVE  \E w \in Nat : w >= 1 /\ Fits(n, w) /\ encodeIntLe(n) = LittleEndian(n, w)
  <2>1. CASE Fits(n, 1)
    BY <2>1 DEF encodeIntLe
  <2>2. CASE ~Fits(n, 1) /\ Fits(n, 2)
    BY <2>2 DEF encodeIntLe
  <2>3. CASE ~Fits(n, 1) /\ ~Fits(n, 2) /\ Fits(n, 4)
    BY <2>3 DEF encodeIntLe
  <2>4. CASE ~Fits(n, 1) /\ ~Fits(n, 2) /\ ~Fits(n, 4)
    BY <1>1, <2>4 DEF encodeIntLe
  <2> QED
    BY <2>1, <2>2, <2>3, <2>4
<1>2. v.type = "int8" => v.n \in Int /\ Fits(v.n, 1)
  BY RangeFacts DEF Determined
<1>3. v.type = "int16" => v.n \in Int /\ Fits(v.n, 2)
  BY RangeFacts DEF Determined
<1>4. v.type \in {"int32", "float32"} => v.n \in Int /\ Fits(v.n, 4)
  BY RangeFacts DEF Determined
<1>5. v.type \in {"int64", "float64"} => v.n \in Int /\ Fits(v.n, 8)
  BY RangeFacts DEF Determined
<1>6. /\ v.type = "int8" => ValueBytes(v) = LittleEndian(v.n, 1)
      /\ v.type \in {"int16", "int32", "int64"} => ValueBytes(v) = encodeIntLe(v.n)
      /\ v.type = "float32" => ValueBytes(v) = LittleEndian(v.n, 4)
      /\ v.type = "float64" => ValueBytes(v) = LittleEndian(v.n, 8)
  BY DEF ValueBytes
<1>7. \A n \in Int : Fits(n, 2) \/ Fits(n, 4) => Fits(n, 8)
  <2>1. PICK p2 \in Nat, p4 \in Nat, p8 \in Nat : /\ p2 = Power(Byte, 2) /\ p4 = Power(Byte, 4) /\ p8 = Power(Byte, 8)
                                                  /\ p2 <= p4 /\ p4 <= p8
    <3>1. \A k, j \in Nat : Power(Byte, k) <= Power(Byte, k + j)
      BY BytePowers
    <3>2. Power(Byte, 2) <= Power(Byte, 2 + 2) /\ Power(Byte, 4) <= Power(Byte, 4 + 4)
      BY <3>1
    <3>3. 2 + 2 = 4 /\ 4 + 4 = 8
      OBVIOUS
    <3>4. Power(Byte, 2) \in Nat /\ Power(Byte, 4) \in Nat /\ Power(Byte, 8) \in Nat
      BY BytePowers
    <3> QED
      BY <3>2, <3>3, <3>4
  <2>2. p2 \div 2 <= p4 \div 2 /\ p4 \div 2 <= p8 \div 2 /\ p2 \div 2 \in Int /\ p4 \div 2 \in Int /\ p8 \div 2 \in Int
    BY <2>1
  <2> QED
    BY <2>1, <2>2 DEF Fits
<1>8. CASE v.type \in {"int16", "int32", "int64"}
  <2>1. v.n \in Int /\ Fits(v.n, 8)
    BY <1>3, <1>4, <1>5, <1>7, <1>8
  <2> QED
    BY <1>1, <1>6, <1>8, <2>1
<1>9. CASE v.type \in {"int8", "float32", "float64"}
  BY <1>2, <1>4, <1>5, <1>6, <1>9
<1> QED
  BY <1>8, <1>9

\* Integers and floats arrive.
LEMMA NumberArrives ==
    ASSUME NEW v, Determined(v), v.type \in {"int8", "int16", "int32", "int64", "float32", "float64"}
    PROVE  ReadAs(v, ValueBytes(v))
<1>1. PICK w \in Nat : w >= 1 /\ v.n \in Int /\ Fits(v.n, w) /\ ValueBytes(v) = LittleEndian(v.n, w)
  BY NumberBytes
<1>2. PICK b : b = ValueBytes(v)
  OBVIOUS
<1>3. b \in Seq(Bytes) /\ Len(b) = w /\ Signed(Reversed(b)) = v.n
  BY <1>1, <1>2, LittleEndianFacts
<1>4. b # <<>>
  BY <1>1, <1>3, NotEmpty
<1>5. Decoded(TypeId(v.type), b) = [type |-> v.type, n |-> v.n]
  BY <1>3, TypeIds, DecodedNumbers
<1>6. Sent(v) = v /\ ~Altered(v)
  BY DEF Sent, Altered, Changed, Miswritten
<1>7. v = [type |-> v.type, n |-> v.n]
  BY DEF Determined
<1> QED
  BY <1>2, <1>3, <1>4, <1>5, <1>6, <1>7, Zenon DEF ReadAs

\* A Go byte arrives if it is in the range of a TINYINT.
LEMMA ByteArrives ==
    ASSUME NEW v, Determined(v), v.type = "byte"
    PROVE  ReadAs(v, ValueBytes(v))
<1>1. v.n \in Bytes /\ v.n \in Int /\ (Fits(v.n, 1) <=> ~(v.n >= SignBit))
  BY RangeFacts DEF Determined
<1>2. PICK b : b = ValueBytes(v)
  OBVIOUS
<1>3. b = LittleEndian(v.n, 1)
  BY <1>2 DEF ValueBytes
<1>4. b \in Seq(Bytes) /\ Len(b) = 1 /\ (Signed(Reversed(b)) = v.n <=> Fits(v.n, 1))
  <2>1. PICK w \in Nat : w = 1
    OBVIOUS
  <2>2. w >= 1 /\ b = LittleEndian(v.n, w)
    BY <1>3, <2>1
  <2>3. b \in Seq(Bytes) /\ Len(b) = w /\ (Signed(Reversed(b)) = v.n <=> Fits(v.n, w))
    BY <1>1, <2>2, LittleEndianFacts
  <2> QED
    BY <2>1, <2>3, Zenon
<1>5. b # <<>>
  BY <1>4, NotEmpty
<1>6. Decoded(TypeId(v.type), b) = [type |-> "int8", n |-> Signed(Reversed(b))]
  BY TypeIds, DecodedNumbers
<1>7. Sent(v) = [type |-> "int8", n |-> v.n] /\ (Altered(v) <=> v.n >= SignBit)
  BY DEF Sent, Altered, Changed, Miswritten
<1>8. \A x, y : [type |-> "int8", n |-> x] = [type |-> "int8", n |-> y] <=> x = y
  OBVIOUS
<1> QED
  BY <1>1, <1>2, <1>4, <1>5, <1>6, <1>7, <1>8, Zenon DEF ReadAs

\* Booleans arrive.
LEMMA BoolArrives ==
    ASSUME NEW v, Determined(v), v.type = "bool"
    PROVE  ReadAs(v, ValueBytes(v))
<1>1. v.b \in BOOLEAN /\ v = [type |-> "bool", b |-> v.b]
  BY Zenon DEF Determined
<1>2. PICK b : b = ValueBytes(v)
  OBVIOUS
<1>3. b = IF v.b THEN <<1>> ELSE <<0>>
  BY <1>2 DEF ValueBytes
<1>4. b \in Seq(Bytes) /\ Len(b) = 1 /\ b[1] = IF v.b THEN 1 ELSE 0
  <2>1. 1 \in Bytes /\ 0 \in Bytes
    BY ByteFacts DEF Bytes
  <2> QED
    BY <1>1, <1>3, <2>1
<1>5. b # <<>>
  BY <1>4, NotEmpty
<1>6. (b[1] # 0) = v.b
  BY <1>1, <1>4
<1>7. Decoded(TypeId(v.type), b) = [type |-> "bool", b |-> b[1] # 0]
  <2>1. TypeId(v.type) = 1
    BY TypeIds
  <2>2. Decoded(1, b) = [type |-> "bool", b |-> b[1] # 0]
    BY DecodedFacts
  <2> QED
    BY <2>1, <2>2, Zenon
<1>8. Sent(v) = v /\ ~Altered(v)
  BY DEF Sent, Altered, Changed, Miswritten
<1> QED
  BY <1>1, <1>2, <1>4, <1>5, <1>6, <1>7, <1>8, Zenon DEF ReadAs

\* Strings and bytes have no marker in front.
LEMMA StringArrives ==
    ASSUME NEW v, Determined(v), v.type \in {"string", "bytes"}
    PROVE  ReadAs(v, ValueBytes(v))
<1>1. v.s \in Seq(Bytes) /\ v = [type |-> v.type, s |-> v.s]
  BY DEF Determined
<1>2. ValueBytes(v) = v.s
  BY DEF ValueBytes
<1>3. Sent(v) = v /\ (Altered(v) <=> v.s = <<>> \/ v.s[1] = SignBit)
  BY DEF Sent, Altered, Changed, Miswritten
<1>4. Decoded(TypeId(v.type), v.s) = [type |-> v.type, s |-> Unmarked(v.s)]
  <2>1. TypeId("string") = 15 /\ TypeId("bytes") = 16
    BY TypeIds
  <2> QED
    BY <2>1, DecodedFacts
<1>5. v # Nil
  BY DEF Nil
<1>6. ASSUME v.s # <<>> PROVE Unmarked(v.s) = v.s <=> v.s[1] # SignBit
  <2>1. CASE v.s[1] = SignBit
    <3>1. Unmarked(v.s) = Tail(v.s)
      BY <2>1 DEF Unmarked
    <3>2. Len(Tail(v.s)) # Len(v.s)
      BY <1>1, <1>6
    <3> QED
      BY <2>1, <3>1, <3>2
  <2>2. CASE v.s[1] # SignBit
    BY <2>2 DEF Unmarked
  <2> QED
    BY <2>1, <2>2
<1>7. \A x : [type |-> v.type, s |-> x] = v <=> x = v.s
  BY <1>1
<1> QED
  BY <1>1, <1>2, <1>3, <1>4, <1>5, <1>6, <1>7, Zenon DEF ReadAs

\* A UUID is flipped twice.
LEMMA FlipFacts ==
    ASSUME NEW s \in Seq(Bytes), Len(s) = 16
    PROVE  Flip(s) \in Seq(Bytes) /\ Len(Flip(s)) = 16 /\ Flip(Flip(s)) = s
<1>1. PICK m \in Nat, n \in Nat : m = 8 /\ n = 8
  OBVIOUS
<1>2. PICK a, c : a = SubSeq(s, 1, m) /\ c = SubSeq(s, m + 1, Len(s))
  OBVIOUS
<1>3. s = a \o c /\ a \in Seq(Bytes) /\ Len(a) = m /\ c \in Seq(Bytes) /\ Len(c) = Len(s) - m
  <2>1. m <= Len(s)
    BY <1>1
  <2> QED
    BY ONLY <1>2, <2>1, s \in Seq(Bytes), m \in Nat, SplitFacts
<1>4. Len(c) = n
  BY <1>1, <1>3
<1>5. ASSUME NEW x \in Seq(Bytes), NEW y \in Seq(Bytes), Len(x) = m, Len(y) = n
      PROVE  Flip(x \o y) = Reversed(x) \o Reversed(y)
  <2>1. SubSeq(x \o y, 1, m) = x /\ SubSeq(x \o y, m + 1, m + n) = y
    BY <1>5, TwoParts
  <2>2. m = 8 /\ m + 1 = 9 /\ m + n = 16
    BY <1>1
  <2>3. SubSeq(x \o y, 1, 8) = x /\ SubSeq(x \o y, 9, 16) = y
    BY <2>1, <2>2
  <2> QED
    BY <2>3 DEF Flip
<1>6. Flip(s) = Reversed(a) \o Reversed(c)
  BY <1>3, <1>4, <1>5
<1>7. /\ Reversed(a) \in Seq(Bytes) /\ Len(Reversed(a)) = m /\ Reversed(Reversed(a)) = a
      /\ Reversed(c) \in Seq(Bytes) /\ Len(Reversed(c)) = n /\ Reversed(Reversed(c)) = c
  BY <1>3, <1>4, ReversedFacts, ReversedTwice
<1>8. Flip(Reversed(a) \o Reversed(c)) = a \o c
  BY <1>5, <1>7
<1>9. Flip(s) \in Seq(Bytes) /\ Len(Flip(s)) = m + n
  <2>1. PICK x \in Seq(Bytes), y \in Seq(Bytes) : Flip(s) = x \o y /\ Len(x) = m /\ Len(y) = n
    BY <1>6, <1>7
  <2> QED
    BY ONLY <2>1, ConcatFacts
<1>10. m + n = 16
  BY <1>1
<1> QED
  BY <1>3, <1>6, <1>8, <1>9, <1>10

\* UUIDs arrive: both sides reverse the halves.
LEMMA UuidArrives ==
    ASSUME NEW v, Determined(v), v.type = "uuid"
    PROVE  ReadAs(v, ValueBytes(v))
<1>1. v.s \in [1..16 -> Bytes] /\ v = [type |-> "uuid", s |-> v.s]
  BY DEF Determined
<1>2. v.s \in Seq(Bytes) /\ Len(v.s) = 16
  <2>1. PICK n \in Nat : n = 16
    OBVIOUS
  <2>2. v.s \in [1..n -> Bytes]
    BY <1>1, <2>1
  <2>3. v.s \in Seq(Bytes) /\ Len(v.s) = n
    BY ONLY <2>2, n \in Nat, FunctionIsSeq
  <2> QED
    BY <2>1, <2>3, Zenon
<1>3. PICK b : b = ValueBytes(v)
  OBVIOUS
<1>4. b = Flip(v.s)
  BY <1>3 DEF ValueBytes
<1>5. b \in Seq(Bytes) /\ Len(b) = 16 /\ Flip(b) = v.s
  BY <1>2, <1>4, FlipFacts
<1>6. b # <<>>
  <2>1. Len(b) # 0
    BY <1>5
  <2> QED
    BY <2>1, NotEmpty
<1>7. Decoded(TypeId(v.type), b) = [type |-> "uuid", s |-> Flip(b)]
  BY TypeIds, DecodedFacts
<1>8. Sent(v) = v /\ ~Altered(v)
  BY DEF Sent, Altered, Changed, Miswritten
<1> QED
  BY <1>1, <1>3, <1>5, <1>6, <1>7, <1>8, Zenon DEF ReadAs

\* Timestamps arrive.
LEMMA TimestampArrives ==
    ASSUME NEW v, Determined(v), v.type = "timestamp"
    PROVE  ReadAs(v, ValueBytes(v))
<1>1. v = [type |-> "timestamp", sec |-> v.sec, nsec |-> v.nsec]
  BY DEF Determined
<1>2. v.sec \in Int /\ Fits(v.sec, 8)
  BY RangeFacts DEF Determined
<1>3. v.nsec \in Int /\ Fits(v.nsec, 4)
  BY RangeFacts DEF Determined
<1>4. PICK m \in Nat, n \in Nat : m = 8 /\ n = 4
  OBVIOUS
<1>5. PICK a, c, b : a = LittleEndian(v.sec, m) /\ c = LittleEndian(v.nsec, n) /\ b = a \o c
  OBVIOUS
<1>6. ValueBytes(v) = b
  <2>1. ValueBytes(v) = TimeBytes(v)
    BY DEF ValueBytes
  <2>2. TimeBytes(v) = LittleEndian(v.sec, 8) \o LittleEndian(v.nsec, 4)
    BY DEF TimeBytes
  <2> QED
    BY <1>4, <1>5, <2>1, <2>2, Zenon
<1>7. m >= 1 /\ n >= 1 /\ Fits(v.sec, m) /\ Fits(v.nsec, n) /\ m + 1 = 9 /\ m + n = 12
  BY <1>2, <1>3, <1>4
<1>8. a \in Seq(Bytes) /\ Len(a) = m /\ Signed(Reversed(a)) = v.sec
  BY <1>2, <1>5, <1>7, LittleEndianFacts
<1>9. c \in Seq(Bytes) /\ Len(c) = n /\ Signed(Reversed(c)) = v.nsec
  BY <1>3, <1>5, <1>7, LittleEndianFacts
<1>10. /\ b \in Seq(Bytes) /\ Len(b) = m + n
       /\ SubSeq(b, 1, m) = a /\ SubSeq(b, m + 1, m + n) = c
  <2>1. b = a \o c
    BY <1>5
  <2>2. a \in Seq(Bytes) /\ Len(a) = m /\ c \in Seq(Bytes) /\ Len(c) = n
    BY <1>8, <1>9
  <2> QED
    BY ONLY <2>1, <2>2, m \in Nat, n \in Nat, TwoParts
<1>11. SubSeq(b, 1, 8) = a /\ SubSeq(b, 9, 12) = c
  BY <1>4, <1>7, <1>10
<1>12. b # <<>>
  <2>1. Len(b) # 0
    BY <1>7, <1>10
  <2> QED
    BY <2>1, NotEmpty
<1>13. Decoded(TypeId(v.type), b) = v
  <2>1. TypeId(v.type) = 12
    BY TypeIds
  <2>2. Decoded(12, b) = [type |-> "timestamp", sec |-> Signed(Reversed(SubSeq(b, 1, 8))),
                          nsec |-> Signed(Reversed(SubSeq(b, 9, 12)))]
    BY DecodedFacts
  <2> QED
    BY <1>1, <1>8, <1>9, <1>11, <2>1, <2>2, Zenon
<1>14. Sent(v) = v /\ ~Altered(v)
  BY DEF Sent, Altered, Changed, Miswritten
<1> QED
  BY <1>6, <1>10, <1>12, <1>13, <1>14, Zenon DEF ReadAs

\* Dates and times are whole bytes, and those bits again.
LEMMA WholeBytes ==
    ASSUME NEW n \in {24, 48, 72}, NEW bits, BitString(bits, n)
    PROVE  /\ ToBytes(bits) \in Seq(Bytes) /\ ToBytes(bits) # <<>>
           /\ ToBits(ToBytes(bits)) = bits
<1>1. ByteBits \in Nat /\ ByteBits >= 2
  BY ByteFacts
<1>2. PICK k \in Nat : k >= 1 /\ k * ByteBits = 24
  <2>1. 24 = ByteBits * (24 \div ByteBits) + (24 % ByteBits) /\ 24 \div ByteBits \in Nat
    <3>1. PICK x, b \in Nat : x = 24 /\ b = ByteBits /\ b >= 2
      BY <1>1
    <3>2. x \div b \in Nat /\ x = b * (x \div b) + (x % b)
      BY ONLY <3>1, x \in Nat, b \in Nat, DivFacts
    <3> QED
      BY <3>1, <3>2, Zenon
  <2>2. PICK k \in Nat : k = 24 \div ByteBits
    BY <2>1
  <2>3. k * ByteBits = 24
    BY <1>1, <2>1, <2>2, ByteBitsAssumption
  <2>4. k # 0
    BY <1>1, <2>3
  <2> QED
    BY <2>3, <2>4
<1>3. PICK j \in Nat : j >= 1 /\ n = j * 24
  OBVIOUS
<1>4. PICK l \in Nat : l = j * k
  BY <1>2, <1>3
<1>5. l >= 1
  BY <1>2, <1>3, <1>4
<1>6. l * ByteBits = n
  BY <1>1, <1>2, <1>3, <1>4
<1>7. BitString(bits, l * ByteBits) /\ ByteBits >= 1
  BY <1>1, <1>6
<1>8. /\ Pack(bits, ByteBits) \in Seq(0..(Power(2, ByteBits) - 1)) /\ Len(Pack(bits, ByteBits)) = l
      /\ Unpack(Pack(bits, ByteBits), ByteBits) = bits
  BY <1>1, <1>7, PackFacts
<1>9. ToBytes(bits) # <<>>
  <2>1. Len(ToBytes(bits)) # 0
    BY <1>5, <1>8 DEF ToBytes
  <2> QED
    BY <2>1, NotEmpty
<1> QED
  BY <1>8, <1>9 DEF ToBytes, ToBits, Bytes, Byte

\* The fields of a date, with other bits after it or none.
LEMMA DateRead ==
    ASSUME NEW v, v.year \in Int, v.month \in 1..12, v.day \in 1..31, DateInRange(v),
           NEW n \in Nat, NEW r, BitString(r, n), NEW bits, bits = encodeDate(v) \o r
    PROVE  YearOf(bits) = v.year /\ MonthOf(bits) = v.month /\ DayOf(bits) = v.day
<1>1. PICK a : a = encodeDate(v)
  OBVIOUS
<1>2. /\ BitString(a, 24) /\ Field(a, 0, 5) = v.day /\ Field(a, 5, 4) = v.month
  BY <1>1, DateFields
<1>3. Field(a, 9, 15) - 32768 * a[24] = v.year
  BY <1>1, YearSign
<1>4. bits = a \o r
  BY <1>1
<1>5. \A i, w \in Nat : i + w <= 24 => Field(a \o r, i, w) = Field(a, i, w)
  BY <1>2, FieldOfConcat
<1>6. Field(bits, 9, 15) = Field(a, 9, 15)
  BY <1>4, <1>5
<1>7. Field(bits, 5, 4) = Field(a, 5, 4)
  BY <1>4, <1>5
<1>8. Field(bits, 0, 5) = Field(a, 0, 5)
  BY <1>4, <1>5
<1>9. bits[24] = a[24]
  <2>1. PICK u \in Nat : u = 24
    OBVIOUS
  <2>2. a \in Seq(0..1) /\ Len(a) = u /\ r \in Seq(0..1) /\ u \in 1..u
    BY <1>2, <2>1 DEF BitString
  <2>3. (a \o r)[u] = a[u]
    BY <2>2, ConcatFacts
  <2> QED
    BY <1>4, <2>1, <2>3
<1>10. YearOf(bits) = v.year
  BY <1>3, <1>6, <1>9 DEF YearOf
<1>11. MonthOf(bits) = v.month /\ DayOf(bits) = v.day
  BY <1>2, <1>7, <1>8 DEF MonthOf, DayOf
<1> QED
  BY <1>10, <1>11

\* The fields of a time.
LEMMA TimeRead ==
    ASSUME NEW v, IsClock(v.secs, v.nsec), NEW t, t = encodeTime(v)
    PROVE  BitString(t, 48) /\ SecsOf(t) = v.secs /\ NsecOf(t) = v.nsec
<1>1. PICK f \in Nat, k \in Nat : f = 30 /\ k = 1
  OBVIOUS
<1>2. /\ BitString(Bits(v.nsec, 30), 30) /\ BitString(<<0>>, 1)
      /\ IsTime(encodeTime(v), Bits(v.nsec, 30), v.secs, <<0>>)
      /\ BitString(encodeTime(v), 48)
  BY TimesFacts
<1>3. v.secs \in Nat /\ v.secs < Day /\ v.nsec \in Nat /\ v.nsec < Billion
  BY DEF IsClock
<1>4. PICK a, z : a = Bits(v.nsec, f) /\ z = <<0>>
  OBVIOUS
<1>5. BitString(a, f) /\ BitString(z, k) /\ IsTime(t, a, v.secs, z)
  BY <1>1, <1>2, <1>4
<1>6. /\ Field(t, 0, f) = Number(a)
      /\ Field(t, f, 6) + 60 * Field(t, f + 6, 6) + Hour * Field(t, f + 12, 5) = v.secs
  BY <1>3, <1>5, TimeFields
<1>7. f + 6 = 36 /\ f + 12 = 42
  BY <1>1
<1>8. SecsOf(t) = v.secs
  BY <1>1, <1>6, <1>7, Zenon DEF SecsOf
<1>9. Number(a) = v.nsec
  <2>1. v.nsec < Power(2, f)
    BY <1>1, <1>3, PowersOfTwo DEF Billion
  <2> QED
    BY <1>3, <1>4, <2>1, NumberOfBits
<1>10. NsecOf(t) = v.nsec
  BY <1>1, <1>6, <1>9, Zenon DEF NsecOf
<1> QED
  BY <1>2, <1>8, <1>10

\* A time of day has its ranges.
LEMMA ClockInRange ==
    ASSUME NEW v, Determined(v), v.type \in {"time", "datetime"}
    PROVE  IsClock(v.secs, v.nsec)
<1>1. PICK d \in Nat, n \in Nat : d = Day /\ n = Billion
  BY DEF Day, Billion
<1>2. v.secs \in 0..(d - 1) /\ v.nsec \in 0..(n - 1)
  BY <1>1 DEF Determined
<1>3. v.secs \in Nat /\ v.secs < d /\ v.nsec \in Nat /\ v.nsec < n
  BY <1>2
<1> QED
  BY <1>1, <1>3, Zenon DEF IsClock

\* Dates arrive.
LEMMA DateArrives ==
    ASSUME NEW v, Determined(v), v.type = "date", DateInRange(v)
    PROVE  ReadAs(v, ValueBytes(v))
<1>1. /\ v.year \in Int /\ v.month \in 1..12 /\ v.day \in 1..31
      /\ v = [type |-> "date", year |-> v.year, month |-> v.month, day |-> v.day]
  BY DEF Determined
<1>2. PICK d, b : d = encodeDate(v) /\ b = ToBytes(d)
  OBVIOUS
<1>3. ValueBytes(v) = b
  <2>1. ValueBytes(v) = TimeBytes(v)
    BY DEF ValueBytes
  <2>2. TimeBytes(v) = ToBytes(encodeDate(v))
    BY DEF TimeBytes
  <2> QED
    BY <1>2, <2>1, <2>2, Zenon
<1>4. BitString(d, 24)
  BY <1>1, <1>2, DateFields
<1>5. b \in Seq(Bytes) /\ b # <<>> /\ ToBits(b) = d
  BY <1>2, <1>4, WholeBytes
<1>6. PICK n \in Nat : \E r : BitString(r, n) /\ d = encodeDate(v) \o r
  <2>1. BitString(<<>>, 0)
    BY DEF BitString
  <2>2. d \o <<>> = d
    BY <1>4 DEF BitString
  <2> QED
    BY <1>2, <2>1, <2>2
<1>7. YearOf(d) = v.year /\ MonthOf(d) = v.month /\ DayOf(d) = v.day
  BY <1>1, <1>6, DateRead
<1>8. Decoded(TypeId(v.type), b) = v
  <2>1. TypeId(v.type) = 9
    BY TypeIds
  <2>2. Decoded(9, b) = [type |-> "date", year |-> YearOf(ToBits(b)),
                         month |-> MonthOf(ToBits(b)), day |-> DayOf(ToBits(b))]
    BY DecodedFacts
  <2> QED
    BY <1>1, <1>5, <1>7, <2>1, <2>2, Zenon
<1>9. Sent(v) = v /\ ~Altered(v)
  BY DEF Sent, Altered, Changed, Miswritten
<1> QED
  BY <1>3, <1>5, <1>8, <1>9, Zenon DEF ReadAs

\* Times arrive.
LEMMA TimeArrives ==
    ASSUME NEW v, Determined(v), v.type = "time"
    PROVE  ReadAs(v, ValueBytes(v))
<1>1. v = [type |-> "time", secs |-> v.secs, nsec |-> v.nsec] /\ IsClock(v.secs, v.nsec)
  BY ClockInRange DEF Determined
<1>2. PICK t, b : t = encodeTime(v) /\ b = ToBytes(t)
  OBVIOUS
<1>3. ValueBytes(v) = b
  <2>1. ValueBytes(v) = TimeBytes(v)
    BY DEF ValueBytes
  <2>2. TimeBytes(v) = ToBytes(encodeTime(v))
    BY DEF TimeBytes
  <2> QED
    BY <1>2, <2>1, <2>2, Zenon
<1>4. BitString(t, 48) /\ SecsOf(t) = v.secs /\ NsecOf(t) = v.nsec
  BY <1>1, <1>2, TimeRead
<1>5. b \in Seq(Bytes) /\ b # <<>> /\ ToBits(b) = t
  BY <1>2, <1>4, WholeBytes
<1>6. Decoded(TypeId(v.type), b) = v
  <2>1. TypeId(v.type) = 10
    BY TypeIds
  <2>2. Decoded(10, b) = [type |-> "time", secs |-> SecsOf(ToBits(b)), nsec |-> NsecOf(ToBits(b))]
    BY DecodedFacts
  <2> QED
    BY <1>1, <1>4, <1>5, <2>1, <2>2, Zenon
<1>7. Sent(v) = v /\ ~Altered(v)
  BY DEF Sent, Altered, Changed, Miswritten
<1> QED
  BY <1>3, <1>5, <1>6, <1>7, Zenon DEF ReadAs

\* Datetimes arrive.
LEMMA DateTimeArrives ==
    ASSUME NEW v, Determined(v), v.type = "datetime", DateInRange(v)
    PROVE  ReadAs(v, ValueBytes(v))
<1>1. /\ v.year \in Int /\ v.month \in 1..12 /\ v.day \in 1..31 /\ IsClock(v.secs, v.nsec)
      /\ v = [type |-> "datetime", year |-> v.year, month |-> v.month, day |-> v.day,
              secs |-> v.secs, nsec |-> v.nsec]
  BY ClockInRange DEF Determined
<1>2. PICK d, t, x, b : d = encodeDate(v) /\ t = encodeTime(v) /\ x = d \o t /\ b = ToBytes(x)
  OBVIOUS
<1>3. ValueBytes(v) = b
  <2>1. ValueBytes(v) = TimeBytes(v)
    BY DEF ValueBytes
  <2>2. TimeBytes(v) = ToBytes(encodeDate(v) \o encodeTime(v))
    BY DEF TimeBytes
  <2> QED
    BY <1>2, <2>1, <2>2, Zenon
<1>4. BitString(d, 24) /\ BitString(t, 48) /\ SecsOf(t) = v.secs /\ NsecOf(t) = v.nsec
  BY <1>1, <1>2, DateFields, TimeRead
<1>5. YearOf(x) = v.year /\ MonthOf(x) = v.month /\ DayOf(x) = v.day
  BY <1>1, <1>2, <1>4, DateRead
<1>6. BitString(x, 72) /\ SubSeq(x, 25, 72) = t
  <2>1. PICK m \in Nat, n \in Nat : m = 24 /\ n = 48
    OBVIOUS
  <2>2. BitString(d, m) /\ BitString(t, n)
    BY <1>4, <2>1
  <2>3. BitString(d \o t, m + n) /\ SubSeq(d \o t, m + 1, m + n) = t
    BY <2>2, SecondBits, SMTT(60)
  <2>4. m + n = 72 /\ m + 1 = 25
    BY <2>1
  <2> QED
    BY <1>2, <2>3, <2>4, Zenon
<1>7. b \in Seq(Bytes) /\ b # <<>> /\ ToBits(b) = x
  BY <1>2, <1>6, WholeBytes
<1>8. Decoded(TypeId(v.type), b) = v
  <2>1. TypeId(v.type) = 11
    BY TypeIds
  <2>2. Decoded(11, b) = [type |-> "datetime", year |-> YearOf(ToBits(b)),
                          month |-> MonthOf(ToBits(b)), day |-> DayOf(ToBits(b)),
                          secs |-> SecsOf(SubSeq(ToBits(b), 25, 72)),
                          nsec |-> NsecOf(SubSeq(ToBits(b), 25, 72))]
    BY DecodedFacts
  <2> QED
    BY <1>1, <1>4, <1>5, <1>6, <1>7, <2>1, <2>2, Zenon
<1>9. Sent(v) = v /\ ~Altered(v)
  BY DEF Sent, Altered, Changed, Miswritten
<1> QED
  BY <1>3, <1>7, <1>8, <1>9, Zenon DEF ReadAs

\* The parts of a decimal: two bytes of scale, and the number.
LEMMA DecimalBytes ==
    ASSUME NEW v, Determined(v), v.type = "decimal", NEW a, a = LittleEndian(v.scale, 2),
           NEW u, u = encodeDecimalUnscaled(v.unscaled)
    PROVE  /\ v.scale \in Int /\ v.unscaled \in Int
           /\ a \in Seq(Bytes) /\ Len(a) = 2
           /\ u \in Seq(Bytes) /\ Len(u) >= 1
           /\ ValueBytes(v) = a \o u
           /\ ValueBytes(v) \in Seq(Bytes) /\ Len(ValueBytes(v)) = 2 + Len(u)
<1>1. v.scale \in Int /\ v.unscaled \in Int
  BY DEF Determined
<1>2. PICK m \in Nat : m = 2
  OBVIOUS
<1>3. a \in Seq(Bytes) /\ Len(a) = m
  BY <1>1, <1>2, LittleEndianFacts
<1>4. u \in Seq(Bytes) /\ Len(u) >= 1
  BY <1>1, UnscaledFacts
<1>5. ValueBytes(v) = a \o u
  BY DEF ValueBytes
<1>6. a \o u \in Seq(Bytes) /\ Len(a \o u) = Len(a) + Len(u)
  BY <1>3, <1>4, ConcatFacts
<1> QED
  BY <1>1, <1>2, <1>3, <1>4, <1>5, <1>6, Zenon

\* Two bytes.
LEMMA TwoBytes ==
    ASSUME NEW x \in Bytes, NEW y \in Bytes, NEW c, c = <<x>> \o <<y>>
    PROVE  /\ c \in Seq(Bytes) /\ Len(c) = 2 /\ c[1] = x /\ c[2] = y
           /\ Reversed(c) = <<y>> \o <<x>>
           /\ x >= SignBit => Signed(c) = (x * Byte + y) - Byte * Byte
           /\ x < SignBit => Signed(c) = x * Byte + y
<1>1. Byte \in Nat /\ Byte >= 4 /\ x \in Nat /\ y \in Nat
  BY ByteFacts DEF Bytes
<1>2. PICK p, q : p = <<x>> /\ q = <<y>>
  OBVIOUS
<1>3. p \in Seq(Bytes) /\ Len(p) = 1 /\ p[1] = x /\ q \in Seq(Bytes) /\ Len(q) = 1 /\ q[1] = y
  BY <1>2, SingleFacts
<1>4. c = p \o q /\ c = <<x>> \o q
  BY <1>2, Zenon
<1>5. c \in Seq(Bytes) /\ Len(c) = 2 /\ c[1] = x /\ c[2] = y
  BY <1>3, <1>4, ConcatFacts
<1>6. Reversed(c) = <<y>> \o <<x>>
  BY <1>5 DEF Reversed
<1>7. Power(Byte, 0) = 1 /\ Power(Byte, 0 + 1) = Byte * Power(Byte, 0) /\ Power(Byte, 1 + 1) = Byte * Power(Byte, 1)
  BY <1>1, PowerUnfolds
<1>8. Power(Byte, 1) = Byte /\ Power(Byte, 2) = Byte * Byte
  BY <1>1, <1>7
<1>9. Value(q, Byte) = y
  BY <1>1, <1>2, ValueOfDigit
<1>10. Value(c, Byte) = x * Byte + y
  <2>1. Len(q) >= 1
    BY <1>3
  <2>2. Value(<<x>> \o q, Byte) = x * Power(Byte, Len(q)) + Value(q, Byte)
    BY <1>3, <2>1, InFront
  <2> QED
    BY <1>3, <1>4, <1>8, <1>9, <2>2, Zenon
<1>11. /\ c[1] >= SignBit => Signed(c) = Value(c, Byte) - Power(Byte, Len(c))
       /\ c[1] < SignBit => Signed(c) = Value(c, Byte)
  <2>1. c \in Seq(Bytes) /\ Len(c) >= 1
    BY <1>5
  <2> QED
    BY <2>1, SignedFacts
<1> QED
  BY <1>5, <1>6, <1>8, <1>10, <1>11, Zenon

\* The two bytes of a scale, the lower one first.
LEMMA ScaleBytes ==
    ASSUME NEW n \in Int, Fits(n, 2), NEW a, a = LittleEndian(n, 2)
    PROVE  /\ a \in Seq(Bytes) /\ Len(a) = 2 /\ a[1] \in Bytes /\ a[2] \in Bytes
           /\ a = <<a[1]>> \o <<a[2]>>
           /\ Signed(Reversed(a)) = n
<1>1. PICK m \in Nat : m = 2
  OBVIOUS
<1>2. m >= 1 /\ a = LittleEndian(n, m) /\ Fits(n, m)
  BY <1>1
<1>3. a \in Seq(Bytes) /\ Len(a) = m /\ Signed(Reversed(a)) = n
  BY ONLY <1>2, n \in Int, m \in Nat, LittleEndianFacts
<1>4. Len(a) = 2
  BY <1>1, <1>3
<1>5. a[1] \in Bytes /\ a[2] \in Bytes
  <2>1. \A i \in 1..m : a[i] \in Bytes
    BY ONLY <1>3
  <2>2. 1 \in 1..m /\ 2 \in 1..m
    BY ONLY <1>1
  <2> QED
    BY ONLY <2>1, <2>2
<1>6. a = <<a[1]>> \o <<a[2]>>
  BY ONLY <1>3, <1>4
<1> QED
  BY <1>3, <1>4, <1>5, <1>6, Zenon

\* Decimals whose scale takes one byte arrive, unless they are shortened.
LEMMA DecimalArrives ==
    ASSUME NEW v, Determined(v), v.type = "decimal", Fits(v.scale, 2), ~(v.scale >= Byte - 1)
    PROVE  ReadAs(v, ValueBytes(v))
<1>1. PICK a, u, b : /\ a = LittleEndian(v.scale, 2) /\ u = encodeDecimalUnscaled(v.unscaled)
                     /\ b = ValueBytes(v)
  OBVIOUS
<1>2. /\ v.scale \in Int /\ v.unscaled \in Int
      /\ a \in Seq(Bytes) /\ Len(a) = 2 /\ u \in Seq(Bytes) /\ Len(u) >= 1
      /\ b = a \o u /\ b \in Seq(Bytes) /\ Len(b) = 2 + Len(u)
  BY <1>1, DecimalBytes, Zenon
<1>3. Len(u) \in Nat
  BY <1>2
<1>4. PICK m \in Nat, n \in Nat : m = 2 /\ n = Len(u)
  BY <1>3
<1>5. SubSeq(b, 1, m) = a /\ SubSeq(b, m + 1, m + n) = u
  <2>1. Len(a) = m /\ Len(u) = n /\ b = a \o u /\ a \in Seq(Bytes) /\ u \in Seq(Bytes)
    BY <1>2, <1>4, Zenon
  <2> QED
    BY ONLY <2>1, m \in Nat, n \in Nat, TwoParts
<1>6. SubSeq(b, 1, 2) = a /\ SubSeq(b, 3, Len(b)) = u
  <2>1. m + 1 = 3 /\ m + n = Len(b)
    BY ONLY <1>2, <1>4
  <2> QED
    BY <1>4, <1>5, <2>1, Zenon
<1>7. Signed(Reversed(a)) = v.scale
  BY <1>1, <1>2, ScaleBytes, Zenon
<1>8. Signed(u) = v.unscaled <=> ~Shortened(v.unscaled)
  BY <1>1, <1>2, UnscaledFacts, Zenon
<1>9. Altered(v) <=> Shortened(v.unscaled)
  BY DEF Altered, Changed, Miswritten, Shortened
<1>10. Sent(v) = v
  BY DEF Sent
<1>11. b # <<>>
  <2>1. Len(b) # 0
    BY ONLY <1>2, <1>3
  <2> QED
    BY <2>1, NotEmpty
<1>12. Decoded(TypeId(v.type), b) = [type |-> "decimal", unscaled |-> Signed(u), scale |-> v.scale]
  <2>1. TypeId(v.type) = 8
    BY TypeIds
  <2>2. Decoded(8, b) = [type |-> "decimal", unscaled |-> Signed(SubSeq(b, 3, Len(b))),
                         scale |-> Signed(Reversed(SubSeq(b, 1, 2)))]
    BY DecodedFacts
  <2> QED
    BY <1>6, <1>7, <2>1, <2>2, Zenon
<1>13. \A x : [type |-> "decimal", unscaled |-> x, scale |-> v.scale] = v <=> x = v.unscaled
  <2>1. v = [type |-> "decimal", unscaled |-> v.unscaled, scale |-> v.scale]
    BY DEF Determined
  <2>2. ASSUME NEW x, NEW y, NEW z
        PROVE  [type |-> "decimal", unscaled |-> x, scale |-> z]
                  = [type |-> "decimal", unscaled |-> y, scale |-> z] <=> x = y
    <3> DEFINE r(t) == [type |-> "decimal", unscaled |-> t, scale |-> z]
    <3>1. r(x).unscaled = x /\ r(y).unscaled = y
      OBVIOUS
    <3> QED
      BY <3>1, Zenon
  <2>3. \A x : [type |-> "decimal", unscaled |-> x, scale |-> v.scale]
                 = [type |-> "decimal", unscaled |-> v.unscaled, scale |-> v.scale] <=> x = v.unscaled
    BY <2>2
  <2> QED
    BY <2>1, <2>3, Zenon
<1> QED
  BY <1>1, <1>2, <1>8, <1>9, <1>10, <1>11, <1>12, <1>13, Zenon DEF ReadAs

\* A scale of two bytes that is a positive number.
LEMMA PositiveScale ==
    ASSUME NEW x \in Bytes, NEW y \in Bytes, NEW c, c = <<x>> \o <<y>>,
           NEW n \in Int, Signed(c) = n, n >= Byte - 1
    PROVE  /\ x < SignBit
           /\ x = 0 => y >= SignBit
<1>1. Byte \in Nat /\ Byte >= 4 /\ SignBit \in Nat /\ SignBit >= 2 /\ Byte = 2 * SignBit
  BY ByteFacts
<1>2. x \in Nat /\ y \in Nat /\ x <= Byte - 1 /\ y <= Byte - 1
  BY <1>1 DEF Bytes
<1>3. /\ x >= SignBit => n = (x * Byte + y) - Byte * Byte
      /\ x < SignBit => n = x * Byte + y
  BY TwoBytes
<1>4. x < SignBit
  <2>1. PICK p \in Nat : p = x * Byte /\ p <= (Byte - 1) * Byte
    <3>1. x * Byte <= (Byte - 1) * Byte /\ x * Byte \in Nat
      BY <1>1, <1>2
    <3> QED
      BY <3>1
  <2>2. (Byte - 1) * Byte = Byte * Byte - Byte
    BY <1>1
  <2>3. (p + y) - Byte * Byte < 0
    BY <1>1, <1>2, <2>1, <2>2
  <2> QED
    BY <1>1, <1>2, <1>3, <2>1, <2>3
<1>5. ASSUME x = 0 PROVE y >= SignBit
  <2>1. x * Byte = 0
    BY <1>1, <1>5
  <2>2. n = y
    BY <1>2, <1>3, <1>4, <2>1
  <2> QED
    BY <1>1, <1>2, <2>2
<1> QED
  BY <1>4, <1>5

\* A number with another byte in front, which is not zero and not negative.
LEMMA LongerNumber ==
    ASSUME NEW n \in Int, NEW u, u = encodeDecimalUnscaled(n), NEW x \in Bytes, x # 0, x < SignBit
    PROVE  Signed(<<x>> \o u) # n
<1>1. Byte \in Nat /\ Byte >= 4 /\ SignBit \in Nat /\ x \in Nat /\ x >= 1
  BY ByteFacts DEF Bytes
<1>2. u \in Seq(Bytes) /\ Len(u) >= 1 /\ (n >= 0 => Value(u, Byte) = n)
  BY UnscaledFacts
<1>3. PICK w : w = <<x>> \o u
  OBVIOUS
<1>4. /\ w \in Seq(Bytes) /\ Len(w) = Len(u) + 1 /\ w[1] = x
      /\ Value(w, Byte) = x * Power(Byte, Len(u)) + Value(u, Byte)
  BY <1>2, <1>3, InFront
<1>5. Len(u) \in Nat /\ Len(w) >= 1
  BY ONLY <1>2, <1>4
<1>6. Signed(w) = Value(w, Byte)
  BY <1>4, <1>5, SignedFacts
<1>7. PICK p \in Nat : p = Power(Byte, Len(u)) /\ p > 0
  <2>1. Power(Byte, Len(u)) \in Nat /\ Power(Byte, Len(u)) > Len(u)
    BY <1>5, BytePowers
  <2> QED
    BY <1>5, <2>1
<1>8. PICK k \in Nat : k = Value(u, Byte)
  BY <1>2, SignedFacts
<1>9. x * p >= p /\ x * p \in Nat
  BY <1>1, <1>7
<1>10. Signed(w) = x * p + k
  BY <1>4, <1>6, <1>7, <1>8, Zenon
<1>11. Signed(w) # n
  <2>1. CASE n >= 0
    <3>1. k = n
      BY <1>2, <1>8, <2>1
    <3> QED
      BY <1>7, <1>9, <1>10, <3>1
  <2>2. CASE ~(n >= 0)
    BY <1>8, <1>9, <1>10, <2>2
  <2> QED
    BY <2>1, <2>2
<1> QED
  BY <1>3, <1>11, Zenon

\* A scale of two bytes: the server finds its second byte in front of the
\* value.
LEMMA ScaledDecimal ==
    ASSUME NEW v, Determined(v), v.type = "decimal", Fits(v.scale, 2), v.scale >= Byte - 1,
           NEW raw, raw = <<LittleEndian(v.scale, 2)[2]>> \o ValueBytes(v)
    PROVE  raw # <<>> /\ Decoded(TypeId(v.type), raw) # Sent(v)
<1>1. PICK a, u : a = LittleEndian(v.scale, 2) /\ u = encodeDecimalUnscaled(v.unscaled)
  OBVIOUS
<1>2. /\ v.scale \in Int /\ v.unscaled \in Int
      /\ u \in Seq(Bytes) /\ Len(u) >= 1
      /\ ValueBytes(v) = a \o u
  BY <1>1, DecimalBytes, Zenon
<1>3. PICK lo, hi : lo = a[1] /\ hi = a[2]
  OBVIOUS
<1>4. lo \in Bytes /\ hi \in Bytes /\ a = <<lo>> \o <<hi>> /\ Signed(Reversed(a)) = v.scale
  BY <1>1, <1>2, <1>3, ScaleBytes, Zenon
<1>5. PICK p, q, c, w : p = <<hi>> /\ q = <<lo>> /\ c = p \o q /\ w = p \o u
  OBVIOUS
<1>6. c = <<hi>> \o <<lo>> /\ a = q \o p /\ w = <<hi>> \o u
  BY <1>4, <1>5, Zenon
<1>7. p \in Seq(Bytes) /\ q \in Seq(Bytes)
  BY <1>4, <1>5, SingleFacts
<1>8. raw = c \o w
  <2>1. raw = p \o ((q \o p) \o u)
    BY <1>1, <1>2, <1>3, <1>5, <1>6, Zenon
  <2>2. (q \o p) \o u = q \o (p \o u)
    <3>1. u \in Seq(Bytes)
      BY <1>2
    <3> QED
      BY ONLY <1>7, <3>1, ConcatAssociative
  <2>3. p \o u \in Seq(Bytes)
    <3>1. u \in Seq(Bytes)
      BY <1>2
    <3> QED
      BY ONLY <1>7, <3>1, ConcatFacts
  <2>4. (p \o q) \o (p \o u) = p \o (q \o (p \o u))
    BY ONLY <1>7, <2>3, ConcatAssociative
  <2> QED
    BY <1>5, <2>1, <2>2, <2>4, Zenon
<1>9. c \in Seq(Bytes) /\ Len(c) = 2 /\ Reversed(a) = c /\ Reversed(c) = a
  <2>1. lo \in Bytes /\ hi \in Bytes /\ c = <<hi>> \o <<lo>> /\ a = <<lo>> \o <<hi>>
    BY <1>4, <1>6, Zenon
  <2>2. c \in Seq(Bytes) /\ Len(c) = 2 /\ Reversed(c) = <<lo>> \o <<hi>>
    <3>1. lo \in Bytes /\ hi \in Bytes /\ c = <<hi>> \o <<lo>>
      BY <2>1
    <3>2. c \in Seq(Bytes)
      BY ONLY <3>1, TwoBytes
    <3>3. Len(c) = 2
      BY ONLY <3>1, TwoBytes
    <3>4. Reversed(c) = <<lo>> \o <<hi>>
      BY ONLY <3>1, TwoBytes
    <3> QED
      BY <3>2, <3>3, <3>4, Zenon
  <2>3. Reversed(a) = <<hi>> \o <<lo>>
    <3>1. lo \in Bytes /\ hi \in Bytes /\ a = <<lo>> \o <<hi>>
      BY <2>1
    <3> QED
      BY ONLY <3>1, TwoBytes
  <2> QED
    BY <2>1, <2>2, <2>3, Zenon
<1>10. w \in Seq(Bytes) /\ Len(w) = Len(u) + 1 /\ Len(u) \in Nat
  <2>1. w \in Seq(Bytes) /\ Len(w) = Len(u) + 1
    BY <1>2, <1>4, <1>6, InFront
  <2> QED
    BY <1>2, <2>1
<1>11. SubSeq(raw, 1, 2) = c /\ SubSeq(raw, 3, Len(raw)) = w /\ raw # <<>>
  <2>1. PICK m \in Nat, n \in Nat : m = 2 /\ n = Len(u) + 1
    <3>1. Len(u) \in Nat
      BY <1>10
    <3>2. Len(u) + 1 \in Nat /\ 2 \in Nat
      BY ONLY <3>1
    <3> QED
      BY <3>2, Zenon
  <2>2. c \in Seq(Bytes) /\ Len(c) = m /\ w \in Seq(Bytes) /\ Len(w) = n /\ raw = c \o w
    BY <1>8, <1>9, <1>10, <2>1, Zenon
  <2>3. SubSeq(raw, 1, m) = c /\ SubSeq(raw, m + 1, m + n) = w
    BY ONLY <2>2, m \in Nat, n \in Nat, TwoParts
  <2>5. Len(raw) = m + n
    BY ONLY <2>2, m \in Nat, n \in Nat, ConcatFacts
  <2>4. m + 1 = 3 /\ m + n # 0
    BY ONLY <2>1, m \in Nat, n \in Nat
  <2> QED
    BY <2>1, <2>3, <2>4, <2>5, NotEmpty, Zenon
<1>12. Signed(c) = v.scale
  BY <1>4, <1>9, Zenon
<1>13. hi < SignBit /\ (hi = 0 => lo >= SignBit)
  BY <1>2, <1>4, <1>6, <1>12, PositiveScale
<1>14. Signed(a) # v.scale \/ Signed(w) # v.unscaled
  <2>1. CASE hi = 0
    <3>1. lo >= SignBit
      BY <1>13, <2>1
    <3>2. Signed(a) = (lo * Byte + hi) - Byte * Byte
      <4>1. lo \in Bytes /\ hi \in Bytes /\ a = <<lo>> \o <<hi>>
        BY <1>4
      <4> QED
        BY ONLY <3>1, <4>1, TwoBytes
    <3>3. Byte \in Nat /\ lo \in Nat /\ lo <= Byte - 1 /\ Byte >= 4
      BY <1>4, ByteFacts DEF Bytes
    <3>4. lo * Byte <= (Byte - 1) * Byte /\ (Byte - 1) * Byte = Byte * Byte - Byte /\ lo * Byte \in Nat
      BY <3>3
    <3>5. Signed(a) < 0
      BY <2>1, <3>2, <3>3, <3>4
    <3>6. v.scale >= 0
      BY <1>2, <3>3
    <3> QED
      BY <1>2, <3>5, <3>6
  <2>2. CASE hi # 0
    <3>1. v.unscaled \in Int /\ hi \in Bytes /\ hi < SignBit /\ u = encodeDecimalUnscaled(v.unscaled)
      BY <1>1, <1>2, <1>4, <1>13, Zenon
    <3>2. Signed(<<hi>> \o u) # v.unscaled
      BY ONLY <2>2, <3>1, LongerNumber
    <3> QED
      BY <1>6, <3>2, Zenon
  <2> QED
    BY <2>1, <2>2
<1>15. Decoded(TypeId(v.type), raw) = [type |-> "decimal", unscaled |-> Signed(w), scale |-> Signed(a)]
  <2>1. TypeId(v.type) = 8
    BY TypeIds
  <2>2. Decoded(8, raw) = [type |-> "decimal", unscaled |-> Signed(SubSeq(raw, 3, Len(raw))),
                           scale |-> Signed(Reversed(SubSeq(raw, 1, 2)))]
    BY DecodedFacts
  <2> QED
    BY <1>9, <1>11, <2>1, <2>2, Zenon
<1>16. Sent(v) = v
  BY DEF Sent
<1>17. \A x, y : [type |-> "decimal", unscaled |-> x, scale |-> y].unscaled = x
                 /\ [type |-> "decimal", unscaled |-> x, scale |-> y].scale = y
  OBVIOUS
<1>18. PICK r : r = Decoded(TypeId(v.type), raw)
  OBVIOUS
<1>19. r.unscaled = Signed(w) /\ r.scale = Signed(a)
  BY <1>15, <1>17, <1>18, Zenon
<1>20. r # v
  BY ONLY <1>14, <1>19
<1> QED
  BY <1>11, <1>16, <1>18, <1>20, Zenon

\* Every value whose scale takes one byte is read as passed, unless it is one
\* of those that change.
LEMMA ValueArrives ==
    ASSUME NEW v, IsArgument(v), Encodable(v), v # Nil, ~(v.type = "decimal" /\ v.scale >= Byte - 1)
    PROVE  ReadAs(v, ValueBytes(v))
<1>1. Determined(v) /\ v.type \in ArgumentTypes
  BY ArgumentFacts
<1>2. v.type # "nil"
  BY <1>1 DEF Determined
<1>3. /\ v.type # "other"
      /\ v.type = "decimal" => Fits(v.scale, 2)
      /\ v.type \in {"date", "datetime"} => DateInRange(v)
  BY DEF Encodable
<1>4. CASE v.type \in {"int8", "int16", "int32", "int64", "float32", "float64"}
  BY <1>1, <1>4, NumberArrives
<1>5. CASE v.type = "byte"
  BY <1>1, <1>5, ByteArrives
<1>6. CASE v.type = "bool"
  BY <1>1, <1>6, BoolArrives
<1>7. CASE v.type \in {"string", "bytes"}
  BY <1>1, <1>7, StringArrives
<1>8. CASE v.type = "uuid"
  BY <1>1, <1>8, UuidArrives
<1>9. CASE v.type = "timestamp"
  BY <1>1, <1>9, TimestampArrives
<1>10. CASE v.type = "date"
  BY <1>1, <1>3, <1>10, DateArrives
<1>11. CASE v.type = "time"
  BY <1>1, <1>11, TimeArrives
<1>12. CASE v.type = "datetime"
  BY <1>1, <1>3, <1>12, DateTimeArrives
<1>13. CASE v.type = "decimal"
  BY <1>1, <1>3, <1>13, DecimalArrives
<1> QED
  BY <1>1, <1>2, <1>3, <1>4, <1>5, <1>6, <1>7, <1>8, <1>9, <1>10, <1>11, <1>12, <1>13 DEF ArgumentTypes

\* The bytes of every value that is not refused.
LEMMA ValueIsBytes ==
    ASSUME NEW v, IsArgument(v), Encodable(v)
    PROVE  ValueBytes(v) \in Seq(Bytes)
<1>1. Determined(v)
  BY ArgumentFacts
<1>2. CASE v = Nil
  <2>1. ValueBytes(v) = <<>>
    BY <1>2 DEF ValueBytes, Nil
  <2> QED
    BY <2>1
<1>3. CASE v.type = "decimal"
  BY <1>1, <1>3, DecimalBytes
<1>4. CASE v # Nil /\ v.type # "decimal"
  <2>1. ReadAs(v, ValueBytes(v))
    BY <1>4, ValueArrives
  <2> QED
    BY <2>1 DEF ReadAs
<1> QED
  BY <1>2, <1>3, <1>4

-----------------------------------------------------------------------------
(* An argument's three elements                                            *)

\* What AddValue keeps of a value.
IsEntry(t) == /\ t.type \in Nat /\ t.scale \in Int /\ t.value \in Seq(Bytes)
              /\ ScaleLength(t.scale) \in {1, 2}

\* What AddValue makes of an argument.
LEMMA EntryFacts ==
    ASSUME NEW v, IsArgument(v), Encodable(v), NEW t, t = typeScaleValue(v)
    PROVE  /\ IsEntry(t) /\ t.type = TypeId(v.type) /\ t.value = ValueBytes(v)
           /\ t.type = 0 <=> v = Nil
           /\ v.type = "decimal" => t.scale = v.scale
           /\ ScaleLength(t.scale) = 1 <=> ~(v.type = "decimal" /\ v.scale >= Byte - 1)
<1>1. Determined(v) /\ v.type \in ArgumentTypes /\ v.type # "other" /\ ValueBytes(v) \in Seq(Bytes)
  BY ArgumentFacts, ValueIsBytes DEF Encodable
<1>2. /\ t.type = TypeId(v.type) /\ t.value = ValueBytes(v)
      /\ t.scale = IF v.type = "decimal" THEN v.scale ELSE 0
  BY Zenon DEF typeScaleValue
<1>3. TypeId(v.type) \in Nat /\ (TypeId(v.type) = 0 <=> v.type = "nil")
  BY <1>1, TypeIds DEF ArgumentTypes
<1>4. v.type = "nil" <=> v = Nil
  BY <1>1 DEF Determined
<1>5. v.type = "decimal" => v.scale \in Int
  BY <1>1 DEF Determined
<1>6. Byte \in Nat /\ Byte >= 4
  BY ByteFacts
<1>7. t.scale \in Int
  BY <1>2, <1>5
<1>8. ScaleLength(t.scale) \in {1, 2}
  BY DEF ScaleLength
<1>9. ScaleLength(t.scale) = 1 <=> ~(v.type = "decimal" /\ v.scale >= Byte - 1)
  <2>1. CASE v.type = "decimal"
    BY <1>2, <1>5, <1>6, <2>1 DEF ScaleLength
  <2>2. CASE v.type # "decimal"
    BY <1>2, <1>6, <2>2 DEF ScaleLength
  <2> QED
    BY <2>1, <2>2
<1>10. IsEntry(t)
  BY <1>1, <1>2, <1>3, <1>7, <1>8, Zenon DEF IsEntry
<1> QED
  BY <1>2, <1>3, <1>4, <1>9, <1>10, Zenon

\* The bytes of an entry, and how many of them are counted.
LEMMA TripleFacts ==
    ASSUME NEW t, IsEntry(t)
    PROVE  /\ Triple(t) \in Seq(Nat) /\ Length(t) \in Nat
           /\ Len(t.value) \in Nat
           /\ Len(Triple(t)) = 1 + ScaleLength(t.scale) + Len(t.value)
           /\ Triple(t)[1] = t.type
           /\ t.type = 0 => Length(t) = 0
           /\ t.type # 0 => Length(t) = Len(Triple(t))
           /\ Len(Triple(t)) >= 2 /\ Length(t) <= Len(Triple(t)) /\ Length(t) <= Len(t.value) + 3
<1>1. PICK l : l = ScaleLength(t.scale)
  OBVIOUS
<1>2. t.type \in Nat /\ t.scale \in Int /\ t.value \in Seq(Bytes) /\ l \in Nat /\ l >= 1 /\ l <= 2
  BY <1>1 DEF IsEntry
<1>3. PICK p, q, r : p = <<t.type>> /\ q = LittleEndian(t.scale, l) /\ r = t.value
  OBVIOUS
<1>4. Seq(Bytes) \subseteq Seq(Nat)
  <2>1. Bytes \subseteq Nat
    BY ByteFacts DEF Bytes
  <2>2. ASSUME NEW s \in Seq(Bytes) PROVE s \in Seq(Nat)
    <3>1. Len(s) \in Nat /\ s \in [1..Len(s) -> Bytes]
      OBVIOUS
    <3>2. s \in [1..Len(s) -> Nat]
      BY ONLY <2>1, <3>1
    <3> QED
      BY ONLY <3>1, <3>2
  <2> QED
    BY <2>2
<1>5. p \in Seq(Nat) /\ Len(p) = 1 /\ p[1] = t.type
  BY <1>2, <1>3, SingleFacts
<1>6. q \in Seq(Nat) /\ Len(q) = l
  BY <1>2, <1>3, <1>4, LittleEndianFacts
<1>7. r \in Seq(Nat)
  BY <1>2, <1>3, <1>4
<1>8. Triple(t) = (p \o q) \o r
  BY <1>1, <1>3, Zenon DEF Triple
<1>9. p \o q \in Seq(Nat) /\ Len(p \o q) = 1 + l /\ (p \o q)[1] = p[1]
  <2>1. p \in Seq(Nat) /\ q \in Seq(Nat)
    BY <1>5, <1>6
  <2>2. p \o q \in Seq(Nat) /\ Len(p \o q) = Len(p) + Len(q) /\ \A i \in 1..Len(p) : (p \o q)[i] = p[i]
    BY ONLY <2>1, ConcatFacts
  <2>3. 1 \in 1..Len(p)
    BY <1>5
  <2> QED
    BY <1>5, <1>6, <2>2, <2>3, Zenon
<1>10. PICK h : h = p \o q
  OBVIOUS
<1>11. h \in Seq(Nat) /\ Len(h) = 1 + l /\ h[1] = t.type /\ Triple(t) = h \o r
  BY <1>5, <1>8, <1>9, <1>10, Zenon
<1>12. /\ Triple(t) \in Seq(Nat) /\ Len(Triple(t)) = Len(h) + Len(r)
       /\ \A i \in 1..Len(h) : Triple(t)[i] = h[i]
  <2>1. h \in Seq(Nat)
    BY <1>11
  <2> QED
    BY ONLY <1>7, <1>8, <1>10, <2>1, ConcatFacts
<1>13. Triple(t)[1] = t.type
  <2>1. 1 \in 1..Len(h)
    BY <1>2, <1>11
  <2> QED
    BY <1>11, <1>12, <2>1
<1>14. Len(r) \in Nat
  BY <1>7
<1>15. Length(t) = IF t.type = 0 THEN 0 ELSE 1 + l + Len(r)
  BY <1>1, <1>3, Zenon DEF Length
<1>16. Len(Triple(t)) = 1 + l + Len(r)
  BY <1>2, <1>11, <1>12, <1>14
<1>17. /\ Length(t) \in Nat /\ Len(Triple(t)) >= 2 /\ Length(t) <= Len(Triple(t)) /\ Length(t) <= Len(r) + 3
       /\ t.type = 0 => Length(t) = 0
       /\ t.type # 0 => Length(t) = Len(Triple(t))
  BY <1>2, <1>14, <1>15, <1>16
<1> QED
  BY <1>1, <1>3, <1>12, <1>13, <1>14, <1>16, <1>17, Zenon

-----------------------------------------------------------------------------
(* Sequences put together                                                  *)

\* The middle part of three.
LEMMA MiddlePart ==
    ASSUME NEW S, NEW a \in Seq(S), NEW b \in Seq(S), NEW c \in Seq(S), NEW s, s = (a \o b) \o c
    PROVE  /\ s \in Seq(S) /\ Len(s) = (Len(a) + Len(b)) + Len(c)
           /\ SubSeq(s, Len(a) + 1, Len(a) + Len(b)) = b
<1>1. PICK m, n : m = Len(a) /\ n = Len(b)
  OBVIOUS
<1>2. m \in Nat /\ n \in Nat
  BY <1>1
<1>3. PICK x : x = a \o b
  OBVIOUS
<1>4. x \in Seq(S) /\ Len(x) = m + n /\ \A i \in 1..n : x[m + i] = b[i]
  BY <1>1, <1>3, ConcatFacts
<1>5. s = x \o c
  BY <1>3
<1>6. s \in Seq(S) /\ Len(s) = Len(x) + Len(c) /\ \A i \in 1..Len(x) : s[i] = x[i]
  BY ONLY <1>4, <1>5, c \in Seq(S), ConcatFacts
<1>7. Len(c) \in Nat
  OBVIOUS
<1>8. m \in Nat /\ m + n \in Nat /\ m <= m + n /\ m + n <= Len(s) /\ (m + n) - m = n
  BY <1>2, <1>4, <1>6, <1>7
<1>9. /\ SubSeq(s, m + 1, m + n) \in Seq(S) /\ Len(SubSeq(s, m + 1, m + n)) = n
      /\ \A i \in 1..n : SubSeq(s, m + 1, m + n)[i] = s[m + i]
  <2>1. /\ SubSeq(s, m + 1, m + n) \in Seq(S) /\ Len(SubSeq(s, m + 1, m + n)) = (m + n) - m
        /\ \A i \in 1..((m + n) - m) : SubSeq(s, m + 1, m + n)[i] = s[m + i]
    BY ONLY <1>6, <1>8, PartFacts
  <2> QED
    BY <1>8, <2>1, Zenon
<1>10. \A i \in 1..n : m + i \in 1..Len(x)
  BY <1>2, <1>4
<1>11. \A i \in 1..n : SubSeq(s, m + 1, m + n)[i] = b[i]
  BY <1>4, <1>6, <1>9, <1>10, Zenon
<1>12. SubSeq(s, m + 1, m + n) = b
  <2>1. Len(b) = n /\ b \in Seq(S)
    BY <1>1
  <2> QED
    BY ONLY <1>2, <1>9, <1>11, <2>1
<1> QED
  BY <1>1, <1>4, <1>6, <1>12, Zenon

\* The first parts, put together one after the other.
Prefixes(u, parts, n, S) == /\ n \in Nat /\ n = Len(parts) /\ parts \in Seq(Seq(S))
                            /\ u \in [0..n -> Seq(S)] /\ u[0] = <<>>
                            /\ \A i \in 1..n : u[i] = u[i - 1] \o parts[i]

HasPrefixes(S, n, parts) ==
    \E g \in [0..n -> Seq(S)] : g[0] = <<>> /\ \A i \in 1..n : g[i] = g[i - 1] \o parts[i]

\* There are such prefixes.
LEMMA PrefixesExist ==
    ASSUME NEW S, NEW n \in Nat, NEW parts, parts \in [1..n -> Seq(S)]
    PROVE  HasPrefixes(S, n, parts)
<1> DEFINE T == Seq(S)
           e == <<>>
           F == [i \in 1..n |-> [x \in T |-> x \o parts[i]]]
<1>1. F \in [1..n -> [T -> T]] /\ e \in T
  BY ConcatFacts
<1> HIDE DEF F, T, e
<1>2. \E g \in [0..n -> T] : g[0] = e /\ \A i \in 1..n : g[i] = F[i][g[i - 1]]
  BY ONLY <1>1, n \in Nat, RecursionExists
<1>4. PICK g \in [0..n -> T] : g[0] = e /\ \A i \in 1..n : g[i] = F[i][g[i - 1]]
  BY <1>2, Zenon
<1>3. \A i \in 1..n : g[i - 1] \in T
  BY <1>4
<1>5. \A i \in 1..n : g[i] = g[i - 1] \o parts[i]
  BY <1>3, <1>4 DEF F
<1> QED
  BY <1>4, <1>5, Zenon DEF T, e, HasPrefixes

IsConcat(parts, n, S) == \E u : Prefixes(u, parts, n, S) /\ Concat(parts) = u[n]

\* Concat is the last of them.
LEMMA ConcatPrefixes ==
    ASSUME NEW S, NEW parts, parts \in Seq(Seq(S)), NEW n, n = Len(parts)
    PROVE  IsConcat(parts, n, S)
<1> DEFINE T == Seq(S)
           e == <<>>
           p == CHOOSE p : p = [i \in 0..n |-> IF i = 0 THEN <<>> ELSE p[i - 1] \o parts[i]]
<1>0. \A i \in 1..n : parts[i] \in T
  OBVIOUS
<1>12. n \in Nat
  OBVIOUS
<1>1. e \in T /\ \A x, y \in T : x \o y \in T
  BY ConcatFacts
<1>14. HasPrefixes(S, n, parts)
  <2>1. n \in Nat /\ parts \in [1..n -> Seq(S)]
    BY <1>12
  <2> QED
    BY ONLY <2>1, PrefixesExist
<1>2. PICK g \in [0..n -> T] : g[0] = e /\ \A i \in 1..n : g[i] = g[i - 1] \o parts[i]
  BY <1>14, Zenon DEF HasPrefixes
<1> HIDE DEF e, T
<1>3. \A i \in 1..n : i \in 0..n /\ i # 0 /\ i - 1 \in 0..n
  BY <1>12
<1>4. \A i \in 1..n : g[i] = g[i - 1] \o parts[i]
  BY <1>2
<1>5. g = [i \in 0..n |-> IF i = 0 THEN <<>> ELSE g[i - 1] \o parts[i]]
  <2>1. \A i \in 0..n : i # 0 => i \in 1..n
    BY <1>12
  <2>2. \A i \in 0..n : g[i] = IF i = 0 THEN <<>> ELSE g[i - 1] \o parts[i]
    BY <1>2, <1>4, <2>1 DEF e
  <2> QED
    BY <1>2, <2>2
<1>6. p = [i \in 0..n |-> IF i = 0 THEN <<>> ELSE p[i - 1] \o parts[i]]
  BY <1>5, Zenon
<1>7. Concat(parts) = p[n]
  BY Zenon DEF Concat
<1> HIDE DEF p
<1>8. 0 \in 0..n /\ n \in 0..n
  BY <1>12
<1>9. p[0] = <<>> /\ \A i \in 1..n : p[i] = p[i - 1] \o parts[i]
  BY <1>3, <1>6, <1>8
<1>10. \A i \in 0..n : p[i] \in T
  <2> DEFINE U == {i \in Nat : p[i] \in T}
  <2>1. 0 \in U
    BY <1>1, <1>9 DEF e
  <2>2. \A i \in 1..n : i - 1 \in U => i \in U
    <3> SUFFICES ASSUME NEW i \in 1..n, p[i - 1] \in T PROVE p[i] \in T
      BY <1>12
    <3>1. p[i] = p[i - 1] \o parts[i] /\ parts[i] \in T
      BY <1>0, <1>9
    <3> QED
      BY <3>1, ConcatFacts DEF T
  <2> HIDE DEF U
  <2>3. \A i \in 0..n : i \in U
    BY <1>12, <2>1, <2>2, BoundedInduct
  <2> QED
    BY <2>3 DEF U
<1>11. p \in [0..n -> T]
  BY <1>6, <1>10
<1> QED
  BY <1>12, <1>7, <1>9, <1>11, Zenon DEF Prefixes, IsConcat, T

\* All parts are the ones before the k-th, the k-th and the others.
SplitAt(u, parts, n, S, k) ==
    /\ n \in Nat /\ u[k - 1] \in Seq(S) /\ parts[k] \in Seq(S) /\ u[n] \in Seq(S)
    /\ \E rest \in Seq(S) : u[n] = (u[k - 1] \o parts[k]) \o rest

\* So are the prefixes.
LEMMA ConcatSplit ==
    ASSUME NEW S, NEW parts, NEW n, NEW u, Prefixes(u, parts, n, S), NEW k \in 1..n
    PROVE  SplitAt(u, parts, n, S, k)
<1>9. /\ n \in Nat /\ u \in [0..n -> Seq(S)] /\ parts \in Seq(Seq(S)) /\ n = Len(parts)
      /\ \A i \in 1..n : u[i] = u[i - 1] \o parts[i]
  BY Zenon DEF Prefixes
<1>10. \A i \in 1..n : parts[i] \in Seq(S)
  <2> DEFINE T == Seq(S)
  <2>1. parts \in Seq(T) /\ n = Len(parts)
    BY <1>9
  <2> HIDE DEF T
  <2>2. \A i \in 1..n : parts[i] \in T
    BY ONLY <2>1
  <2> QED
    BY <2>2 DEF T
<1>1. /\ n \in Nat /\ u \in [0..n -> Seq(S)]
      /\ \A i \in 1..n : u[i] = u[i - 1] \o parts[i] /\ parts[i] \in Seq(S)
  BY <1>9, <1>10, Zenon
<1>11. \A a, b, c \in Seq(S) : (a \o b) \o c = a \o (b \o c)
  BY ConcatAssociative
<1>12. n \in Nat
  BY <1>9
<1>2. k \in Nat /\ k >= 1 /\ k <= n /\ k - 1 \in 0..n /\ k \in 0..n /\ n \in 0..n
  BY <1>1
<1>3. u[k - 1] \in Seq(S) /\ parts[k] \in Seq(S) /\ u[n] \in Seq(S) /\ u[k] \in Seq(S)
  BY <1>1, <1>2
<1> DEFINE G(i) == \E rest \in Seq(S) : u[i] = u[k] \o rest
           U == {i \in Nat : i >= k => G(i)}
<1>5. ASSUME NEW i \in 1..n, i - 1 >= k => G(i - 1), i >= k PROVE G(i)
  <2>1. CASE i = k
    <3>1. u[k] = u[k] \o <<>> /\ <<>> \in Seq(S)
      BY <1>3
    <3> QED
      BY <2>1, <3>1
  <2>2. CASE i # k
    <3>1. i - 1 >= k
      BY <1>5, <1>2, <1>12, <2>2
    <3>2. PICK r \in Seq(S) : u[i - 1] = u[k] \o r
      BY <1>5, <3>1
    <3>3. u[i] = u[i - 1] \o parts[i] /\ parts[i] \in Seq(S)
      BY <1>1
    <3>4. (u[k] \o r) \o parts[i] = u[k] \o (r \o parts[i])
      BY <1>3, <1>11, <3>3, Zenon
    <3>5. r \o parts[i] \in Seq(S)
      BY ONLY <3>3, r \in Seq(S), ConcatFacts
    <3>6. u[i] = u[k] \o (r \o parts[i])
      BY <3>2, <3>3, <3>4, Zenon
    <3> QED
      BY <3>5, <3>6
  <2> QED
    BY <2>1, <2>2
<1> HIDE DEF G
<1>4. 0 \in U
  BY <1>2
<1>13. \A i \in 1..n : i - 1 \in U => i \in U
  BY <1>5, <1>12
<1> HIDE DEF U
<1>6. \A i \in 0..n : i \in U
  BY <1>12, <1>4, <1>13, BoundedInduct
<1>7. \E rest \in Seq(S) : u[n] = u[k] \o rest
  <2>1. n \in U /\ n >= k
    BY <1>2, <1>6
  <2> QED
    BY <2>1 DEF U, G
<1>8. u[k] = u[k - 1] \o parts[k]
  BY <1>1
<1> QED
  BY <1>1, <1>3, <1>7, <1>8, Zenon DEF SplitAt

-----------------------------------------------------------------------------
(* The arguments and their bytes                                           *)

\* The values are the entries of the arguments, and what is written is made of
\* them.
ArgsInv ==
    /\ args \in Seq({v \in Arguments : Encodable(v)}) /\ Len(args) <= MaxArgs
    /\ values = [i \in DOMAIN args |-> typeScaleValue(args[i])]
    /\ payload # <<>> => payload = TupleBytes /\ args # <<>> /\ ~refused

\* The number of values, which are entries of arguments.
Entries(n) == /\ n \in Nat /\ n = Len(values) /\ DOMAIN values = 1..n
              /\ \A i \in 1..n : IsEntry(values[i])

\* The invariant gives an entry for every argument.
LEMMA ArgumentEntries ==
    ASSUME ArgsInv
    PROVE  /\ Entries(Len(args)) /\ DOMAIN args = 1..Len(args)
           /\ \A i \in 1..Len(args) : /\ args[i] \in Arguments /\ IsArgument(args[i]) /\ Encodable(args[i])
                                      /\ values[i] = typeScaleValue(args[i])
<1> DEFINE n == Len(args)
           A == {v \in Arguments : Encodable(v)}
<1>1. args \in Seq(A) /\ values = [i \in DOMAIN args |-> typeScaleValue(args[i])]
  BY DEF ArgsInv
<1>2. \A v \in A : v \in Arguments /\ IsArgument(v) /\ Encodable(v)
  BY ArgumentsAssumption
<1> HIDE DEF A
<1>3. n \in Nat /\ DOMAIN args = 1..n /\ \A i \in 1..n : args[i] \in A
  BY <1>1
<1>4. DOMAIN values = 1..n /\ \A i \in 1..n : values[i] = typeScaleValue(args[i])
  BY <1>1, <1>3
<1>5. n = Len(values)
  <2> DEFINE f(i) == typeScaleValue(args[i])
  <2>1. values = [i \in 1..n |-> f(i)]
    BY <1>1, <1>3
  <2> HIDE DEF f
  <2> QED
    BY ONLY <1>3, <2>1
<1>6. \A i \in 1..n : IsEntry(values[i])
  BY <1>2, <1>3, <1>4, EntryFacts
<1> QED
  BY <1>2, <1>3, <1>4, <1>5, <1>6, Zenon DEF Entries

\* The sums that Bytes computes.
LEMMA StartFacts ==
    ASSUME NEW n, Entries(n)
    PROVE  /\ Start(1) = 0
           /\ \A i \in 1..n : /\ Start(i) \in Nat /\ Length(values[i]) \in Nat
                              /\ Start(i + 1) = Start(i) + Length(values[i])
           /\ Start(n + 1) \in Nat
<1>1. n \in Nat /\ n = Len(values) /\ \A i \in 1..n : Length(values[i]) \in Nat
  BY TripleFacts DEF Entries
<1> DEFINE L == [i \in 1..n |-> Length(values[i])]
           F == [i \in 1..n |-> [x \in Nat |-> x + L[i]]]
           p == CHOOSE p : p = [k \in 0..n |-> IF k = 0 THEN 0 ELSE p[k - 1] + Length(values[k])]
<1>2. L \in [1..n -> Nat] /\ \A i \in 1..n : L[i] = Length(values[i])
  BY <1>1
<1> HIDE DEF L
<1>3. F \in [1..n -> [Nat -> Nat]]
  BY <1>2
<1>4. PICK g \in [0..n -> Nat] : g[0] = 0 /\ \A i \in 1..n : g[i] = F[i][g[i - 1]]
  <2> DEFINE T == Nat
             c == 0
  <2>1. F \in [1..n -> [T -> T]] /\ c \in T /\ n \in Nat
    BY <1>1, <1>3
  <2> HIDE DEF F, T, c
  <2>2. \E g \in [0..n -> T] : g[0] = c /\ \A i \in 1..n : g[i] = F[i][g[i - 1]]
    BY <2>1, RecursionExists
  <2> QED
    BY <2>2 DEF T, c
<1>5. \A i \in 1..n : i - 1 \in 0..n /\ i \in 0..n /\ i # 0
  BY <1>1
<1>6. \A i \in 1..n : g[i] = g[i - 1] + Length(values[i])
  BY <1>2, <1>4, <1>5
<1>7. g = [k \in 0..n |-> IF k = 0 THEN 0 ELSE g[k - 1] + Length(values[k])]
  <2>1. \A i \in 0..n : i # 0 => i \in 1..n
    BY <1>1
  <2>2. \A k \in 0..n : g[k] = IF k = 0 THEN 0 ELSE g[k - 1] + Length(values[k])
    BY <1>4, <1>6, <2>1, Zenon
  <2> QED
    BY <1>4, <2>2
<1>8. p = [k \in 0..n |-> IF k = 0 THEN 0 ELSE p[k - 1] + Length(values[k])]
  BY <1>7, Zenon
<1>9. \A i : Start(i) = p[i - 1]
  BY <1>1, Zenon DEF Start
<1> HIDE DEF p
<1>10. p[0] = 0 /\ \A i \in 1..n : p[i] = p[i - 1] + Length(values[i])
  <2>1. 0 \in 0..n
    BY <1>1
  <2> QED
    BY <1>5, <1>8, <2>1
<1>11. \A i \in 0..n : p[i] \in Nat
  <2> DEFINE U == {i \in Nat : p[i] \in Nat}
  <2>1. 0 \in U
    BY <1>10
  <2>2. \A i \in 1..n : i - 1 \in U => i \in U
    BY <1>1, <1>10
  <2> HIDE DEF U
  <2>3. \A i \in 0..n : i \in U
    BY <1>1, <2>1, <2>2, BoundedInduct
  <2> QED
    BY <2>3 DEF U
<1>12. Start(1) = 0
  <2>1. 1 - 1 = 0
    OBVIOUS
  <2> QED
    BY <1>9, <1>10, <2>1, Zenon
<1>13. ASSUME NEW i \in 1..n PROVE Start(i) \in Nat /\ Start(i + 1) = Start(i) + Length(values[i])
  <2>1. (i + 1) - 1 = i /\ i - 1 \in 0..n
    BY <1>1
  <2> QED
    BY <1>9, <1>10, <1>11, <2>1
<1>14. Start(n + 1) \in Nat
  <2>1. (n + 1) - 1 = n /\ n \in 0..n
    BY <1>1
  <2> QED
    BY <1>9, <1>11, <2>1
<1> QED
  BY <1>1, <1>12, <1>13, <1>14

\* They only grow.
LEMMA StartGrows ==
    ASSUME NEW n, Entries(n), NEW i \in 1..(n + 1), NEW j \in i..(n + 1)
    PROVE  /\ Start(i) \in Nat /\ Start(j) \in Nat /\ Start(i) <= Start(j)
           /\ (\A k \in i..(j - 1) : Length(values[k]) = 0) => Start(i) = Start(j)
<1>1. n \in Nat /\ i \in Nat /\ j \in Nat /\ i >= 1 /\ i <= j /\ j <= n + 1
  BY DEF Entries
<1>2. \A k \in 1..n : /\ Start(k) \in Nat /\ Length(values[k]) \in Nat
                      /\ Start(k + 1) = Start(k) + Length(values[k])
  BY StartFacts
<1>3. \A k \in 1..(n + 1) : Start(k) \in Nat
  <2>1. \A k \in 1..(n + 1) : k \in 1..n \/ k = n + 1
    BY <1>1
  <2> QED
    BY <1>2, <2>1, StartFacts
<1> DEFINE Z(m) == \A k \in i..(m - 1) : Length(values[k]) = 0
           G(m) == Start(i) <= Start(m) /\ (Z(m) => Start(i) = Start(m))
           U == {m \in Nat : m >= i => G(m)}
<1>4. ASSUME NEW m \in 1..(n + 1), m - 1 >= i => G(m - 1), m >= i PROVE G(m)
  <2>1. CASE m = i
    BY <1>1, <1>3, <2>1
  <2>2. CASE m # i
    <3>1. m - 1 >= i /\ m - 1 \in 1..n /\ (m - 1) + 1 = m
      BY <1>1, <1>4, <2>2
    <3>2. Start(m) = Start(m - 1) + Length(values[m - 1]) /\ Length(values[m - 1]) \in Nat /\ Start(m - 1) \in Nat
      BY <1>2, <3>1, Zenon
    <3>3. G(m - 1)
      BY <1>4, <3>1
    <3>4. Z(m) => Z(m - 1) /\ Length(values[m - 1]) = 0
      <4>1. m - 1 \in i..(m - 1) /\ \A k \in i..((m - 1) - 1) : k \in i..(m - 1)
        BY <1>1, <3>1
      <4> QED
        BY <4>1
    <3>5. Start(i) \in Nat
      BY <1>3
    <3> HIDE DEF Z
    <3> QED
      BY <3>2, <3>3, <3>4, <3>5
  <2> QED
    BY <2>1, <2>2
<1> HIDE DEF G
<1>5. 0 \in U
  BY <1>1
<1>6. \A m \in 1..(n + 1) : m - 1 \in U => m \in U
  BY <1>1, <1>4
<1> HIDE DEF U
<1>7. \A m \in 0..(n + 1) : m \in U
  <2>1. n + 1 \in Nat
    BY <1>1
  <2> QED
    BY <1>5, <1>6, <2>1, BoundedInduct
<1>8. G(j)
  <2>1. j \in 0..(n + 1)
    BY <1>1
  <2> QED
    BY <1>1, <1>7, <2>1 DEF U
<1>9. j \in 1..(n + 1)
  BY <1>1
<1> QED
  BY <1>3, <1>8, <1>9 DEF G

\* The width of the offsets.
Size == EntrySize(Start(Len(values)) + Length(values[Len(values)]))

\* A number by its quotient.
LEMMA BelowSquare ==
    ASSUME NEW P \in Nat, P > 4, NEW x \in Nat, x \div P < P - 1
    PROVE  x <= (P - 1) * P
<1>6. x \div P \in Nat /\ x = P * (x \div P) + (x % P) /\ x % P \in 0..(P - 1)
  <2>1. P >= 2
    OBVIOUS
  <2> QED
    BY ONLY <2>1, P \in Nat, x \in Nat, DivFacts
<1>1. PICK q \in Nat, r \in Nat : q = x \div P /\ x = P * q + r /\ r <= P - 1
  <2>1. x % P \in Nat /\ x % P <= P - 1
    BY ONLY <1>6, P \in Nat
  <2> QED
    BY <1>6, <2>1, Zenon
<1>2. q <= P - 2
  BY <1>1
<1>3. P * q <= P * (P - 2)
  BY <1>2
<1>4. P * (P - 2) + P = (P - 1) * P
  OBVIOUS
<1>5. PICK a, b \in Int : a = P * q /\ b = P * (P - 2)
  OBVIOUS
<1> QED
  BY <1>1, <1>3, <1>4, <1>5

\* A statement's bytes can be counted with 8 bytes.
LEMMA TotalBound ==
    ASSUME ArgsInv, NEW n, n = Len(args), n # 0
    PROVE  Start(n + 1) \in Nat /\ Start(n + 1) < Power(Byte, 8) - 1
<1>1. /\ Entries(n) /\ n \in Nat
      /\ \A i \in 1..n : args[i] \in Arguments /\ IsArgument(args[i]) /\ Encodable(args[i])
                         /\ values[i] = typeScaleValue(args[i])
  BY ArgumentEntries DEF Entries
<1>2. MaxArgs \in Nat /\ MaxArgs >= 1 /\ n <= MaxArgs
  BY ArgumentsAssumption DEF ArgsInv
<1>3. PICK P \in Nat : P = Power(Byte, 4) /\ P > 4
  BY BytePowers
<1>4. Power(Byte, 8) = P * P
  <2>1. 4 \in Nat /\ 4 + 4 = 8 /\ Byte \in Nat /\ Byte >= 2
    BY ByteFacts
  <2>2. Power(Byte, 4 + 4) = Power(Byte, 4) * Power(Byte, 4)
    BY <2>1, PowerAdds
  <2> QED
    BY <1>3, <2>1, <2>2
<1>5. PICK B \in Nat : B = (P - 1) * P
  <2>1. P - 1 \in Nat
    BY <1>3
  <2>2. (P - 1) * P \in Nat
    BY <2>1
  <2> QED
    BY <2>2
<1>6. ASSUME NEW i \in 1..n PROVE Length(values[i]) \in Nat /\ MaxArgs * Length(values[i]) <= B
  <2>1. PICK l : l = Len(ValueBytes(args[i]))
    OBVIOUS
  <2>2. IsEntry(values[i]) /\ values[i].value = ValueBytes(args[i])
    BY <1>1, EntryFacts
  <2>3. l \in Nat /\ Length(values[i]) \in Nat /\ Length(values[i]) <= l + 3
    BY <2>1, <2>2, TripleFacts
  <2>4. (MaxArgs * (l + 3)) \div P < P - 1
    BY <1>1, <1>3, <2>1, ArgumentsAssumption
  <2>5. PICK x \in Nat : x = MaxArgs * (l + 3)
    BY <1>2, <2>3
  <2>6. x \div P < P - 1
    BY <2>4, <2>5, Zenon
  <2>10. x <= B
    BY <1>3, <1>5, <2>6, BelowSquare
  <2>11. MaxArgs * Length(values[i]) <= MaxArgs * (l + 3)
    BY <1>2, <2>3
  <2>12. MaxArgs * Length(values[i]) \in Nat
    BY <1>2, <2>3
  <2> QED
    BY <2>3, <2>5, <2>10, <2>11, <2>12
<1> DEFINE U == {m \in Nat : Start(m + 1) \in Nat /\ MaxArgs * Start(m + 1) <= m * B}
<1>7. 0 \in U
  <2>1. Start(1) = 0 /\ 0 + 1 = 1
    BY <1>1, StartFacts
  <2> QED
    BY <1>2, <2>1
<1>8. ASSUME NEW m \in 1..n, m - 1 \in U PROVE m \in U
  <2>1. (m - 1) + 1 = m /\ m \in Nat
    BY <1>1
  <2>2. PICK s \in Nat, k \in Nat : s = Start(m) /\ k = Length(values[m]) /\ Start(m + 1) = s + k
    BY <1>1, StartFacts
  <2>3. MaxArgs * s <= (m - 1) * B
    BY <1>8, <2>1, <2>2
  <2>4. MaxArgs * k <= B
    BY <1>6, <2>2
  <2>5. MaxArgs * (s + k) = MaxArgs * s + MaxArgs * k /\ (m - 1) * B + B = m * B
    BY <1>2, <2>1
  <2>6. MaxArgs * s \in Nat /\ MaxArgs * k \in Nat /\ m * B \in Nat /\ (m - 1) * B \in Int
    BY <1>2, <2>1
  <2>7. MaxArgs * (s + k) <= m * B
    BY <2>3, <2>4, <2>5, <2>6
  <2>8. Start(m + 1) \in Nat /\ MaxArgs * Start(m + 1) <= m * B
    <3>1. s + k \in Nat
      OBVIOUS
    <3> QED
      BY <2>2, <2>7, <3>1, Zenon
  <2> QED
    BY <2>1, <2>8
<1> HIDE DEF U
<1>9. \A m \in 0..n : m \in U
  BY <1>1, <1>7, <1>8, BoundedInduct
<1>10. Start(n + 1) \in Nat /\ MaxArgs * Start(n + 1) <= n * B
  <2>1. n \in U
    BY <1>1, <1>9
  <2> QED
    BY <2>1 DEF U
<1>11. PICK t \in Nat : t = Start(n + 1)
  BY <1>10
<1>12. t <= B
  <2>1. n * B <= MaxArgs * B
    BY <1>1, <1>2
  <2>4. MaxArgs * t <= n * B
    BY <1>10, <1>11, Zenon
  <2>5. MaxArgs * t \in Nat /\ n * B \in Nat /\ MaxArgs * B \in Nat
    BY <1>1, <1>2
  <2>2. MaxArgs * t <= MaxArgs * B
    BY <2>1, <2>4, <2>5
  <2>3. t > B => MaxArgs * t > MaxArgs * B
    BY <1>2
  <2> QED
    BY <1>2, <2>2, <2>3
<1>13. B = P * P - P
  BY <1>3, <1>5
<1>14. PICK Q \in Nat : Q = P * P
  BY <1>3
<1>15. t < Q - 1
  <2>1. B = Q - P
    BY <1>13, <1>14, Zenon
  <2> QED
    BY <1>3, <1>12, <2>1
<1> QED
  BY <1>4, <1>11, <1>14, <1>15, Zenon

\* The header says the width, and the offsets fit.
LEMMA SizeFacts ==
    ASSUME ArgsInv, NEW n, n = Len(args), n # 0
    PROVE  /\ Size \in Nat /\ Size >= 1
           /\ Start(n + 1) < Power(Byte, Size) - 1
           /\ toHeader(Size) \in Nat /\ SizeOf(toHeader(Size)) = Size
<1>1. Entries(n) /\ n \in Nat /\ n = Len(values)
  BY ArgumentEntries DEF Entries
<1>2. PICK t \in Nat : t = Start(n + 1) /\ t < Power(Byte, 8) - 1
  BY TotalBound
<1>3. Start(n) + Length(values[n]) = t
  <2>1. n \in 1..n
    BY <1>1
  <2> QED
    BY <1>1, <1>2, <2>1, StartFacts
<1>4. Size = EntrySize(t)
  BY <1>1, <1>3, Zenon DEF Size
<1>5. Power(Byte, 1) = Byte
  <2>1. Byte \in Nat /\ Power(Byte, 0) = 1 /\ Power(Byte, 0 + 1) = Byte * Power(Byte, 0)
    BY ByteFacts, PowerUnfolds
  <2> QED
    BY <2>1
<1>6. EntrySize(t) \in {1, 2, 4, 8} /\ t < Power(Byte, EntrySize(t)) - 1
  BY <1>2, <1>5 DEF EntrySize
<1>7. \A s \in {1, 2, 4, 8} : toHeader(s) \in Nat /\ SizeOf(toHeader(s)) = s
  <2>1. toHeader(1) = 0 /\ toHeader(2) = 1 /\ toHeader(4) = 2 /\ toHeader(8) = 3
    BY DEF toHeader
  <2>2. SizeOf(0) = 1 /\ SizeOf(1) = 2 /\ SizeOf(2) = 4 /\ SizeOf(3) = 8
    BY DEF SizeOf
  <2> QED
    BY <2>1, <2>2
<1> QED
  BY <1>2, <1>4, <1>6, <1>7

-----------------------------------------------------------------------------
(* Where things are                                                        *)

\* Parentheses.
Assoc(x, y, w) == (x \o y) \o w = x \o (y \o w)

\* Concatenation is associative.
LEMMA Associative ==
    ASSUME NEW S, NEW x \in Seq(S), NEW y \in Seq(S), NEW w \in Seq(S)
    PROVE  Assoc(x, y, w) /\ x \o y \in Seq(S)
BY ConcatAssociative, ConcatFacts DEF Assoc

Regrouped(f, p, x, r) == f \o ((p \o x) \o r) = (f \o p) \o (x \o r)

\* Four parts.
LEMMA Regroup ==
    ASSUME NEW S, NEW f \in Seq(S), NEW p \in Seq(S), NEW x \in Seq(S), NEW r \in Seq(S)
    PROVE  Regrouped(f, p, x, r)
<1>1. Assoc(p, x, r) /\ x \o r \in Seq(S)
  BY Associative
<1>2. Assoc(f, p, x \o r)
  BY <1>1, Associative
<1> QED
  BY <1>1, <1>2, Zenon DEF Assoc, Regrouped

AssocThree(a, b, c, g) == ((a \o b) \o c) \o g = a \o (b \o (c \o g))

\* Three parts in front of a fourth.
LEMMA RegroupThree ==
    ASSUME NEW S, NEW a \in Seq(S), NEW b \in Seq(S), NEW c \in Seq(S), NEW g \in Seq(S)
    PROVE  AssocThree(a, b, c, g)
<1>1. Assoc(a, b, c) /\ a \o b \in Seq(S) /\ c \o g \in Seq(S)
  BY Associative
<1>2. Assoc(a \o b, c, g) /\ Assoc(a, b, c \o g)
  BY <1>1, Associative
<1> QED
  BY <1>2, Zenon DEF Assoc, AssocThree

\* Three parts in the middle, and where they are.
Joined(z, g, a, b, c, r) == z = g \o (((a \o b) \o c) \o r)

PartsAt(z, S, g, a, b, c, r) ==
    /\ z \in Seq(S) /\ Len(z) = ((((Len(g) + Len(a)) + Len(b)) + Len(c)) + Len(r))
    /\ SubSeq(z, Len(g) + 1, Len(g) + Len(a)) = a
    /\ SubSeq(z, (Len(g) + Len(a)) + 1, (Len(g) + Len(a)) + Len(b)) = b
    /\ SubSeq(z, ((Len(g) + Len(a)) + Len(b)) + 1, ((Len(g) + Len(a)) + Len(b)) + Len(c)) = c

\* Each of the three is where the lengths before it add up to.
LEMMA PartsInMiddle ==
    ASSUME NEW S, NEW g \in Seq(S), NEW a \in Seq(S), NEW b \in Seq(S),
           NEW c \in Seq(S), NEW r \in Seq(S), NEW z, Joined(z, g, a, b, c, r)
    PROVE  PartsAt(z, S, g, a, b, c, r)
<1>1. PICK h : h = c \o r
  OBVIOUS
<1>2. PICK s : s = b \o h
  OBVIOUS
<1>3. PICK x : x = g \o a
  OBVIOUS
<1>4. PICK y : y = x \o b
  OBVIOUS
<1>5. h \in Seq(S)
  BY ONLY <1>1, c \in Seq(S), r \in Seq(S), ConcatFacts
<1>6. s \in Seq(S)
  BY ONLY <1>2, <1>5, b \in Seq(S), ConcatFacts
<1>7. x \in Seq(S) /\ Len(x) = Len(g) + Len(a)
  BY ONLY <1>3, g \in Seq(S), a \in Seq(S), ConcatFacts
<1>8. y \in Seq(S) /\ Len(y) = Len(x) + Len(b)
  BY ONLY <1>4, <1>7, b \in Seq(S), ConcatFacts
<1>9. z = g \o (a \o s)
  <2>1. AssocThree(a, b, c, r)
    BY ONLY a \in Seq(S), b \in Seq(S), c \in Seq(S), r \in Seq(S), RegroupThree
  <2> QED
    BY <1>1, <1>2, <2>1, Zenon DEF Joined, AssocThree
<1>10. z = x \o s
  <2>1. Assoc(g, a, s)
    BY ONLY <1>6, g \in Seq(S), a \in Seq(S), Associative
  <2> QED
    BY <1>3, <1>9, <2>1, Zenon DEF Assoc
<1>11. z = y \o h
  <2>1. Assoc(x, b, h)
    BY ONLY <1>5, <1>7, b \in Seq(S), Associative
  <2> QED
    BY <1>2, <1>4, <1>10, <2>1, Zenon DEF Assoc
<1>12. z = (y \o c) \o r
  <2>1. Assoc(y, c, r)
    BY ONLY <1>8, c \in Seq(S), r \in Seq(S), Associative
  <2> QED
    BY <1>1, <1>11, <2>1, Zenon DEF Assoc
<1>13. SubSeq(z, Len(g) + 1, Len(g) + Len(a)) = a
  <2>1. z = (g \o a) \o s
    BY <1>3, <1>10, Zenon
  <2> QED
    BY ONLY <1>6, <2>1, g \in Seq(S), a \in Seq(S), MiddlePart
<1>14. SubSeq(z, Len(x) + 1, Len(x) + Len(b)) = b
  <2>1. z = (x \o b) \o h /\ x \in Seq(S)
    BY <1>4, <1>7, <1>11, Zenon
  <2> QED
    BY ONLY <1>5, <2>1, b \in Seq(S), MiddlePart
<1>15. z \in Seq(S) /\ Len(z) = (Len(y) + Len(c)) + Len(r) /\ SubSeq(z, Len(y) + 1, Len(y) + Len(c)) = c
  <2>1. y \in Seq(S)
    BY <1>8
  <2> QED
    BY ONLY <1>12, <2>1, c \in Seq(S), r \in Seq(S), MiddlePart
<1> QED
  BY <1>7, <1>8, <1>13, <1>14, <1>15, Zenon DEF PartsAt

Placed(z, f, p, a, b, c, r) == z = f \o ((p \o ((a \o b) \o c)) \o r)
FoundAt(z, S, a, b, c, m, i, j, k) ==
    /\ z \in Seq(S) /\ Len(z) \in Nat /\ k <= Len(z)
    /\ SubSeq(z, m + 1, i) = a /\ SubSeq(z, i + 1, j) = b /\ SubSeq(z, j + 1, k) = c

\* The same, with the part before them in two.
LEMMA ThreeParts ==
    ASSUME NEW S, NEW f \in Seq(S), NEW p \in Seq(S), NEW a \in Seq(S), NEW b \in Seq(S),
           NEW c \in Seq(S), NEW r \in Seq(S), NEW z, Placed(z, f, p, a, b, c, r),
           NEW m, m = Len(f) + Len(p), NEW i, i = m + Len(a), NEW j, j = i + Len(b), NEW k, k = j + Len(c)
    PROVE  FoundAt(z, S, a, b, c, m, i, j, k)
<1>1. PICK x : x = (a \o b) \o c
  OBVIOUS
<1>2. x \in Seq(S)
  <2>1. a \o b \in Seq(S)
    BY ONLY a \in Seq(S), b \in Seq(S), ConcatFacts
  <2> QED
    BY ONLY <1>1, <2>1, c \in Seq(S), ConcatFacts
<1>3. PICK g : g = f \o p
  OBVIOUS
<1>4. g \in Seq(S) /\ Len(g) = Len(f) + Len(p)
  BY ONLY <1>3, f \in Seq(S), p \in Seq(S), ConcatFacts
<1>5. Joined(z, g, a, b, c, r)
  <2>1. Regrouped(f, p, x, r)
    BY ONLY <1>2, f \in Seq(S), p \in Seq(S), r \in Seq(S), Regroup
  <2>2. z = f \o ((p \o ((a \o b) \o c)) \o r)
    BY Zenon DEF Placed
  <2> QED
    BY ONLY <1>1, <1>3, <2>1, <2>2, Zenon DEF Joined, Regrouped
<1>6. PartsAt(z, S, g, a, b, c, r)
  <2>1. g \in Seq(S)
    BY <1>4
  <2> QED
    BY ONLY <1>5, <2>1, a \in Seq(S), b \in Seq(S), c \in Seq(S), r \in Seq(S), PartsInMiddle
<1>7. SubSeq(z, m + 1, i) = a /\ SubSeq(z, i + 1, j) = b /\ SubSeq(z, j + 1, k) = c
      /\ Len(z) = k + Len(r)
  BY <1>4, <1>6, Zenon DEF PartsAt
<1>8. Len(r) \in Nat /\ k \in Nat
  <2>1. Len(f) \in Nat
    BY ONLY f \in Seq(S)
  <2>2. Len(p) \in Nat
    BY ONLY p \in Seq(S)
  <2>3. Len(a) \in Nat
    BY ONLY a \in Seq(S)
  <2>4. Len(b) \in Nat
    BY ONLY b \in Seq(S)
  <2>5. Len(c) \in Nat
    BY ONLY c \in Seq(S)
  <2>6. Len(r) \in Nat
    BY ONLY r \in Seq(S)
  <2>7. m = Len(f) + Len(p) /\ i = m + Len(a) /\ j = i + Len(b) /\ k = j + Len(c)
    OBVIOUS
  <2>8. m \in Nat
    BY <2>1, <2>2, <2>7
  <2>9. i \in Nat
    BY <2>3, <2>7, <2>8
  <2>10. j \in Nat
    BY <2>4, <2>7, <2>9
  <2> QED
    BY <2>5, <2>6, <2>7, <2>10
<1>9. Len(z) \in Nat /\ k <= Len(z)
  BY ONLY <1>7, <1>8
<1> QED
  BY <1>6, <1>7, <1>9, Zenon DEF PartsAt, FoundAt

\* What the offsets lead to, of an entry that is where they say.
Found(t) == IF ScaleLength(t.scale) = 1 THEN t.value
            ELSE <<LittleEndian(t.scale, 2)[2]>> \o t.value

\* The type, the first byte of the scale and the rest.
LEMMA TripleParts ==
    ASSUME NEW t, IsEntry(t)
    PROVE  \E a, b \in Seq(Nat) : /\ a = <<t.type>> /\ Len(a) = 1 /\ Len(b) = 1
                                  /\ Found(t) \in Seq(Nat) /\ Len(Found(t)) = Len(Triple(t)) - 2
                                  /\ Triple(t) = (a \o b) \o Found(t)
<1>1. t.type \in Nat /\ t.scale \in Int /\ t.value \in Seq(Bytes) /\ ScaleLength(t.scale) \in {1, 2}
  BY DEF IsEntry
<1>2. \A s \in Seq(Bytes) : s \in Seq(Nat)
  <2>1. Bytes \subseteq Nat
    BY ByteFacts DEF Bytes
  <2>2. ASSUME NEW s \in Seq(Bytes) PROVE s \in Seq(Nat)
    <3>1. Len(s) \in Nat /\ s \in [1..Len(s) -> Bytes]
      OBVIOUS
    <3>2. s \in [1..Len(s) -> Nat]
      BY ONLY <2>1, <3>1
    <3> QED
      BY ONLY <3>1, <3>2
  <2> QED
    BY <2>2
<1>3. PICK a, r : a = <<t.type>> /\ r = t.value
  OBVIOUS
<1>4. a \in Seq(Nat) /\ Len(a) = 1 /\ r \in Seq(Nat)
  <2>1. a \in Seq(Nat) /\ Len(a) = 1
    BY <1>1, <1>3, SingleFacts
  <2> QED
    BY <1>1, <1>2, <1>3, <2>1, Zenon
<1>5. Len(Triple(t)) = (1 + ScaleLength(t.scale)) + Len(r) /\ Len(r) \in Nat
  BY <1>3, TripleFacts, Zenon
<1>6. CASE ScaleLength(t.scale) = 1
  <2>1. PICK b : b = LittleEndian(t.scale, 1)
    OBVIOUS
  <2>2. b \in Seq(Nat) /\ Len(b) = 1
    <3>1. PICK w \in Nat : w = 1
      OBVIOUS
    <3>2. LittleEndian(t.scale, w) \in Seq(Bytes) /\ Len(LittleEndian(t.scale, w)) = w
      BY <1>1, LittleEndianFacts
    <3> QED
      BY <1>2, <2>1, <3>1, <3>2, Zenon
  <2>3. Found(t) = r
    BY <1>3, <1>6, Zenon DEF Found
  <2>4. Triple(t) = (a \o b) \o Found(t)
    BY <1>3, <1>6, <2>1, <2>3, Zenon DEF Triple
  <2>5. Len(Found(t)) = Len(Triple(t)) - 2
    BY <1>5, <1>6, <2>3
  <2> QED
    BY <1>3, <1>4, <2>2, <2>3, <2>4, <2>5, Zenon
<1>7. CASE ScaleLength(t.scale) # 1
  <2>1. ScaleLength(t.scale) = 2
    BY <1>1, <1>7
  <2>2. PICK s : s = LittleEndian(t.scale, 2)
    OBVIOUS
  <2>3. s \in Seq(Bytes) /\ Len(s) = 2
    <3>1. PICK w \in Nat : w = 2
      OBVIOUS
    <3>2. LittleEndian(t.scale, w) \in Seq(Bytes) /\ Len(LittleEndian(t.scale, w)) = w
      BY <1>1, LittleEndianFacts
    <3> QED
      BY <2>2, <3>1, <3>2, Zenon
  <2>4. PICK b, c : b = <<s[1]>> /\ c = <<s[2]>>
    OBVIOUS
  <2>5. s[1] \in Nat /\ s[2] \in Nat
    <3>1. \A i \in 1..2 : s[i] \in Bytes
      BY <2>3
    <3>2. Bytes \subseteq Nat /\ 1 \in 1..2 /\ 2 \in 1..2
      BY ByteFacts DEF Bytes
    <3> QED
      BY <3>1, <3>2
  <2>6. b \in Seq(Nat) /\ Len(b) = 1 /\ c \in Seq(Nat) /\ Len(c) = 1
    BY <2>4, <2>5, SingleFacts
  <2>7. s = b \o c
    BY <2>3, <2>4
  <2>8. Found(t) = c \o r
    BY <1>3, <1>7, <2>2, <2>4, Zenon DEF Found
  <2>9. c \o r \in Seq(Nat) /\ Len(c \o r) = Len(c) + Len(r)
    BY ONLY <1>4, <2>6, ConcatFacts
  <2>10. Triple(t) = (a \o (b \o c)) \o r
    BY <1>3, <2>1, <2>2, <2>7, Zenon DEF Triple
  <2>11. (a \o (b \o c)) \o r = (a \o b) \o (c \o r)
    <3>1. a \in Seq(Nat) /\ b \in Seq(Nat) /\ c \in Seq(Nat) /\ r \in Seq(Nat)
      BY <1>4, <2>6
    <3>2. a \o b \in Seq(Nat)
      BY ONLY <3>1, ConcatFacts
    <3>3. Assoc(a, b, c) /\ Assoc(a \o b, c, r)
      BY ONLY <3>1, <3>2, Associative
    <3> QED
      BY <3>3, Zenon DEF Assoc
  <2>12. Len(Found(t)) = Len(Triple(t)) - 2
    BY <1>5, <2>1, <2>6, <2>8, <2>9
  <2> QED
    BY <1>3, <1>4, <2>6, <2>8, <2>9, <2>10, <2>11, <2>12, Zenon
<1> QED
  BY <1>6, <1>7

\* What Bytes puts together.
Header == <<toHeader(Size)>>
OffsetRows == [i \in DOMAIN values |-> Offsets(i, Size)]
TripleRows == [i \in DOMAIN values |-> Triple(values[i])]

\* The three offsets of an argument.
OffsetWords(k, w, a, b, c) == /\ a = LittleEndian(Start(k) + 1, w)
                              /\ b = LittleEndian(Start(k) + 2, w)
                              /\ c = LittleEndian(Start(k) + Length(values[k]), w)

RowIs(k, w, a, b, c) ==
    /\ a \in Seq(Nat) /\ Len(a) = w /\ b \in Seq(Nat) /\ Len(b) = w /\ c \in Seq(Nat) /\ Len(c) = w
    /\ Offsets(k, w) = (a \o b) \o c
    /\ Offsets(k, w) \in Seq(Nat) /\ Len(Offsets(k, w)) = 3 * w

\* A row of the table is the three, each of the width of an offset.
LEMMA RowFacts ==
    ASSUME NEW n, Entries(n), NEW k \in 1..n, NEW w \in Nat,
           NEW a, NEW b, NEW c, OffsetWords(k, w, a, b, c)
    PROVE  RowIs(k, w, a, b, c)
<1>1. Start(k) \in Nat /\ Length(values[k]) \in Nat
  BY StartFacts
<1>2. \A x \in Nat : LittleEndian(x, w) \in Seq(Nat) /\ Len(LittleEndian(x, w)) = w
  <2>1. Bytes \subseteq Nat
    BY ByteFacts DEF Bytes
  <2>2. ASSUME NEW s \in Seq(Bytes) PROVE s \in Seq(Nat)
    <3>1. Len(s) \in Nat /\ s \in [1..Len(s) -> Bytes]
      OBVIOUS
    <3>2. s \in [1..Len(s) -> Nat]
      BY ONLY <2>1, <3>1
    <3> QED
      BY ONLY <3>1, <3>2
  <2>3. \A x \in Nat : LittleEndian(x, w) \in Seq(Bytes) /\ Len(LittleEndian(x, w)) = w
    BY LittleEndianFacts
  <2> QED
    BY <2>2, <2>3, Zenon
<1>3. Start(k) + 1 \in Nat /\ Start(k) + 2 \in Nat /\ Start(k) + Length(values[k]) \in Nat
  BY <1>1
<1>4. a \in Seq(Nat) /\ Len(a) = w /\ b \in Seq(Nat) /\ Len(b) = w /\ c \in Seq(Nat) /\ Len(c) = w
  BY <1>2, <1>3, Zenon DEF OffsetWords
<1>5. Offsets(k, w) = (a \o b) \o c
  BY Zenon DEF Offsets, OffsetWords
<1>6. PICK x : x = a \o b
  OBVIOUS
<1>7. x \in Seq(Nat) /\ Len(x) = Len(a) + Len(b)
  <2>1. a \in Seq(Nat) /\ b \in Seq(Nat)
    BY <1>4
  <2> QED
    BY ONLY <1>6, <2>1, ConcatFacts
<1>8. x \o c \in Seq(Nat) /\ Len(x \o c) = Len(x) + Len(c)
  <2>1. x \in Seq(Nat) /\ c \in Seq(Nat)
    BY <1>4, <1>7
  <2> QED
    BY ONLY <2>1, ConcatFacts
<1>9. (w + w) + w = 3 * w
  OBVIOUS
<1> QED
  BY <1>4, <1>5, <1>6, <1>7, <1>8, <1>9, Zenon DEF RowIs

\* The rows of offsets and of elements, put together.
LEMMA RowsPutTogether ==
    ASSUME ArgsInv, NEW n, n = Len(args), n # 0
    PROVE  /\ IsConcat(OffsetRows, n, Nat) /\ IsConcat(TripleRows, n, Nat)
           /\ \A k \in 1..n : OffsetRows[k] = Offsets(k, Size) /\ TripleRows[k] = Triple(values[k])
<1>1. Entries(n)
  BY ArgumentEntries
<1>2. n \in Nat /\ DOMAIN values = 1..n /\ \A i \in 1..n : IsEntry(values[i])
  BY <1>1 DEF Entries
<1>3. Size \in Nat
  BY SizeFacts
<1>4. \A k \in 1..n : OffsetRows[k] = Offsets(k, Size) /\ TripleRows[k] = Triple(values[k])
  BY <1>2 DEF OffsetRows, TripleRows
<1> DEFINE T == Seq(Nat)
<1>5. \A k \in 1..n : OffsetRows[k] \in T /\ TripleRows[k] \in T
  <2> SUFFICES ASSUME NEW k \in 1..n PROVE OffsetRows[k] \in T /\ TripleRows[k] \in T
    OBVIOUS
  <2>1. Triple(values[k]) \in Seq(Nat)
    BY <1>2, TripleFacts
  <2>2. PICK a, b, c : OffsetWords(k, Size, a, b, c)
    BY Zenon DEF OffsetWords
  <2>3. Offsets(k, Size) \in Seq(Nat)
    BY <1>1, <1>3, <2>2, RowFacts DEF RowIs
  <2> QED
    BY <1>4, <2>1, <2>3, Zenon
<1> HIDE DEF T
<1>6. OffsetRows \in [1..n -> T]
  <2>1. OffsetRows = [i \in 1..n |-> Offsets(i, Size)]
    BY <1>2, Zenon DEF OffsetRows
  <2> QED
    BY <1>5, <2>1
<1>7. TripleRows \in [1..n -> T]
  <2>1. TripleRows = [i \in 1..n |-> Triple(values[i])]
    BY <1>2, Zenon DEF TripleRows
  <2> QED
    BY <1>5, <2>1
<1>8. OffsetRows \in Seq(T) /\ n = Len(OffsetRows) /\ TripleRows \in Seq(T) /\ n = Len(TripleRows)
  <2>1. n \in Nat
    BY <1>2
  <2> QED
    BY <1>6, <1>7, <2>1, FunctionIsSeq
<1>9. IsConcat(OffsetRows, n, Nat) /\ IsConcat(TripleRows, n, Nat)
  <2>1. OffsetRows \in Seq(Seq(Nat)) /\ n = Len(OffsetRows) /\ TripleRows \in Seq(Seq(Nat)) /\ n = Len(TripleRows)
    BY <1>8 DEF T
  <2> QED
    BY ONLY <2>1, ConcatPrefixes
<1> QED
  BY <1>4, <1>9

\* What is written.
LEMMA Written ==
    ASSUME ArgsInv, payload # <<>>, NEW n, n = Len(args)
    PROVE  /\ n \in Nat /\ n # 0 /\ Entries(n) /\ ~refused
           /\ payload = (Header \o Concat(OffsetRows)) \o Concat(TripleRows)
           /\ Header \in Seq(Nat) /\ Len(Header) = 1
<1>1. payload = TupleBytes /\ args # <<>> /\ ~refused
  BY DEF ArgsInv
<1>2. Entries(n) /\ n \in Nat
  BY ArgumentEntries DEF Entries
<1>3. n # 0
  <2>1. args \in Seq({v \in Arguments : Encodable(v)})
    BY DEF ArgsInv
  <2> QED
    BY <1>1, <2>1
<1>4. payload = (Header \o Concat(OffsetRows)) \o Concat(TripleRows)
  BY <1>1, Zenon DEF TupleBytes, Header, OffsetRows, TripleRows, Size
<1>5. Header \in Seq(Nat) /\ Len(Header) = 1
  BY <1>3, SizeFacts, SingleFacts DEF Header
<1> QED
  BY <1>1, <1>2, <1>3, <1>4, <1>5

\* How long the first rows are, whose lengths are all the same.
AllLong(parts, n, l) == \A k \in 1..n : Len(parts[k]) = l
RowsAre(u, n, l) == \A k \in 0..n : u[k] \in Seq(Nat) /\ Len(u[k]) = k * l

\* The first k rows are k times as long as one.
LEMMA EqualRows ==
    ASSUME NEW parts, NEW n, NEW u, Prefixes(u, parts, n, Nat), NEW l \in Nat,
           AllLong(parts, n, l)
    PROVE  RowsAre(u, n, l)
<1>1. n \in Nat /\ u \in [0..n -> Seq(Nat)] /\ u[0] = <<>> /\ \A i \in 1..n : u[i] = u[i - 1] \o parts[i]
  BY Zenon DEF Prefixes
<1>2. n \in Nat
  BY <1>1
<1>3. \A k \in 0..n : u[k] \in Seq(Nat)
  BY <1>1
<1> DEFINE U == {k \in Nat : Len(u[k]) = k * l}
<1>4. 0 \in U
  <2>1. Len(u[0]) = 0
    BY <1>1
  <2>2. 0 * l = 0
    OBVIOUS
  <2> QED
    BY <2>1, <2>2
<1>5. ASSUME NEW k \in 1..n, k - 1 \in U PROVE k \in U
  <2>1. k \in Nat /\ k - 1 \in 0..n
    BY <1>2
  <2>2. u[k - 1] \in Seq(Nat) /\ parts[k] \in Seq(Nat)
    <3>1. SplitAt(u, parts, n, Nat, k)
      BY ConcatSplit
    <3> QED
      BY <3>1, Zenon DEF SplitAt
  <2>3. Len(u[k - 1] \o parts[k]) = Len(u[k - 1]) + Len(parts[k])
    BY ONLY <2>2, ConcatFacts
  <2>4. Len(u[k]) = (k - 1) * l + l
    <3>1. Len(u[k - 1]) = (k - 1) * l
      BY <1>5
    <3> QED
      BY <1>1, <2>3, <3>1, Zenon DEF AllLong
  <2>5. (k - 1) * l + l = k * l
    BY <2>1
  <2> QED
    BY <2>1, <2>4, <2>5
<1> HIDE DEF U
<1>6. \A k \in 0..n : k \in U
  BY <1>2, <1>4, <1>5, BoundedInduct
<1> QED
  BY <1>3, <1>6 DEF U, RowsAre

\* The offset table is before the elements.
LEMMA TableLength ==
    ASSUME ArgsInv, payload # <<>>, NEW n, n = Len(args)
    PROVE  /\ Size \in Nat /\ Size >= 1
           /\ Concat(OffsetRows) \in Seq(Nat) /\ Len(Concat(OffsetRows)) = n * (3 * Size)
           /\ Concat(TripleRows) \in Seq(Nat)
<1>1. n \in Nat /\ n # 0 /\ Entries(n)
  BY Written
<1>2. Size \in Nat /\ Size >= 1
  BY <1>1, SizeFacts
<1>3. IsConcat(OffsetRows, n, Nat) /\ IsConcat(TripleRows, n, Nat)
  BY <1>1, RowsPutTogether
<1>4. PICK u : Prefixes(u, OffsetRows, n, Nat) /\ Concat(OffsetRows) = u[n]
  BY <1>3, Zenon DEF IsConcat
<1>5. PICK l \in Nat : l = 3 * Size
  BY <1>2
<1>6. \A k \in 1..n : Len(OffsetRows[k]) = l
  <2> SUFFICES ASSUME NEW k \in 1..n PROVE Len(OffsetRows[k]) = l
    OBVIOUS
  <2>1. OffsetRows[k] = Offsets(k, Size)
    BY <1>1, RowsPutTogether
  <2>2. PICK a, b, c : OffsetWords(k, Size, a, b, c)
    BY Zenon DEF OffsetWords
  <2>3. Len(Offsets(k, Size)) = 3 * Size
    BY <1>1, <1>2, <2>2, RowFacts DEF RowIs
  <2> QED
    BY <1>5, <2>1, <2>3, Zenon
<1>7. u[n] \in Seq(Nat) /\ Len(u[n]) = n * l
  <2>1. n \in 0..n
    BY <1>1
  <2> QED
    <3>1. AllLong(OffsetRows, n, l)
      BY <1>6, Zenon DEF AllLong
    <3>2. RowsAre(u, n, l)
      BY <1>4, <3>1, EqualRows
    <3> QED
      BY <2>1, <3>2, Zenon DEF RowsAre
<1>8. Concat(TripleRows) \in Seq(Nat)
  <2>1. PICK v : Prefixes(v, TripleRows, n, Nat) /\ Concat(TripleRows) = v[n]
    BY <1>3, Zenon DEF IsConcat
  <2>2. n \in 1..n
    BY <1>1
  <2>3. v[n] \in Seq(Nat)
    BY <2>1, <2>2, ConcatSplit DEF SplitAt
  <2> QED
    BY <2>1, <2>3, Zenon
<1> QED
  BY <1>2, <1>4, <1>5, <1>7, <1>8, Zenon

\* The offsets of the k-th argument in the payload.
LEMMA OffsetsWritten ==
    ASSUME ArgsInv, payload # <<>>, NEW n, n = Len(args), NEW k \in 1..n,
           NEW a, NEW b, NEW c, OffsetWords(k, Size, a, b, c),
           NEW m, m = 1 + (k - 1) * (3 * Size)
    PROVE  /\ SubSeq(payload, m + 1, m + Size) = a
           /\ SubSeq(payload, (m + Size) + 1, (m + Size) + Size) = b
           /\ SubSeq(payload, ((m + Size) + Size) + 1, ((m + Size) + Size) + Size) = c
<1>1. n \in Nat /\ n # 0 /\ Entries(n) /\ Header \in Seq(Nat) /\ Len(Header) = 1
      /\ payload = (Header \o Concat(OffsetRows)) \o Concat(TripleRows)
  BY Written
<1>2. Size \in Nat /\ Concat(OffsetRows) \in Seq(Nat) /\ Concat(TripleRows) \in Seq(Nat)
  BY TableLength
<1>3. IsConcat(OffsetRows, n, Nat) /\ \A i \in 1..n : OffsetRows[i] = Offsets(i, Size)
  BY <1>1, RowsPutTogether
<1>4. PICK u : Prefixes(u, OffsetRows, n, Nat) /\ Concat(OffsetRows) = u[n]
  BY <1>3, Zenon DEF IsConcat
<1>5. /\ a \in Seq(Nat) /\ Len(a) = Size /\ b \in Seq(Nat) /\ Len(b) = Size /\ c \in Seq(Nat) /\ Len(c) = Size
      /\ OffsetRows[k] = (a \o b) \o c
  <2>1. Entries(n) /\ Size \in Nat
    BY <1>1, <1>2
  <2>2. RowIs(k, Size, a, b, c)
    BY <2>1, RowFacts
  <2> QED
    BY <1>3, <2>2, Zenon DEF RowIs
<1>6. PICK p : p = u[k - 1]
  OBVIOUS
<1>7. p \in Seq(Nat) /\ Len(p) = (k - 1) * (3 * Size)
  <2>1. PICK l \in Nat : l = 3 * Size
    BY <1>2
  <2>2. \A i \in 1..n : Len(OffsetRows[i]) = l
    <3> SUFFICES ASSUME NEW i \in 1..n PROVE Len(OffsetRows[i]) = l
      OBVIOUS
    <3>1. PICK d, e, f : OffsetWords(i, Size, d, e, f)
      BY Zenon DEF OffsetWords
    <3>2. Len(Offsets(i, Size)) = 3 * Size
      BY <1>1, <1>2, <3>1, RowFacts DEF RowIs
    <3> QED
      BY <1>3, <2>1, <3>2, Zenon
  <2>3. k - 1 \in 0..n
    BY <1>1
  <2>4. u[k - 1] \in Seq(Nat) /\ Len(u[k - 1]) = (k - 1) * l
    <3>1. AllLong(OffsetRows, n, l)
      BY <2>2, Zenon DEF AllLong
    <3>2. RowsAre(u, n, l)
      BY <1>4, <3>1, EqualRows
    <3> QED
      BY <2>3, <3>2, Zenon DEF RowsAre
  <2> QED
    BY <1>6, <2>1, <2>4, Zenon
<1>8. PICK rest \in Seq(Nat) : u[n] = (p \o OffsetRows[k]) \o rest
  <2>1. \E rest \in Seq(Nat) : u[n] = (u[k - 1] \o OffsetRows[k]) \o rest
    <3>1. SplitAt(u, OffsetRows, n, Nat, k)
      BY <1>4, ConcatSplit
    <3> QED
      BY <3>1, Zenon DEF SplitAt
  <2> QED
    BY <1>6, <2>1, Zenon
<1>9. PICK y : y = (a \o b) \o c
  OBVIOUS
<1>10. y \in Seq(Nat)
  <2>1. OffsetRows[k] = y /\ OffsetRows[k] \in Seq(Nat)
    <3>1. OffsetRows[k] \in Seq(Nat)
      BY <1>4, ConcatSplit DEF SplitAt
    <3> QED
      BY <1>5, <1>9, <3>1, Zenon
  <2> QED
    BY <2>1
<1>11. PICK t : t = Concat(TripleRows)
  OBVIOUS
<1>12. PICK r : r = rest \o t
  OBVIOUS
<1>13. t \in Seq(Nat) /\ r \in Seq(Nat)
  <2>1. t \in Seq(Nat)
    BY <1>2, <1>11
  <2> QED
    BY ONLY <1>12, <2>1, rest \in Seq(Nat), ConcatFacts
<1>14. Placed(payload, Header, p, a, b, c, r)
  <2>1. PICK x : x = p \o y
    OBVIOUS
  <2>2. x \in Seq(Nat)
    BY ONLY <1>7, <1>10, <2>1, ConcatFacts
  <2>3. Concat(OffsetRows) = x \o rest
    BY <1>4, <1>5, <1>8, <1>9, <2>1, Zenon
  <2>4. x \o rest \in Seq(Nat)
    BY ONLY <2>2, rest \in Seq(Nat), ConcatFacts
  <2>5. Assoc(Header, x \o rest, t)
    <3>1. Header \in Seq(Nat) /\ t \in Seq(Nat)
      BY <1>1, <1>13
    <3> QED
      BY ONLY <2>4, <3>1, Associative
  <2>6. Assoc(x, rest, t)
    BY ONLY <1>13, <2>2, rest \in Seq(Nat), Associative
  <2> QED
    BY <1>1, <1>9, <1>11, <1>12, <2>1, <2>3, <2>5, <2>6, Zenon DEF Assoc, Placed
<1>15. m = Len(Header) + Len(p)
  BY <1>1, <1>7, Zenon
<1>16. PICK i, j, l : i = m + Len(a) /\ j = i + Len(b) /\ l = j + Len(c)
  OBVIOUS
<1>17. FoundAt(payload, Nat, a, b, c, m, i, j, l)
  <2>1. Header \in Seq(Nat) /\ p \in Seq(Nat) /\ a \in Seq(Nat) /\ b \in Seq(Nat) /\ c \in Seq(Nat) /\ r \in Seq(Nat)
    BY <1>1, <1>5, <1>7, <1>13
  <2> QED
    BY ONLY <1>14, <1>15, <1>16, <2>1, ThreeParts
<1> QED
  BY <1>5, <1>16, <1>17, Zenon DEF FoundAt

\* The server reads the width.
LEMMA HeaderRead ==
    ASSUME ArgsInv, payload # <<>>
    PROVE  SizeOf(payload[1]) = Size
<1>1. PICK n : n = Len(args)
  OBVIOUS
<1>2. /\ n \in Nat /\ n # 0 /\ Header \in Seq(Nat) /\ Len(Header) = 1
      /\ payload = (Header \o Concat(OffsetRows)) \o Concat(TripleRows)
  BY <1>1, Written
<1>3. PICK o, t : o = Concat(OffsetRows) /\ t = Concat(TripleRows)
  OBVIOUS
<1>4. o \in Seq(Nat) /\ t \in Seq(Nat)
  BY <1>1, <1>3, TableLength
<1>5. PICK h, x : h = Header /\ x = h \o o
  OBVIOUS
<1>6. h \in Seq(Nat) /\ Len(h) = 1 /\ payload = x \o t
  BY <1>2, <1>3, <1>5, Zenon
<1>7. x \in Seq(Nat) /\ Len(x) = Len(h) + Len(o) /\ \A i \in 1..Len(h) : x[i] = h[i]
  <2>1. h \in Seq(Nat)
    BY <1>6
  <2> QED
    BY ONLY <1>4, <1>5, <2>1, ConcatFacts
<1>8. \A i \in 1..Len(x) : payload[i] = x[i]
  BY ONLY <1>4, <1>6, <1>7, ConcatFacts
<1>9. 1 \in 1..Len(h) /\ 1 \in 1..Len(x)
  <2>1. Len(o) \in Nat
    BY <1>4
  <2> QED
    BY ONLY <1>6, <1>7, <2>1
<1>10. payload[1] = h[1]
  <2>1. \A i \in 1..Len(h) : x[i] = h[i]
    BY <1>7
  <2>2. payload[1] = x[1]
    BY ONLY <1>8, <1>9
  <2>3. x[1] = h[1]
    BY ONLY <2>1, <1>9
  <2> QED
    BY ONLY <2>2, <2>3
<1>11. h[1] = toHeader(Size)
  BY <1>5 DEF Header
<1> QED
  BY <1>1, <1>2, <1>10, <1>11, SizeFacts

\* The offsets that the server reads are those that Bytes has counted; the one
\* that its width cannot hold is read as zero.
LEMMA OffsetsRead ==
    ASSUME ArgsInv, payload # <<>>, NEW n, n = Len(args), NEW k \in 1..n
    PROVE  /\ OffsetAt(3 * k - 3) = Start(k)
           /\ OffsetAt(3 * k - 2) = Start(k) + 1
           /\ OffsetAt(3 * k - 1) = IF Start(k) + 2 = Power(Byte, Size) THEN 0 ELSE Start(k) + 2
           /\ OffsetAt(3 * k) = Start(k) + Length(values[k])
<1>1. n \in Nat /\ n # 0 /\ Entries(n)
  BY Written
<1>2. PICK w \in Nat : w = Size /\ w >= 1
  BY TableLength
<1>3. SizeOf(payload[1]) = w
  BY <1>2, HeaderRead
<1>4. PICK P \in Nat : P = Power(Byte, w)
  BY BytePowers
<1>5. ASSUME NEW e, e # 0
      PROVE  OffsetAt(e) = Unsigned(Reversed(SubSeq(payload, 2 + (e - 1) * w, 1 + e * w)))
  BY <1>3, <1>5, Zenon DEF OffsetAt
<1>6. ASSUME NEW j \in 1..n
      PROVE  /\ OffsetAt(3 * j - 2) = Unsigned(Reversed(LittleEndian(Start(j) + 1, w)))
             /\ OffsetAt(3 * j - 1) = Unsigned(Reversed(LittleEndian(Start(j) + 2, w)))
             /\ OffsetAt(3 * j) = Unsigned(Reversed(LittleEndian(Start(j) + Length(values[j]), w)))
  <2>1. PICK a, b, c : OffsetWords(j, Size, a, b, c)
    BY Zenon DEF OffsetWords
  <2>2. j \in Nat /\ j >= 1 /\ 3 * j - 2 # 0 /\ 3 * j - 1 # 0 /\ 3 * j # 0
    BY <1>1
  <2>3. PICK m : m = 1 + (j - 1) * (3 * Size)
    OBVIOUS
  <2>4. /\ SubSeq(payload, m + 1, m + Size) = a
        /\ SubSeq(payload, (m + Size) + 1, (m + Size) + Size) = b
        /\ SubSeq(payload, ((m + Size) + Size) + 1, ((m + Size) + Size) + Size) = c
    BY <2>1, <2>3, OffsetsWritten
  <2>5. PICK x \in Nat : x = (j - 1) * w
    <3>1. j - 1 \in Nat
      BY <2>2
    <3> QED
      BY <3>1
  <2>6. m = 1 + 3 * x
    BY <1>2, <2>2, <2>3, <2>5
  <2>7. /\ ((3 * j - 2) - 1) * w = 3 * x /\ (3 * j - 2) * w = 3 * x + w
        /\ ((3 * j - 1) - 1) * w = 3 * x + w /\ (3 * j - 1) * w = (3 * x + w) + w
        /\ (3 * j - 1) * w = 3 * x + 2 * w /\ (3 * j) * w = ((3 * x + w) + w) + w
    BY <2>2, <2>5
  <2>8. /\ 2 + ((3 * j - 2) - 1) * w = m + 1 /\ 1 + (3 * j - 2) * w = m + w
        /\ 2 + ((3 * j - 1) - 1) * w = (m + w) + 1 /\ 1 + (3 * j - 1) * w = (m + w) + w
        /\ 2 + (3 * j - 1) * w = ((m + w) + w) + 1 /\ 1 + (3 * j) * w = ((m + w) + w) + w
    BY <2>6, <2>7
  <2>9. OffsetAt(3 * j - 2) = Unsigned(Reversed(a))
    <3>1. OffsetAt(3 * j - 2) = Unsigned(Reversed(SubSeq(payload, 2 + ((3 * j - 2) - 1) * w, 1 + (3 * j - 2) * w)))
      BY <1>5, <2>2
    <3> QED
      BY <1>2, <2>4, <2>8, <3>1, Zenon
  <2>10. OffsetAt(3 * j - 1) = Unsigned(Reversed(b))
    <3>1. OffsetAt(3 * j - 1) = Unsigned(Reversed(SubSeq(payload, 2 + ((3 * j - 1) - 1) * w, 1 + (3 * j - 1) * w)))
      BY <1>5, <2>2
    <3> QED
      BY <1>2, <2>4, <2>8, <3>1, Zenon
  <2>11. OffsetAt(3 * j) = Unsigned(Reversed(c))
    <3>1. OffsetAt(3 * j) = Unsigned(Reversed(SubSeq(payload, 2 + (3 * j - 1) * w, 1 + (3 * j) * w)))
      BY <1>5, <2>2
    <3> QED
      BY <1>2, <2>4, <2>8, <3>1, Zenon
  <2> QED
    BY <1>2, <2>1, <2>9, <2>10, <2>11, Zenon DEF OffsetWords
<1>7. \A x \in Nat : x < P => Unsigned(Reversed(LittleEndian(x, w))) = x
  BY <1>4, LittleEndianFacts
<1>8. ASSUME NEW j \in 1..n
      PROVE  /\ Start(j) \in Nat /\ Length(values[j]) \in Nat /\ Start(j) + 1 < P
             /\ Start(j + 1) = Start(j) + Length(values[j]) /\ Start(j) + Length(values[j]) < P
  <2>1. Start(n + 1) < P - 1
    BY <1>1, <1>2, <1>4, SizeFacts
  <2>2. j \in Nat /\ j + 1 \in 1..(n + 1) /\ n + 1 \in (j + 1)..(n + 1) /\ j \in 1..(n + 1)
    BY <1>1
  <2>3. Start(j + 1) \in Nat /\ Start(n + 1) \in Nat /\ Start(j + 1) <= Start(n + 1)
    BY <1>1, <2>2, StartGrows
  <2>4. Start(j) \in Nat /\ Length(values[j]) \in Nat /\ Start(j + 1) = Start(j) + Length(values[j])
    BY <1>1, StartFacts
  <2>5. PICK s, l, u, t : s = Start(j) /\ l = Length(values[j]) /\ u = Start(j + 1) /\ t = Start(n + 1)
    OBVIOUS
  <2>6. s \in Nat /\ l \in Nat /\ u = s + l /\ u \in Nat /\ t \in Nat /\ u <= t /\ t < P - 1 /\ P \in Nat
    <3>1. s \in Nat /\ l \in Nat /\ u = s + l
      BY <2>4, <2>5, Zenon
    <3>2. u \in Nat /\ t \in Nat /\ u <= t
      BY <2>3, <2>5, Zenon
    <3>3. t < P - 1
      BY <2>1, <2>5, Zenon
    <3> QED
      BY <1>4, <3>1, <3>2, <3>3
  <2>7. s + 1 < P /\ s + l < P
    BY ONLY <2>6
  <2> QED
    BY <2>4, <2>5, <2>7, Zenon
<1>9. \A j \in 1..n : OffsetAt(3 * j) = Start(j) + Length(values[j])
  <2> SUFFICES ASSUME NEW j \in 1..n PROVE OffsetAt(3 * j) = Start(j) + Length(values[j])
    OBVIOUS
  <2>1. Start(j) + Length(values[j]) \in Nat /\ Start(j) + Length(values[j]) < P
    BY <1>8
  <2> QED
    BY <1>6, <1>7, <2>1
<1>10. OffsetAt(3 * k - 2) = Start(k) + 1
  <2>1. Start(k) + 1 \in Nat /\ Start(k) + 1 < P
    BY <1>8
  <2> QED
    BY <1>6, <1>7, <2>1
<1>11. OffsetAt(3 * k - 1) = IF Start(k) + 2 = P THEN 0 ELSE Start(k) + 2
  <2>1. CASE Start(k) + 2 = P
    BY <1>4, <1>6, <2>1, WrapsToZero, Zenon
  <2>2. CASE Start(k) + 2 # P
    <3>1. Start(k) + 2 \in Nat /\ Start(k) + 2 < P
      BY <1>8, <2>2
    <3> QED
      BY <1>6, <1>7, <2>2, <3>1
  <2> QED
    BY <2>1, <2>2
<1>12. OffsetAt(3 * k - 3) = Start(k)
  <2>1. CASE k = 1
    <3>1. 3 * k - 3 = 0
      BY <2>1
    <3>2. OffsetAt(0) = 0
      BY Zenon DEF OffsetAt
    <3>3. Start(1) = 0
      BY <1>1, StartFacts
    <3> QED
      BY <2>1, <3>1, <3>2, <3>3, Zenon
  <2>2. CASE k # 1
    <3>1. PICK j \in 1..n : j = k - 1 /\ j + 1 = k
      BY <1>1, <2>2
    <3>2. 3 * k - 3 = 3 * j
      BY <1>1, <3>1
    <3>3. OffsetAt(3 * j) = Start(j + 1)
      BY <1>8, <1>9, Zenon
    <3> QED
      BY <3>1, <3>2, <3>3, Zenon
  <2> QED
    BY <2>1, <2>2
<1> QED
  BY <1>2, <1>4, <1>9, <1>10, <1>11, <1>12, Zenon

\* Before an argument are the bytes of the ones before it, of which those of
\* NULLs are not counted.
LEMMA RowsCounted ==
    ASSUME ArgsInv, NEW n, n = Len(args), n # 0, NEW u, Prefixes(u, TripleRows, n, Nat), NEW k \in 1..n
    PROVE  /\ u[k - 1] \in Seq(Nat) /\ Start(k) \in Nat /\ Len(u[k - 1]) >= Start(k)
           /\ (\A j \in 1..(k - 1) : args[j] # Nil) => Len(u[k - 1]) = Start(k)
<1>1. Entries(n) /\ n \in Nat
  BY ArgumentEntries DEF Entries
<1>2. /\ u[0] = <<>> /\ u \in [0..n -> Seq(Nat)]
      /\ \A i \in 1..n : u[i] = u[i - 1] \o TripleRows[i]
  BY Zenon DEF Prefixes
<1>3. \A i \in 0..n : u[i] \in Seq(Nat)
  BY <1>2
<1>4. \A i \in 1..n : /\ TripleRows[i] = Triple(values[i]) /\ IsEntry(values[i])
                      /\ (values[i].type = 0 <=> args[i] = Nil)
  <2> SUFFICES ASSUME NEW i \in 1..n
               PROVE  /\ TripleRows[i] = Triple(values[i]) /\ IsEntry(values[i])
                      /\ (values[i].type = 0 <=> args[i] = Nil)
    OBVIOUS
  <2>1. TripleRows[i] = Triple(values[i])
    BY RowsPutTogether
  <2>2. IsArgument(args[i]) /\ Encodable(args[i]) /\ values[i] = typeScaleValue(args[i])
    BY ArgumentEntries
  <2> QED
    BY <2>1, <2>2, EntryFacts
<1> DEFINE G(m) == /\ Start(m + 1) \in Nat /\ Len(u[m]) >= Start(m + 1)
                   /\ (\A j \in 1..m : args[j] # Nil) => Len(u[m]) = Start(m + 1)
           U == {m \in Nat : G(m)}
<1>5. 0 \in U
  <2>1. Start(0 + 1) = 0 /\ Len(u[0]) = 0
    BY <1>1, <1>2, StartFacts
  <2> QED
    BY <2>1
<1>6. ASSUME NEW m \in 1..n, G(m - 1) PROVE G(m)
  <2>1. m \in Nat /\ m - 1 \in Nat /\ (m - 1) + 1 = m /\ m - 1 \in 0..n
    BY <1>1
  <2>2. PICK l, t, s, c, e : l = Len(u[m - 1]) /\ t = Triple(values[m]) /\ s = Start(m) /\ c = Length(values[m]) /\ e = Len(t)
    OBVIOUS
  <2>3. Len(u[m]) = l + e
    <3>1. u[m - 1] \in Seq(Nat) /\ t \in Seq(Nat)
      BY <1>3, <1>4, <2>1, <2>2, TripleFacts
    <3>2. Len(u[m - 1] \o t) = Len(u[m - 1]) + Len(t)
      BY ONLY <3>1, ConcatFacts
    <3>3. u[m] = u[m - 1] \o t
      BY <1>2, <1>4, <2>2, Zenon
    <3> QED
      BY <2>2, <3>2, <3>3, Zenon
  <2>4. s \in Nat /\ l >= s /\ ((\A j \in 1..(m - 1) : args[j] # Nil) => l = s)
    BY <1>6, <2>1, <2>2, Zenon
  <2>5. l \in Nat
    BY <1>3, <2>1, <2>2
  <2>6. c \in Nat /\ Start(m + 1) = s + c
    BY <1>1, <2>2, StartFacts
  <2>7. e \in Nat /\ c <= e /\ (args[m] # Nil => c = e)
    <3>1. t \in Seq(Nat) /\ c <= e
      BY <1>4, <2>2, TripleFacts
    <3>2. args[m] # Nil => c = e
      BY <1>4, <2>2, TripleFacts
    <3> QED
      BY <2>2, <3>1, <3>2
  <2>8. Start(m + 1) \in Nat /\ Len(u[m]) >= Start(m + 1)
    BY <2>3, <2>4, <2>5, <2>6, <2>7
  <2>9. ASSUME \A j \in 1..m : args[j] # Nil PROVE Len(u[m]) = Start(m + 1)
    <3>1. m \in 1..m /\ \A j \in 1..(m - 1) : j \in 1..m
      BY <2>1
    <3>2. l = s /\ c = e
      BY <2>4, <2>7, <2>9, <3>1
    <3> QED
      BY <2>3, <2>6, <3>2
  <2> QED
    BY <2>8, <2>9
<1> HIDE DEF G
<1>7. \A m \in 1..n : m - 1 \in U => m \in U
  BY <1>1, <1>6
<1> HIDE DEF U
<1>8. \A m \in 0..n : m \in U
  BY <1>1, <1>5, <1>7, BoundedInduct
<1>9. k - 1 \in 0..n /\ (k - 1) + 1 = k
  BY <1>1
<1>10. G(k - 1)
  BY <1>8, <1>9 DEF U
<1>11. u[k - 1] \in Seq(Nat)
  BY <1>3, <1>9
<1> QED
  BY <1>9, <1>10, <1>11, Zenon DEF G

\* Where the type and the value of an argument are.
Elements(k, m) == \E b : FoundAt(payload, Nat, <<values[k].type>>, b, Found(values[k]), m, m + 1, m + 2,
                                 m + Len(Triple(values[k])))

\* They are behind the bytes of the arguments before.
LEMMA ElementsWritten ==
    ASSUME ArgsInv, payload # <<>>, NEW n, n = Len(args), NEW k \in 1..n
    PROVE  \E q \in Nat : /\ q >= Start(k) /\ ((\A j \in 1..(k - 1) : args[j] # Nil) => q = Start(k))
                          /\ Elements(k, (1 + n * (3 * Size)) + q)
<1>1. n \in Nat /\ n # 0 /\ Entries(n) /\ Header \in Seq(Nat) /\ Len(Header) = 1
      /\ payload = (Header \o Concat(OffsetRows)) \o Concat(TripleRows)
  BY Written
<1>2. Size \in Nat /\ Concat(OffsetRows) \in Seq(Nat) /\ Len(Concat(OffsetRows)) = n * (3 * Size)
  BY TableLength
<1>3. IsConcat(TripleRows, n, Nat) /\ TripleRows[k] = Triple(values[k])
  BY <1>1, RowsPutTogether
<1>4. PICK u : Prefixes(u, TripleRows, n, Nat) /\ Concat(TripleRows) = u[n]
  BY <1>3, Zenon DEF IsConcat
<1>5. IsEntry(values[k])
  BY <1>1 DEF Entries
<1>6. PICK t : t = values[k]
  OBVIOUS
<1>7. PICK a, b \in Seq(Nat) : /\ a = <<t.type>> /\ Len(a) = 1 /\ Len(b) = 1
                               /\ Found(t) \in Seq(Nat) /\ Len(Found(t)) = Len(Triple(t)) - 2
                               /\ Triple(t) = (a \o b) \o Found(t)
  BY <1>5, <1>6, TripleParts
<1>8. PICK p, c, f : p = u[k - 1] /\ c = Found(t) /\ f = Header \o Concat(OffsetRows)
  OBVIOUS
<1>9. p \in Seq(Nat) /\ Len(p) >= Start(k) /\ ((\A j \in 1..(k - 1) : args[j] # Nil) => Len(p) = Start(k))
  <2>1. /\ u[k - 1] \in Seq(Nat) /\ Start(k) \in Nat /\ Len(u[k - 1]) >= Start(k)
        /\ (\A j \in 1..(k - 1) : args[j] # Nil) => Len(u[k - 1]) = Start(k)
    BY <1>1, <1>4, RowsCounted
  <2> QED
    BY <1>8, <2>1, Zenon
<1>10. PICK rest \in Seq(Nat) : u[n] = (p \o Triple(t)) \o rest
  <2>1. SplitAt(u, TripleRows, n, Nat, k)
    BY <1>4, ConcatSplit
  <2> QED
    BY <1>3, <1>6, <1>8, <2>1, Zenon DEF SplitAt
<1>11. f \in Seq(Nat) /\ Len(f) = 1 + n * (3 * Size)
  <2>1. Header \in Seq(Nat) /\ Concat(OffsetRows) \in Seq(Nat)
    BY <1>1, <1>2
  <2>2. f \in Seq(Nat) /\ Len(f) = Len(Header) + Len(Concat(OffsetRows))
    BY ONLY <1>8, <2>1, ConcatFacts
  <2> QED
    BY <1>1, <1>2, <2>2, Zenon
<1>12. Placed(payload, f, p, a, b, c, rest)
  BY <1>1, <1>4, <1>7, <1>8, <1>10, Zenon DEF Placed
<1>13. PICK m : m = Len(f) + Len(p)
  OBVIOUS
<1>14. m \in Nat /\ Len(p) \in Nat
  <2>1. Len(f) \in Nat
    BY ONLY <1>11
  <2>2. Len(p) \in Nat
    BY ONLY <1>9
  <2> QED
    BY <1>13, <2>1, <2>2
<1>15. PICK i, j, l : i = m + Len(a) /\ j = i + Len(b) /\ l = j + Len(c)
  OBVIOUS
<1>16. FoundAt(payload, Nat, a, b, c, m, i, j, l)
  <2>1. f \in Seq(Nat) /\ p \in Seq(Nat) /\ c \in Seq(Nat)
    BY <1>7, <1>8, <1>9, <1>11
  <2> QED
    BY ONLY <1>12, <1>13, <1>15, <2>1, a \in Seq(Nat), b \in Seq(Nat), rest \in Seq(Nat), ThreeParts
<1>17. i = m + 1 /\ j = m + 2 /\ l = m + Len(Triple(t))
  <2>1. PICK e, g : e = Len(Triple(t)) /\ g = Len(c)
    OBVIOUS
  <2>2. e \in Nat /\ g = e - 2 /\ l = j + g /\ i = m + 1 /\ j = i + 1
    <3>1. e \in Nat
      BY <1>5, <1>6, <2>1, TripleFacts
    <3> QED
      BY <1>7, <1>8, <1>15, <2>1, <3>1, Zenon
  <2>3. i = m + 1 /\ j = m + 2 /\ l = m + e
    BY ONLY <1>14, <2>2
  <2> QED
    BY <2>1, <2>3, Zenon
<1>18. Elements(k, m)
  BY <1>6, <1>7, <1>8, <1>16, <1>17, Zenon DEF Elements
<1>19. Elements(k, (1 + n * (3 * Size)) + Len(p))
  BY <1>11, <1>13, <1>18, Zenon
<1> QED
  BY <1>9, <1>14, <1>19

-----------------------------------------------------------------------------
(* What the server reads                                                   *)

\* The bytes before the elements, and what is read between the offsets.
Base == 1 + Len(args) * (3 * Size)
TypeRead(k) == SubSeq(payload, (Base + Start(k)) + 1, Base + (Start(k) + 1))
ValueRead(k, s) == SubSeq(payload, (Base + s) + 1, Base + (Start(k) + Length(values[k])))
ReadFrom(k, s) == IF TypeRead(k) = <<>> \/ ValueRead(k, s) = <<>> THEN Nil
                  ELSE Decoded(TypeRead(k)[1], ValueRead(k, s))

\* The offset that its width cannot hold.
Wraps(k) == Start(k) + 2 = Power(Byte, Size)

\* What the server makes of an argument is what it reads between the offsets.
LEMMA ReceivedFrom ==
    ASSUME ArgsInv, payload # <<>>, NEW n, n = Len(args), NEW k \in 1..n
    PROVE  Received(k) = ReadFrom(k, IF Wraps(k) THEN 0 ELSE Start(k) + 2)
<1>1. n \in Nat /\ n # 0
  BY Written
<1>2. PICK s : s = IF Wraps(k) THEN 0 ELSE Start(k) + 2
  OBVIOUS
<1>3. k \in Nat /\ (3 * k - 2) - 1 = 3 * k - 3
  BY <1>1
<1>4. /\ OffsetAt(3 * k - 3) = Start(k)
      /\ OffsetAt(3 * k - 2) = Start(k) + 1
      /\ OffsetAt(3 * k - 1) = s
      /\ OffsetAt(3 * k) = Start(k) + Length(values[k])
  BY <1>2, OffsetsRead, Zenon DEF Wraps
<1>5. 1 + 3 * Len(args) * SizeOf(payload[1]) = Base
  <2>1. PICK w \in Nat : w = Size
    BY TableLength
  <2>2. SizeOf(payload[1]) = w
    BY <2>1, HeaderRead
  <2>3. 1 + 3 * n * w = 1 + n * (3 * w)
    BY <1>1
  <2> QED
    BY <2>1, <2>2, <2>3, Zenon DEF Base
<1>6. ElementAt(3 * k - 2) = TypeRead(k)
  <2>1. ElementAt(3 * k - 2) = SubSeq(payload, Base + OffsetAt((3 * k - 2) - 1) + 1, Base + OffsetAt(3 * k - 2))
    BY <1>5, Zenon DEF ElementAt
  <2> QED
    BY <1>3, <1>4, <2>1, Zenon DEF TypeRead
<1>7. ElementAt(3 * k) = ValueRead(k, s)
  <2>1. ElementAt(3 * k) = SubSeq(payload, Base + OffsetAt(3 * k - 1) + 1, Base + OffsetAt(3 * k))
    BY <1>5, Zenon DEF ElementAt
  <2> QED
    BY <1>4, <2>1, Zenon DEF ValueRead
<1> QED
  BY <1>2, <1>6, <1>7, Zenon DEF Received, ReadFrom

\* What the arguments, the entries and the offsets have to do with each other.
LEMMA PlaceFacts ==
    ASSUME ArgsInv, payload # <<>>, NEW n, n = Len(args), NEW k \in 1..n
    PROVE  /\ IsArgument(args[k]) /\ Encodable(args[k]) /\ IsEntry(values[k])
           /\ values[k] = typeScaleValue(args[k])
           /\ Base \in Nat /\ Start(k) \in Nat
           /\ Len(Triple(values[k])) \in Nat /\ Len(Triple(values[k])) >= 2
           /\ args[k] # Nil => Length(values[k]) = Len(Triple(values[k])) /\ ~Wraps(k)
           /\ args[k] = Nil => Length(values[k]) = 0 /\ values[k].type = 0
<1>1. n \in Nat /\ n # 0 /\ Entries(n)
  BY Written
<1>2. IsArgument(args[k]) /\ Encodable(args[k]) /\ values[k] = typeScaleValue(args[k])
  BY ArgumentEntries
<1>3. IsEntry(values[k]) /\ (values[k].type = 0 <=> args[k] = Nil)
  BY <1>2, EntryFacts
<1>4. PICK w \in Nat : w = Size /\ w >= 1
  BY TableLength
<1>5. Base \in Nat
  BY <1>1, <1>4 DEF Base
<1>6. PICK t, e, c : t = values[k] /\ e = Len(Triple(t)) /\ c = Length(t)
  OBVIOUS
<1>7. e \in Nat /\ e >= 2 /\ c \in Nat /\ (t.type = 0 => c = 0) /\ (t.type # 0 => c = e)
  <2>1. Triple(t) \in Seq(Nat) /\ e >= 2 /\ c \in Nat /\ (t.type = 0 => c = 0) /\ (t.type # 0 => c = e)
    BY <1>3, <1>6, TripleFacts
  <2>2. e \in Nat
    BY <1>6, <2>1
  <2> QED
    BY <2>1, <2>2
<1>8. Start(k) \in Nat /\ Start(k + 1) = Start(k) + c
  BY <1>1, <1>6, StartFacts
<1>9. Start(k + 1) <= Start(n + 1) /\ Start(n + 1) \in Nat
  <2>1. k + 1 \in 1..(n + 1) /\ n + 1 \in (k + 1)..(n + 1)
    BY <1>1
  <2> QED
    BY <1>1, <2>1, StartGrows
<1>10. Start(n + 1) < Power(Byte, Size) - 1 /\ Power(Byte, Size) \in Nat
  BY <1>1, <1>4, SizeFacts, BytePowers
<1>11. ASSUME args[k] # Nil PROVE ~Wraps(k)
  <2>1. PICK s, u, P : s = Start(k) /\ u = Start(n + 1) /\ P = Power(Byte, Size)
    OBVIOUS
  <2>2. s \in Nat /\ u \in Nat /\ P \in Nat /\ s + c <= u /\ u < P - 1 /\ c >= 2 /\ c \in Nat
    <3>1. c = e
      BY <1>3, <1>6, <1>7, <1>11
    <3>2. s \in Nat /\ s + c <= u
      BY <1>8, <1>9, <2>1, Zenon
    <3>3. u \in Nat /\ P \in Nat /\ u < P - 1
      BY <1>9, <1>10, <2>1, Zenon
    <3> QED
      BY <1>7, <3>1, <3>2, <3>3
  <2>3. s + 2 # P
    BY ONLY <2>2
  <2> QED
    BY <2>1, <2>3, Zenon DEF Wraps
<1> QED
  BY <1>2, <1>3, <1>5, <1>6, <1>7, <1>8, <1>11, Zenon

\* The server reads the type and the value of an argument that no NULL
\* precedes, unless it is a NULL itself.
LEMMA FoundInPlace ==
    ASSUME ArgsInv, payload # <<>>, NEW n, n = Len(args), NEW k \in 1..n,
           args[k] # Nil, \A j \in 1..(k - 1) : args[j] # Nil
    PROVE  Received(k) = IF Found(values[k]) = <<>> THEN Nil
                         ELSE Decoded(TypeId(args[k].type), Found(values[k]))
<1>1. PICK v, t : v = args[k] /\ t = values[k]
  OBVIOUS
<1>2. /\ IsArgument(v) /\ Encodable(v) /\ t = typeScaleValue(v) /\ IsEntry(t)
      /\ Base \in Nat /\ Start(k) \in Nat /\ Len(Triple(t)) \in Nat
      /\ Length(t) = Len(Triple(t)) /\ ~Wraps(k)
  BY <1>1, PlaceFacts, Zenon
<1>3. Elements(k, Base + Start(k))
  BY ElementsWritten, Zenon DEF Base
<1>4. PICK m : m = Base + Start(k)
  OBVIOUS
<1>5. SubSeq(payload, m + 1, m + 1) = <<t.type>> /\ SubSeq(payload, (m + 2) + 1, m + Len(Triple(t))) = Found(t)
  BY <1>1, <1>3, <1>4, Zenon DEF Elements, FoundAt
<1>6. /\ Base + (Start(k) + 1) = m + 1 /\ Base + (Start(k) + 2) = m + 2
      /\ Base + (Start(k) + Length(t)) = m + Len(Triple(t))
  <2>1. PICK b, s, l, e : b = Base /\ s = Start(k) /\ l = Length(t) /\ e = Len(Triple(t))
    OBVIOUS
  <2>2. b \in Nat /\ s \in Nat /\ e \in Nat /\ l = e /\ m = b + s
    BY <1>2, <1>4, <2>1, Zenon
  <2>3. b + (s + 1) = m + 1 /\ b + (s + 2) = m + 2 /\ b + (s + l) = m + e
    BY ONLY <2>2
  <2> QED
    BY <2>1, <2>3, Zenon
<1>7. TypeRead(k) = <<t.type>>
  BY <1>4, <1>5, <1>6, Zenon DEF TypeRead
<1>8. ValueRead(k, Start(k) + 2) = Found(t)
  BY <1>1, <1>5, <1>6, Zenon DEF ValueRead
<1>9. TypeRead(k) # <<>> /\ TypeRead(k)[1] = TypeId(v.type)
  <2>1. t.type = TypeId(v.type)
    BY <1>2, EntryFacts
  <2>2. \A x : <<x>> # <<>> /\ <<x>>[1] = x
    OBVIOUS
  <2> QED
    BY <1>7, <2>1, <2>2, Zenon
<1>10. Received(k) = ReadFrom(k, Start(k) + 2)
  BY <1>2, ReceivedFrom, Zenon
<1> QED
  BY <1>1, <1>8, <1>9, <1>10, Zenon DEF ReadFrom

\* A value that no NULL precedes is read as passed, unless it is one of those
\* that change.
LEMMA ValueInPlace ==
    ASSUME ArgsInv, payload # <<>>, NEW n, n = Len(args), NEW k \in 1..n,
           args[k] # Nil, \A j \in 1..(k - 1) : args[j] # Nil
    PROVE  Received(k) = Sent(args[k]) <=> ~Altered(args[k])
<1>1. PICK v, t : v = args[k] /\ t = values[k]
  OBVIOUS
<1>2. IsArgument(v) /\ Encodable(v) /\ t = typeScaleValue(v) /\ v # Nil
  BY <1>1, PlaceFacts, Zenon
<1>3. Received(k) = IF Found(t) = <<>> THEN Nil ELSE Decoded(TypeId(v.type), Found(t))
  BY <1>1, FoundInPlace
<1>4. t.value = ValueBytes(v) /\ (v.type = "decimal" => t.scale = v.scale)
  BY <1>2, EntryFacts
<1>5. ScaleLength(t.scale) = 1 <=> ~(v.type = "decimal" /\ v.scale >= Byte - 1)
  BY <1>2, EntryFacts
<1>6. CASE v.type = "decimal" /\ v.scale >= Byte - 1
  <2>1. Found(t) = <<LittleEndian(v.scale, 2)[2]>> \o ValueBytes(v)
    BY <1>4, <1>5, <1>6, Zenon DEF Found
  <2>2. Determined(v) /\ Fits(v.scale, 2)
    BY <1>2, <1>6, ArgumentFacts DEF Encodable
  <2>3. Found(t) # <<>> /\ Decoded(TypeId(v.type), Found(t)) # Sent(v)
    BY <1>6, <2>1, <2>2, ScaledDecimal
  <2>4. Altered(v)
    BY <1>6, Zenon DEF Altered, Changed
  <2> QED
    BY <1>1, <1>3, <2>3, <2>4, Zenon
<1>7. CASE ~(v.type = "decimal" /\ v.scale >= Byte - 1)
  <2>1. Found(t) = ValueBytes(v)
    BY <1>4, <1>5, <1>7, Zenon DEF Found
  <2>2. ReadAs(v, ValueBytes(v))
    BY <1>2, <1>7, ValueArrives
  <2> QED
    BY <1>1, <1>3, <2>1, <2>2, Zenon DEF ReadAs
<1> QED
  BY <1>6, <1>7

\* A NULL is read as one, unless its second offset is the one that its width
\* cannot hold.
LEMMA NullRead ==
    ASSUME ArgsInv, payload # <<>>, NEW n, n = Len(args), NEW k \in 1..n, args[k] = Nil
    PROVE  Received(k) = Nil <=> ~Wraps(k)
<1>1. PICK m, s, b, e : m = Base + s /\ s = Start(k) /\ b = Base /\ e = Len(Triple(values[k]))
  OBVIOUS
<1>2. b \in Nat /\ s \in Nat /\ Length(values[k]) = 0 /\ e \in Nat /\ e >= 2
  BY <1>1, PlaceFacts, Zenon
<1>3. CASE ~Wraps(k)
  <2>1. Received(k) = ReadFrom(k, s + 2)
    BY <1>1, <1>3, ReceivedFrom, Zenon
  <2>2. ValueRead(k, s + 2) = SubSeq(payload, (b + (s + 2)) + 1, b + (s + 0))
    BY <1>1, <1>2, Zenon DEF ValueRead
  <2>3. SubSeq(payload, (b + (s + 2)) + 1, b + (s + 0)) = <<>>
    <3>1. PICK x, y : x = (b + (s + 2)) + 1 /\ y = b + (s + 0)
      OBVIOUS
    <3>2. x \in Int /\ y \in Int /\ y < x
      BY <1>2, <3>1
    <3>3. SubSeq(payload, x, y) = <<>>
      BY ONLY <3>2, SubSeqEmpty
    <3> QED
      BY <3>1, <3>3, Zenon
  <2> QED
    BY <1>3, <2>1, <2>2, <2>3, Zenon DEF ReadFrom
<1>4. CASE Wraps(k)
  <2>1. s >= 1
    <3>1. PICK w \in Nat : w = Size /\ w >= 1
      BY TableLength
    <3>2. PICK P \in Nat : P = Power(Byte, Size) /\ P >= 4
      <4>1. w - 1 \in Nat /\ (w - 1) + 1 = w
        BY <3>1
      <4>2. /\ Power(Byte, w - 1) \in Nat /\ Power(Byte, w - 1) > w - 1
            /\ Power(Byte, (w - 1) + 1) = Byte * Power(Byte, w - 1)
        BY <4>1, BytePowers
      <4>3. PICK q \in Nat : q = Power(Byte, w - 1) /\ q >= 1
        BY <4>1, <4>2
      <4>4. Byte * q \in Nat /\ Byte * q >= 4
        <5>1. Byte \in Nat /\ Byte >= 4
          BY ByteFacts
        <5> QED
          BY <4>3, <5>1
      <4>5. Power(Byte, Size) = Byte * q
        BY <3>1, <4>1, <4>2, <4>3, Zenon
      <4> QED
        BY <4>4, <4>5
    <3>3. s + 2 = P
      BY <1>1, <1>4, <3>2, Zenon DEF Wraps
    <3> QED
      BY <1>2, <3>2, <3>3
  <2>2. PICK q \in Nat : q >= s /\ Elements(k, b + q)
    BY <1>1, ElementsWritten, Zenon DEF Base
  <2>3. payload \in Seq(Nat) /\ Len(payload) \in Nat /\ (b + q) + e <= Len(payload)
    BY <1>1, <2>2, Zenon DEF Elements, FoundAt
  <2>4. PICK x, y : x = b + s /\ y = b + (s + 1)
    OBVIOUS
  <2>5. x \in Nat /\ y \in Nat /\ b <= x /\ x <= y /\ x <= Len(payload) /\ y <= Len(payload) /\ x - b >= 1 /\ y - x >= 1
    BY <1>2, <2>1, <2>2, <2>3, <2>4
  <2>6. Len(SubSeq(payload, x + 1, y)) = y - x
    BY ONLY <2>3, <2>5, PartFacts
  <2>7. Len(SubSeq(payload, b + 1, x)) = x - b
    BY ONLY <1>2, <2>3, <2>5, PartFacts
  <2>8. TypeRead(k) = SubSeq(payload, x + 1, y)
    BY <1>1, <2>4, Zenon DEF TypeRead
  <2>9. ValueRead(k, 0) = SubSeq(payload, b + 1, x)
    <3>1. (b + 0) + 1 = b + 1 /\ b + (s + 0) = x
      BY <1>2, <2>4
    <3> QED
      BY <1>1, <1>2, <3>1, Zenon DEF ValueRead
  <2>10. TypeRead(k) # <<>> /\ ValueRead(k, 0) # <<>>
    <3>1. ASSUME NEW z, z = <<>> PROVE Len(z) = 0
      BY <3>1
    <3>2. y - x # 0 /\ x - b # 0
      BY <2>5
    <3> QED
      BY <2>6, <2>7, <2>8, <2>9, <3>1, <3>2, Zenon
  <2>11. Received(k) = Decoded(TypeRead(k)[1], ValueRead(k, 0))
    BY <1>4, <2>10, ReceivedFrom, Zenon DEF ReadFrom
  <2>12. Decoded(TypeRead(k)[1], ValueRead(k, 0)) # Nil
    BY DecodedNotNil
  <2> QED
    BY <1>4, <2>11, <2>12, Zenon
<1> QED
  BY <1>3, <1>4

\* The value right after a NULL is read with the NULL's type.
LEMMA AfterNull ==
    ASSUME ArgsInv, payload # <<>>, NEW n, n = Len(args), NEW k \in 1..n, args[k] # Nil, ~Astray(k),
           NEW i \in 1..(k - 1), args[i] = Nil
    PROVE  Received(k) \in {Nil, [type |-> "unknown"]}
<1>1. n \in Nat /\ k \in Nat /\ k <= n /\ Entries(n)
  BY Written
<1>2. PICK j \in 1..(k - 1) : args[j] = Nil /\ \A h \in 1..(j - 1) : args[h] # Nil
  <2> DEFINE T == {h \in 1..(k - 1) : args[h] = Nil}
  <2>1. T \subseteq Nat /\ T # {}
    BY <1>1
  <2> HIDE DEF T
  <2>2. PICK j \in T : \A h \in T : j <= h
    BY <2>1, LeastNumber
  <2>3. j \in 1..(k - 1) /\ args[j] = Nil /\ j \in Nat
    BY <2>2 DEF T
  <2>4. ASSUME NEW h \in 1..(j - 1) PROVE args[h] # Nil
    <3>1. h \in 1..(k - 1) /\ ~(j <= h)
      BY <1>1, <2>3
    <3>2. h \notin T
      BY <2>2, <3>1
    <3> QED
      BY <3>1, <3>2 DEF T
  <2> QED
    BY <2>3, <2>4
<1>3. /\ j \in Nat /\ j \in 1..n /\ j \in 1..(n + 1) /\ k \in j..(n + 1)
      /\ \A h \in j..(k - 1) : h \in 1..n /\ h \in 1..(k - 1) /\ (h = j \/ j < h)
  BY <1>1, <1>2
<1>4. \A h \in j..(k - 1) : args[h] = Nil
  BY <1>2, <1>3, Zenon DEF Astray
<1>5. \A h \in j..(k - 1) : Length(values[h]) = 0
  BY <1>3, <1>4, PlaceFacts
<1>6. Start(k) = Start(j)
  BY <1>1, <1>3, <1>5, StartGrows
<1>7. values[j].type = 0 /\ Base \in Nat /\ Start(j) \in Nat
  BY <1>2, <1>3, PlaceFacts
<1>8. Elements(j, Base + Start(j))
  BY <1>2, <1>3, ElementsWritten, Zenon DEF Base
<1>9. SubSeq(payload, (Base + Start(j)) + 1, (Base + Start(j)) + 1) = <<0>>
  BY <1>7, <1>8, Zenon DEF Elements, FoundAt
<1>10. Base + (Start(k) + 1) = (Base + Start(j)) + 1
  BY <1>6, <1>7
<1>11. TypeRead(k) = <<0>>
  BY <1>6, <1>9, <1>10, Zenon DEF TypeRead
<1>12. TypeRead(k)[1] = 0
  <2>1. <<0>>[1] = 0
    OBVIOUS
  <2> QED
    BY <1>11, <2>1, Zenon
<1>13. \A s : ReadFrom(k, s) = Nil \/ ReadFrom(k, s) = [type |-> "unknown"]
  BY <1>12, DecodedNotNil, Zenon DEF ReadFrom
<1>14. \E s : Received(k) = ReadFrom(k, s)
  BY ReceivedFrom, Zenon
<1> QED
  BY <1>13, <1>14, Zenon

\* What is sent is neither NULL nor of a type that is not known.
LEMMA SentFacts ==
    ASSUME NEW v, IsArgument(v), Encodable(v)
    PROVE  /\ v = Nil => Sent(v) = Nil /\ ~Altered(v)
           /\ v # Nil => Sent(v) \notin {Nil, [type |-> "unknown"]}
<1>1. Determined(v) /\ v.type \in ArgumentTypes
  BY ArgumentFacts
<1>2. Nil.type = "nil"
  BY DEF Nil
<1>3. ASSUME v = Nil PROVE Sent(v) = Nil /\ ~Altered(v)
  BY <1>2, <1>3 DEF Sent, Altered, Changed, Miswritten
<1>4. ASSUME v # Nil PROVE Sent(v).type \notin {"nil", "unknown"}
  <2>1. v.type # "nil"
    BY <1>1, <1>4 DEF Determined
  <2>2. CASE v.type = "byte"
    <3>1. Sent(v).type = "int8"
      BY <2>2 DEF Sent
    <3> QED
      BY <3>1
  <2>3. CASE v.type # "byte"
    <3>1. Sent(v) = v
      BY <2>3 DEF Sent
    <3>2. v.type # "unknown"
      BY <1>1 DEF ArgumentTypes
    <3> QED
      BY <2>1, <3>1, <3>2, Zenon
  <2> QED
    BY <2>2, <2>3
<1>5. ASSUME NEW x, x.type \notin {"nil", "unknown"} PROVE x \notin {Nil, [type |-> "unknown"]}
  <2>1. [type |-> "unknown"].type = "unknown"
    OBVIOUS
  <2> QED
    BY <1>2, <1>5, <2>1, Zenon
<1> QED
  BY <1>3, <1>4, <1>5, Zenon

\* The invariant says how every argument is read.
LEMMA ArgumentsRead ==
    ASSUME ArgsInv
    PROVE  ArgumentsArrive
<1> SUFFICES ASSUME payload # <<>>
             PROVE  /\ ~refused
                    /\ \A i \in DOMAIN args :
                         ~Astray(i) /\ ~Miswritten(args[i]) =>
                             (Received(i) = Sent(args[i]) <=> ~Exceptional(i))
  BY Zenon DEF ArgumentsArrive
<1>1. PICK n : n = Len(args)
  OBVIOUS
<1>2. n \in Nat /\ n # 0 /\ ~refused /\ DOMAIN args = 1..n
  BY <1>1, Written, ArgumentEntries
<1>3. SizeOf(payload[1]) = Size
  BY HeaderRead
<1>4. ASSUME NEW k \in 1..n, ~Astray(k), ~Miswritten(args[k])
      PROVE  Received(k) = Sent(args[k]) <=> ~Exceptional(k)
  <2>1. PICK v : v = args[k]
    OBVIOUS
  <2>2. IsArgument(v) /\ Encodable(v)
    BY <1>1, <2>1, PlaceFacts
  <2>3. /\ v = Nil => Sent(v) = Nil /\ ~Altered(v)
        /\ v # Nil => Sent(v) \notin {Nil, [type |-> "unknown"]}
    BY <2>2, SentFacts
  <2>4. CASE v = Nil
    <3>1. Exceptional(k) <=> Wraps(k)
      BY <1>3, <2>1, <2>3, <2>4, Zenon DEF Exceptional, Wraps, Altered
    <3>2. Received(k) = Nil <=> ~Wraps(k)
      BY <1>1, <2>1, <2>4, NullRead
    <3> QED
      BY <2>1, <2>3, <2>4, <3>1, <3>2, Zenon
  <2>5. CASE v # Nil /\ \A j \in 1..(k - 1) : args[j] # Nil
    <3>1. Exceptional(k) <=> Altered(v)
      BY <1>4, <2>1, <2>5, Zenon DEF Exceptional, Altered
    <3>2. Received(k) = Sent(v) <=> ~Altered(v)
      BY <1>1, <2>1, <2>5, ValueInPlace
    <3> QED
      BY <2>1, <3>1, <3>2, Zenon
  <2>6. CASE v # Nil /\ \E j \in 1..(k - 1) : args[j] = Nil
    <3>1. Exceptional(k)
      BY <2>1, <2>6, Zenon DEF Exceptional
    <3>2. Received(k) \in {Nil, [type |-> "unknown"]}
      BY <1>1, <1>4, <2>1, <2>6, AfterNull
    <3> QED
      BY <2>1, <2>3, <2>6, <3>1, <3>2, Zenon
  <2> QED
    BY <2>4, <2>5, <2>6
<1> QED
  BY <1>2, <1>4

-----------------------------------------------------------------------------
(* The invariant                                                           *)

\* Adding a value keeps the entries those of the arguments.
LEMMA AddValueKeeps ==
    ASSUME ArgsInv, NEW v \in Arguments, AddValue(v)
    PROVE  ArgsInv'
<1> DEFINE A == {w \in Arguments : Encodable(w)}
           f(w) == typeScaleValue(w)
<1>1. /\ payload = <<>> /\ Len(args) < MaxArgs /\ v \in A
      /\ args' = Append(args, v) /\ values' = Append(values, f(v)) /\ payload' = payload
  BY DEF AddValue, CanAdd
<1>2. args \in Seq(A) /\ values = [i \in DOMAIN args |-> f(args[i])]
  BY DEF ArgsInv
<1>3. MaxArgs \in Nat
  BY ArgumentsAssumption
<1> HIDE DEF A, f
<1>4. args' \in Seq(A) /\ Len(args') = Len(args) + 1 /\ Len(args) \in Nat
  BY <1>1, <1>2
<1>5. values' = [i \in DOMAIN args' |-> f(args'[i])]
  <2>1. PICK n \in Nat : n = Len(args) /\ DOMAIN args = 1..n
    BY <1>2
  <2>2. Len(values) = n /\ \A i \in 1..n : values[i] = f(args[i])
    BY <1>2, <2>1
  <2>3. values' = [i \in 1..(n + 1) |-> IF i = n + 1 THEN f(v) ELSE values[i]]
    BY <1>1, <1>2, <2>1, <2>2
  <2>4. DOMAIN args' = 1..(n + 1) /\ \A i \in 1..(n + 1) : args'[i] = IF i = n + 1 THEN v ELSE args[i]
    BY <1>1, <1>2, <2>1
  <2>5. \A i \in 1..(n + 1) : i # n + 1 => i \in 1..n
    BY <2>1
  <2>6. \A i \in 1..(n + 1) : (IF i = n + 1 THEN f(v) ELSE values[i]) = f(args'[i])
    BY <2>2, <2>4, <2>5, Zenon
  <2> QED
    BY <2>3, <2>4, <2>6
<1>6. Len(args') <= MaxArgs
  BY <1>1, <1>3, <1>4
<1> QED
  BY <1>1, <1>4, <1>5, <1>6 DEF ArgsInv, A, f

\* The invariant holds initially and after every step.
LEMMA ArgsInvariant == Spec => []ArgsInv
<1>1. Init => ArgsInv
  <2> SUFFICES ASSUME Init PROVE ArgsInv
    OBVIOUS
  <2>1. args = <<>> /\ values = <<>> /\ payload = <<>>
    BY DEF Init
  <2>2. <<>> \in Seq({v \in Arguments : Encodable(v)}) /\ Len(<<>>) <= MaxArgs
    BY ArgumentsAssumption
  <2>3. <<>> = [i \in DOMAIN <<>> |-> typeScaleValue(<<>>[i])]
    OBVIOUS
  <2> QED
    BY <2>1, <2>2, <2>3, Zenon DEF ArgsInv
<1>2. ArgsInv /\ [Next]_vars => ArgsInv'
  <2> SUFFICES ASSUME ArgsInv, [Next]_vars PROVE ArgsInv'
    OBVIOUS
  <2>1. ASSUME NEW v \in Arguments, AddValue(v) PROVE ArgsInv'
    BY <2>1, AddValueKeeps
  <2>2. ASSUME NEW v \in Arguments, AddValueFails(v) PROVE ArgsInv'
    <3>1. payload = <<>> /\ args' = args /\ values' = values /\ payload' = payload
      BY <2>2, Zenon DEF AddValueFails, CanAdd
    <3> QED
      BY <3>1, Zenon DEF ArgsInv
  <2>3. CASE WriteBytes
    <3>1. /\ args # <<>> /\ ~refused /\ payload' = TupleBytes
          /\ args' = args /\ values' = values /\ refused' = refused
      BY <2>3, Zenon DEF WriteBytes
    <3>2. TupleBytes' = TupleBytes
      <4>1. values' = values
        BY <3>1
      <4> QED
        BY ONLY <4>1 DEF TupleBytes, Start, Offsets
    <3> QED
      BY <3>1, <3>2, Zenon DEF ArgsInv
  <2>4. CASE UNCHANGED vars
    <3>1. args' = args /\ values' = values /\ payload' = payload /\ refused' = refused
      BY <2>4 DEF vars
    <3>2. TupleBytes' = TupleBytes
      <4>1. values' = values
        BY <3>1
      <4> QED
        BY ONLY <4>1 DEF TupleBytes, Start, Offsets
    <3> QED
      BY <3>1, <3>2, Zenon DEF ArgsInv
  <2> QED
    BY <2>1, <2>2, <2>3, <2>4 DEF Next
<1> QED
  BY <1>1, <1>2, PTL DEF Spec

\* The server reads every argument as the user has passed it, but for the
\* exceptional and the miswritten ones, whatever the arguments are and however
\* many: what Bytes counts, writes and leaves out, for offsets of every width.
THEOREM ArgumentsArriveAlways == Spec => []ArgumentsArrive
<1>1. ArgsInv => ArgumentsArrive
  BY ArgumentsRead
<1> QED
  BY <1>1, ArgsInvariant, PTL

=============================================================================
