------------------------- MODULE BinaryTupleProofs -------------------------
(***************************************************************************)
(* Proofs about BinaryTuple, for bytes of 8 bits (or of any width that      *)
(* divides 8), any number of columns and any values.                        *)
(***************************************************************************)
EXTENDS BinaryTuple, NumeralProofs

-----------------------------------------------------------------------------
(* Powers and digits                                                       *)

\* A byte has at least four values, the sign bit being half of them.
LEMMA ByteFacts ==
    /\ ByteBits \in Nat /\ ByteBits >= 2 /\ ByteBits <= 24
    /\ Byte \in Nat /\ Byte >= 4 /\ SignBit \in Nat /\ SignBit >= 2 /\ Byte = 2 * SignBit
<1>1. ByteBits \in Nat /\ ByteBits >= 2 /\ ByteBits <= 24 /\ ByteBits - 1 \in Nat /\ ByteBits - 2 \in Nat
  BY ByteBitsAssumption
<1>2. /\ (ByteBits - 1) + 1 = ByteBits /\ (ByteBits - 2) + 1 = ByteBits - 1
  BY <1>1
<1>3. /\ Power(2, ByteBits - 2) \in Nat /\ Power(2, ByteBits - 2) > ByteBits - 2
      /\ Power(2, ByteBits - 1) = 2 * Power(2, ByteBits - 2)
      /\ Power(2, ByteBits) = 2 * Power(2, ByteBits - 1)
  <2>1. 2 \in Nat /\ 2 >= 2
    OBVIOUS
  <2>2. /\ \A k \in Nat : Power(2, k) \in Nat /\ Power(2, k + 1) = 2 * Power(2, k)
        /\ \A k \in Nat : Power(2, k) > k
    BY <2>1, PowerGrows
  <2> QED
    BY <1>1, <1>2, <2>2
<1> QED
  BY <1>1, <1>3 DEF Byte, SignBit

-----------------------------------------------------------------------------
(* Byte strings                                                            *)

\* The little-endian form has the width asked for.
LEMMA LittleEndianFacts ==
    ASSUME NEW v \in Int, NEW w \in Nat
    PROVE  LittleEndian(v, w) \in Seq(Bytes) /\ Len(LittleEndian(v, w)) = w
<1>1. Byte \in Nat /\ Byte >= 2
  BY ByteFacts
<1> QED
  BY <1>1, DigitsShift DEF LittleEndian, Bytes

\* Bytes() has no leading zero, and is the number again.
LEMMA BigBytesFacts ==
    ASSUME NEW n \in Nat
    PROVE  /\ BigBytes(n) \in Seq(Bytes) /\ Len(BigBytes(n)) \in Nat
           /\ Value(BigBytes(n), Byte) = n
           /\ n < Power(Byte, Len(BigBytes(n)))
           /\ n = 0 => BigBytes(n) = <<>>
           /\ n # 0 => /\ Len(BigBytes(n)) >= 1 /\ BigBytes(n)[1] # 0
                       /\ Power(Byte, Len(BigBytes(n)) - 1) <= n
<1>1. Byte \in Nat /\ Byte >= 2
  BY ByteFacts
<1> QED
  BY <1>1, AllDigitsFacts DEF BigBytes, Bytes

\* A byte is a quarter, a half or all of eight bits.
LEMMA ByteWidths == ByteBits \in {2, 4, 8}
<1>1. ByteBits \in 2..24 /\ 8 % ByteBits = 0
  BY ByteBitsAssumption, WholeBytesAssumption
<1>2. ByteBits > 8 => 8 % ByteBits = 8
  BY <1>1
<1>3. ByteBits \in {2, 3, 4, 5, 6, 7, 8}
  BY <1>1, <1>2
<1>4. 8 % 3 # 0 /\ 8 % 5 # 0 /\ 8 % 6 # 0 /\ 8 % 7 # 0
  OBVIOUS
<1> QED
  BY <1>1, <1>3, <1>4

\* Eights of bits become bytes, and the bytes those bits again.
LEMMA WholeBytes ==
    ASSUME NEW n \in Nat, n >= 1, NEW b, BitString(b, 8 * n)
    PROVE  ToBytes(b) \in Seq(Bytes) /\ Len(ToBytes(b)) >= 1 /\ ToBits(ToBytes(b)) = b
<1>1. PICK k \in Nat : k >= 1 /\ k * ByteBits = 8
  BY ByteWidths
<1>2. ByteBits \in Nat /\ ByteBits >= 1
  BY ByteWidths
<1>3. n * k \in Nat /\ n * k >= 1
  BY <1>1
<1>4. (n * k) * ByteBits = 8 * n
  BY <1>1, <1>2
<1>5. /\ Pack(b, ByteBits) \in Seq(0..(Power(2, ByteBits) - 1)) /\ Len(Pack(b, ByteBits)) = n * k
      /\ Unpack(Pack(b, ByteBits), ByteBits) = b
  BY <1>2, <1>3, <1>4, PackFacts
<1> QED
  BY <1>3, <1>5 DEF ToBytes, ToBits, Bytes, Byte

\* The bits of dates and times become bytes, and are those bits again.
Rounded(b) == ToBytes(b) \in Seq(Bytes) /\ Len(ToBytes(b)) >= 1 /\ ToBits(ToBytes(b)) = b

\* So it is for all widths that occur.
LEMMA TimesAreWhole ==
    ASSUME NEW n \in {24, 32, 40, 48, 56, 64, 72}, NEW b, BitString(b, n)
    PROVE  Rounded(b)
<1>1. PICK k \in Nat : k >= 1 /\ 8 * k = n
  OBVIOUS
<1>2. BitString(b, 8 * k)
  BY <1>1
<1> QED
  BY <1>1, <1>2, WholeBytes DEF Rounded

-----------------------------------------------------------------------------
(* Decimals                                                                *)

\* Bytes without a redundant one in front.
Minimal(b) ==
    /\ b \in Seq(Bytes) /\ Len(b) >= 1
    /\ Len(b) > 1 => ~(b[1] = 0 /\ b[2] < SignBit) /\ ~Redundant(b, 1)

\* The bytes twosComplementBytes reserves are enough for a negative number and
\* its sign.
LEMMA RoomForSign ==
    ASSUME NEW m \in Nat, m # 0
    PROVE  /\ (BitLen(m) + ByteBits) \div ByteBits \in Nat
           /\ Power(Byte, (BitLen(m) + ByteBits) \div ByteBits) \in Nat
           /\ 2 * m < Power(Byte, (BitLen(m) + ByteBits) \div ByteBits)
<1> DEFINE k == BitLen(m)
           l == (k + ByteBits) \div ByteBits
<1>1. 2 \in Nat /\ 2 >= 2 /\ ByteBits \in Nat /\ ByteBits >= 2 /\ Byte \in Nat /\ Byte >= 2
  BY ByteFacts
<1>2. k \in 0..m
  BY <1>1, WidthFacts DEF BitLen
<1>3. PICK g : Shifts(g, m, 2, m) /\ g[k] = 0
  BY <1>1, WidthFacts DEF BitLen
<1> HIDE DEF k
<1>4. m < Power(2, k)
  <2>1. g[k] \in Nat /\ m < (g[k] + 1) * Power(2, k) /\ Power(2, k) \in Nat
    <3>1. \A i \in 0..m : g[i] \in Nat /\ m < (g[i] + 1) * Power(2, i)
      BY <1>1, <1>3, ShiftBound
    <3>2. \A i \in Nat : Power(2, i) \in Nat
      BY <1>1, PowerGrows
    <3> QED
      BY <1>2, <3>1, <3>2
  <2>2. (0 + 1) * Power(2, k) = Power(2, k)
    BY <2>1
  <2> QED
    BY <1>3, <2>1, <2>2
<1>5. l \in Nat /\ ByteBits * l >= k + 1 /\ ByteBits * l \in Nat
  <2>1. k + ByteBits \in Nat
    BY <1>1, <1>2
  <2>2. /\ (k + ByteBits) \div ByteBits \in Nat
        /\ k + ByteBits = ByteBits * ((k + ByteBits) \div ByteBits) + ((k + ByteBits) % ByteBits)
        /\ (k + ByteBits) % ByteBits \in 0..(ByteBits - 1)
    BY <1>1, <2>1, DivFacts
  <2> HIDE DEF l
  <2>3. ASSUME NEW x \in Nat, NEW r \in 0..(ByteBits - 1), k + ByteBits = x + r PROVE x >= k + 1
    BY <1>1, <1>2, <2>3
  <2>4. ByteBits * ((k + ByteBits) \div ByteBits) \in Nat
    BY <1>1, <2>2
  <2> QED
    BY <2>2, <2>3, <2>4 DEF l
<1> HIDE DEF l
<1>6. Power(Byte, l) = Power(2, ByteBits * l)
  <2>1. \A i \in Nat : Power(Byte, i) = Power(2, ByteBits * i)
    BY <1>1, PowerOfPower DEF Byte
  <2> QED
    BY <1>5, <2>1
<1>7. Power(2, k + 1) <= Power(2, ByteBits * l) /\ Power(2, ByteBits * l) \in Nat
      /\ Power(2, k) \in Nat /\ Power(2, k + 1) = 2 * Power(2, k)
  <2>1. k \in Nat /\ k + 1 \in Nat /\ ByteBits * l - (k + 1) \in Nat /\ (k + 1) + (ByteBits * l - (k + 1)) = ByteBits * l
    BY <1>2, <1>5
  <2>2. \A i, j \in Nat : Power(2, i) <= Power(2, i + j)
    BY <1>1, PowerGrows
  <2>3. \A i \in Nat : Power(2, i) \in Nat /\ Power(2, i + 1) = 2 * Power(2, i)
    BY <1>1, PowerGrows
  <2>4. Power(2, k + 1) <= Power(2, (k + 1) + (ByteBits * l - (k + 1)))
    BY <2>1, <2>2
  <2> QED
    BY <1>5, <2>1, <2>3, <2>4
<1>8. l \in Nat /\ Power(Byte, l) \in Nat /\ 2 * m < Power(Byte, l)
  BY <1>4, <1>5, <1>6, <1>7
<1> QED
  BY <1>8 DEF l, k

\* A two's-complement number by its value without the sign.
LEMMA SignedFacts ==
    ASSUME NEW s \in Seq(Bytes), Len(s) >= 1
    PROVE  /\ Signed(s) \in Int /\ Value(s, Byte) \in Nat /\ Power(Byte, Len(s)) \in Nat
           /\ s[1] \in Nat
           /\ s[1] >= SignBit => Signed(s) = Value(s, Byte) - Power(Byte, Len(s))
           /\ s[1] < SignBit => Signed(s) = Value(s, Byte)
<1>1. Byte \in Nat /\ Byte >= 2 /\ SignBit \in Nat /\ SignBit >= 1 /\ Byte = 2 * SignBit
  BY ByteFacts
<1>2. s \in Seq(0..(Byte - 1)) /\ s[1] \in Nat /\ Len(s) \in Nat
  <2>1. s \in Seq(0..(Byte - 1)) /\ Len(s) \in Nat
    BY DEF Bytes
  <2>2. s[1] \in Bytes
    OBVIOUS
  <2> QED
    BY <1>1, <2>1, <2>2 DEF Bytes
<1>3. Value(s, Byte) \in Nat
  BY <1>1, <1>2, ValueBound
<1>4. Power(Byte, Len(s)) \in Nat
  BY <1>1, <1>2, PowerGrows
<1>5. /\ SignedValue(s, Byte) \in Int
      /\ SignedValue(s, Byte) = Value(s, Byte) - IF s[1] >= SignBit THEN Power(Byte, Len(s)) ELSE 0
  BY <1>1, <1>2, SignedValueFacts
<1>6. s[1] >= SignBit => SignedValue(s, Byte) = Value(s, Byte) - Power(Byte, Len(s))
  BY <1>5
<1>7. s[1] < SignBit => SignedValue(s, Byte) = Value(s, Byte)
  <2> SUFFICES ASSUME s[1] < SignBit PROVE SignedValue(s, Byte) = Value(s, Byte)
    OBVIOUS
  <2>1. ~(s[1] >= SignBit)
    BY <1>1, <1>2
  <2>2. SignedValue(s, Byte) = Value(s, Byte) - 0
    BY <1>5, <2>1
  <2> QED
    BY <1>3, <2>2
<1> QED
  BY <1>2, <1>3, <1>4, <1>5, <1>6, <1>7 DEF Signed

\* A byte in front.
LEMMA InFront ==
    ASSUME NEW x \in Bytes, NEW b \in Seq(Bytes), Len(b) >= 1
    PROVE  /\ <<x>> \o b \in Seq(Bytes) /\ Len(<<x>> \o b) = Len(b) + 1
           /\ (<<x>> \o b)[1] = x /\ (<<x>> \o b)[2] = b[1]
           /\ Value(<<x>> \o b, Byte) = x * Power(Byte, Len(b)) + Value(b, Byte)
<1>1. Byte \in Nat /\ Byte >= 2
  BY ByteFacts
<1> QED
  BY <1>1, DigitInFront DEF Bytes

\* A negative number has all the bytes reserved for it.
LEMMA NegativeWidth ==
    ASSUME NEW l \in Nat, NEW m \in Nat, m # 0, 2 * m < Power(Byte, l),
           NEW b, b = BigBytes(Power(Byte, l) - m)
    PROVE  /\ b \in Seq(Bytes) /\ Len(b) = l /\ l >= 1
           /\ Value(b, Byte) = Power(Byte, l) - m
<1> DEFINE p == Power(Byte, l)
           n == p - m
           k == Len(b)
<1>1. Byte \in Nat /\ Byte >= 2 /\ Power(Byte, 0) = 1
  BY ByteFacts, PowerUnfolds
<1>2. \A i \in Nat : Power(Byte, i) \in Nat /\ Power(Byte, i + 1) = Byte * Power(Byte, i)
  BY <1>1, PowerGrows
<1>3. \A i, j \in Nat : Power(Byte, i) <= Power(Byte, i + j)
  BY <1>1, PowerGrows
<1>4. l >= 1
  <2>1. l = 0 => p = 1
    BY <1>1
  <2> QED
    BY <2>1
<1>5. p \in Nat /\ n \in Nat /\ n # 0 /\ n < p /\ 2 * n >= p
  BY <1>2
<1>6. /\ b \in Seq(Bytes) /\ k \in Nat /\ Value(b, Byte) = n /\ n < Power(Byte, k) /\ k >= 1
      /\ Power(Byte, k - 1) <= n
  BY <1>5, BigBytesFacts
<1>7. l - 1 \in Nat /\ k - 1 \in Nat /\ (l - 1) + 1 = l
  BY <1>4, <1>6
<1>8. Power(Byte, l - 1) <= n
  <2>1. p = Byte * Power(Byte, l - 1) /\ Power(Byte, l - 1) \in Nat
    BY <1>2, <1>7
  <2>2. ASSUME NEW q \in Nat PROVE Byte * q >= 2 * q
    BY <1>1
  <2>3. 2 * n >= 2 * Power(Byte, l - 1)
    BY <1>5, <2>1, <2>2
  <2> QED
    BY <1>5, <2>1, <2>3
<1> HIDE DEF k, n, p
<1>9. k - 1 < l
  <2> SUFFICES ASSUME k - 1 >= l PROVE FALSE
    BY <1>6
  <2>1. (k - 1) - l \in Nat /\ l + ((k - 1) - l) = k - 1
    BY <1>6
  <2>2. Power(Byte, l) <= Power(Byte, k - 1)
    BY <1>3, <2>1
  <2>3. Power(Byte, k - 1) \in Nat
    BY <1>2, <1>7
  <2>4. p <= Power(Byte, k - 1)
    BY <2>2 DEF p
  <2>5. n < p /\ Power(Byte, k - 1) <= n /\ n \in Nat /\ p \in Nat
    BY <1>5, <1>6
  <2> QED
    BY ONLY <2>3, <2>4, <2>5
<1>10. l - 1 < k
  <2> SUFFICES ASSUME l - 1 >= k PROVE FALSE
    BY <1>6
  <2>1. (l - 1) - k \in Nat /\ k + ((l - 1) - k) = l - 1
    BY <1>6
  <2>2. Power(Byte, k) <= Power(Byte, l - 1)
    BY <1>3, <1>6, <2>1
  <2>3. Power(Byte, k) \in Nat /\ Power(Byte, l - 1) \in Nat
    BY <1>2, <1>6, <1>7
  <2>4. n < Power(Byte, k) /\ n \in Nat
    BY <1>5, <1>6
  <2> QED
    BY ONLY <1>8, <2>2, <2>3, <2>4
<1> QED
  BY <1>4, <1>6, <1>9, <1>10 DEF k, n, p

\* What is left of a negative number without its first bytes, all of them
\* Byte - 1.
LEMMA WithoutHighest ==
    ASSUME NEW l \in Nat, NEW m \in Nat, NEW b \in Seq(Bytes), Len(b) = l,
           Value(b, Byte) = Power(Byte, l) - m,
           NEW d \in 0..l, \A i \in 1..d : b[i] = Byte - 1, NEW t, t = SubSeq(b, d + 1, l)
    PROVE  Value(t, Byte) = Power(Byte, Len(t)) - m
<1> DEFINE a == SubSeq(b, 0 + 1, d)
<1>1. Byte \in Nat /\ Byte >= 2 /\ d \in Nat /\ d <= l /\ 0 \in Nat /\ 0 <= d /\ l <= Len(b)
  BY ByteFacts
<1>2. a \in Seq(Bytes) /\ Len(a) = d /\ \A i \in 1..d : a[i] = b[i]
  <2>1. d <= Len(b) /\ d - 0 = d
    BY <1>1
  <2> HIDE DEF Bytes, a
  <2>2. a \in Seq(Bytes) /\ Len(a) = d - 0 /\ \A i \in 1..(d - 0) : a[i] = b[0 + i]
    BY <1>1, <2>1, PartFacts DEF a
  <2>3. \A i \in 1..d : 0 + i = i
    BY <1>1
  <2> QED
    BY <2>1, <2>2, <2>3
<1>3. /\ t \in Seq(Bytes) /\ Len(t) = l - d /\ \A i \in 1..(l - d) : t[i] = b[d + i]
  <2> HIDE DEF Bytes
  <2> QED
    BY <1>1, PartFacts
<1> HIDE DEF a
<1>4. b = a \o t
  <2>1. /\ a \o t \in Seq(Bytes) /\ Len(a \o t) = Len(a) + Len(t)
        /\ \A i \in 1..Len(a) : (a \o t)[i] = a[i]
        /\ \A i \in 1..Len(t) : (a \o t)[Len(a) + i] = t[i]
    BY <1>2, <1>3, ConcatFacts
  <2> DEFINE c == a \o t
  <2> HIDE DEF c
  <2>2. Len(c) = Len(a) + Len(t)
    BY <2>1 DEF c
  <2>6. Len(c) = Len(b)
    BY <1>1, <1>2, <1>3, <2>2
  <2>7. /\ c \in Seq(Bytes) /\ \A i \in 1..Len(a) : c[i] = a[i]
        /\ \A i \in 1..Len(t) : c[Len(a) + i] = t[i]
    BY <2>1 DEF c
  <2>3. /\ c \in Seq(Bytes) /\ Len(c) = Len(b) /\ \A i \in 1..d : c[i] = b[i]
        /\ \A i \in 1..(l - d) : c[d + i] = b[d + i]
    BY <1>1, <1>2, <1>3, <2>6, <2>7
  <2>4. ASSUME NEW i \in 1..Len(b) PROVE c[i] = b[i]
    <3>1. CASE i <= d
      BY <1>1, <2>3, <3>1
    <3>2. CASE i > d
      <4>1. i - d \in 1..(l - d) /\ d + (i - d) = i
        BY <1>1, <3>2
      <4> QED
        BY <2>3, <4>1
    <3> QED
      BY <1>1, <3>1, <3>2
  <2>5. c = b
    BY <2>3, <2>4
  <2> QED
    BY <2>5 DEF c
<1>5. a \in Seq(Int) /\ t \in Seq(Int) /\ Len(t) \in Nat /\ Len(a) \in Nat
  BY <1>2, <1>3, ByteFacts DEF Bytes
<1>6. /\ Value(a \o t, Byte) = Value(a, Byte) * Power(Byte, Len(t)) + Value(t, Byte)
      /\ Value(t, Byte) \in Int
  BY <1>1, <1>5, ValueConcat
<1>7. Value(a, Byte) = Power(Byte, Len(a)) - 1
  <2>1. \A i \in 1..Len(a) : a[i] = Byte - 1
    BY <1>1, <1>2
  <2> QED
    BY <1>1, <1>5, <2>1, ValueOfHighest
<1>8. Power(Byte, l) = Power(Byte, Len(a)) * Power(Byte, Len(t)) /\ Power(Byte, Len(a)) \in Nat
      /\ Power(Byte, Len(t)) \in Nat
  <2>1. l = Len(a) + Len(t)
    BY <1>1, <1>2, <1>3
  <2>2. \A x, y \in Nat : Power(Byte, x + y) = Power(Byte, x) * Power(Byte, y)
    BY <1>1, PowerAdds
  <2>3. \A x \in Nat : Power(Byte, x) \in Nat
    BY <1>1, PowerGrows
  <2>4. Power(Byte, Len(a) + Len(t)) = Power(Byte, Len(a)) * Power(Byte, Len(t))
    BY <1>5, <2>2
  <2> QED
    BY <1>5, <2>1, <2>3, <2>4
<1>9. ASSUME NEW x \in Nat, NEW y \in Nat, NEW z \in Int, (x - 1) * y + z = x * y - m
      PROVE  z = y - m
  <2>1. (x - 1) * y = x * y - y /\ x * y \in Nat
    OBVIOUS
  <2> QED
    BY <1>9, <2>1
<1>10. (Power(Byte, Len(a)) - 1) * Power(Byte, Len(t)) + Value(t, Byte) = Power(Byte, Len(a)) * Power(Byte, Len(t)) - m
  BY <1>4, <1>6, <1>7, <1>8
<1> QED
  BY <1>6, <1>8, <1>9, <1>10

\* twosComplementBytes is minimal and is the number again, for every number.
LEMMA TwosComplementFacts ==
    ASSUME NEW v \in Int
    PROVE  Minimal(twosComplementBytes(v)) /\ Signed(twosComplementBytes(v)) = v
<1> USE DEF Minimal, Redundant
<1>1. Byte \in Nat /\ SignBit \in Nat /\ SignBit >= 2 /\ Byte = 2 * SignBit
  BY ByteFacts
<1>2. 0 \in Bytes /\ Byte - 1 \in Bytes /\ Byte - 1 >= SignBit /\ Byte - 1 # 0
      /\ \A x \in Bytes : x \in Nat /\ (x = Byte - 1 => x >= SignBit)
  BY <1>1 DEF Bytes
<1>3. \A x \in Bytes : <<x>> \in Seq(Bytes) /\ Len(<<x>>) = 1 /\ <<x>>[1] = x
  BY SingleFacts
<1>4. ASSUME NEW x \in Bytes, NEW b \in Seq(Bytes), Len(b) >= 1
      PROVE  /\ <<x>> \o b \in Seq(Bytes) /\ Len(<<x>> \o b) >= 1
             /\ (<<x>> \o b)[1] = x /\ (<<x>> \o b)[2] = b[1]
             /\ x < SignBit => Signed(<<x>> \o b) = x * Power(Byte, Len(b)) + Value(b, Byte)
             /\ x >= SignBit => Signed(<<x>> \o b) = (x - Byte) * Power(Byte, Len(b)) + Value(b, Byte)
  <2> HIDE DEF Bytes
  <2> DEFINE c == <<x>> \o b
             p == Power(Byte, Len(b))
             z == Value(b, Byte)
  <2>1. /\ c \in Seq(Bytes) /\ Len(c) = Len(b) + 1
        /\ c[1] = x /\ c[2] = b[1]
        /\ Value(c, Byte) = x * p + z
    BY <1>4, InFront
  <2>2. Len(b) \in Nat /\ p \in Nat /\ z \in Nat
    BY <1>4, SignedFacts
  <2>3. Power(Byte, Len(b) + 1) = Byte * p
    BY <1>1, <2>2, PowerUnfolds
  <2> HIDE DEF c, p, z
  <2>4. Len(c) >= 1
    BY <2>1, <2>2
  <2>5. /\ c[1] >= SignBit => Signed(c) = Value(c, Byte) - Power(Byte, Len(c))
        /\ c[1] < SignBit => Signed(c) = Value(c, Byte)
    BY <2>1, <2>4, SignedFacts
  <2>6. x \in Nat
    BY <1>2
  <2>7. (x * p + z) - Byte * p = (x - Byte) * p + z
    BY <1>1, <2>2, <2>6
  <2>8. /\ x < SignBit => Signed(c) = x * p + z
        /\ x >= SignBit => Signed(c) = (x - Byte) * p + z
    BY <2>1, <2>3, <2>5, <2>7
  <2> QED
    BY <2>1, <2>4, <2>8 DEF c, p, z
<1>5. CASE v >= 0
  <2> DEFINE b == BigBytes(v)
  <2>1. v \in Nat
    BY <1>5
  <2>2. /\ b \in Seq(Bytes) /\ Len(b) \in Nat /\ Value(b, Byte) = v
        /\ v = 0 => b = <<>>
        /\ v # 0 => Len(b) >= 1 /\ b[1] # 0
    BY <2>1, BigBytesFacts
  <2>3. twosComplementBytes(v) = IF b = <<>> THEN <<0>> ELSE IF b[1] >= SignBit THEN <<0>> \o b ELSE b
    BY <1>5 DEF twosComplementBytes
  <2> HIDE DEF b
  <2>4. CASE b = <<>>
    <3>1. v = 0
      BY <2>2, <2>4
    <3> DEFINE s == <<0>>
    <3>2. s \in Seq(Bytes) /\ Len(s) = 1 /\ s[1] = 0
      BY <1>2, <1>3
    <3>3. Value(s, Byte) = 0
      BY <1>1, ValueOfDigit
    <3>4. twosComplementBytes(v) = s
      BY <2>3, <2>4
    <3> HIDE DEF s
    <3>5. Signed(s) = Value(s, Byte)
      BY <1>1, <3>2, SignedFacts
    <3>6. Minimal(s)
      BY <3>2
    <3> HIDE DEF Minimal
    <3> QED
      BY <3>1, <3>3, <3>4, <3>5, <3>6
  <2>5. CASE b # <<>>
    <3>1. Len(b) >= 1 /\ b[1] # 0 /\ b[1] \in Bytes
      BY <2>2, <2>5
    <3>2. CASE b[1] >= SignBit
      <4> DEFINE r == <<0>> \o b
                 p == Power(Byte, Len(b))
      <4>1. /\ r \in Seq(Bytes) /\ Len(r) >= 1 /\ r[1] = 0 /\ r[2] = b[1]
            /\ 0 < SignBit => Signed(r) = 0 * p + Value(b, Byte)
        BY <1>2, <1>4, <2>2, <3>1
      <4>2. p \in Nat
        BY <2>2, <3>1, SignedFacts
      <4>3. twosComplementBytes(v) = r
        BY <2>3, <2>5, <3>2
      <4> HIDE DEF r, p
      <4>4. Minimal(r)
        BY <1>1, <1>2, <3>1, <3>2, <4>1
      <4>5. Signed(r) = v
        BY <1>1, <2>1, <2>2, <4>1, <4>2
      <4> HIDE DEF Minimal
      <4> QED
        BY <4>3, <4>4, <4>5
    <3>3. CASE ~(b[1] >= SignBit)
      <4>1. twosComplementBytes(v) = b
        BY <2>3, <2>5, <3>3
      <4>2. b[1] # Byte - 1 /\ b[1] < SignBit
        BY <1>1, <1>2, <3>1, <3>3
      <4>3. Minimal(b)
        BY <2>2, <3>1, <4>2
      <4>4. Signed(b) = v
        BY <2>2, <3>1, <4>2, SignedFacts
      <4> HIDE DEF Minimal
      <4> QED
        BY <4>1, <4>3, <4>4
    <3> QED
      BY <3>2, <3>3
  <2> QED
    BY <2>4, <2>5
<1>6. CASE v < 0
  <2> DEFINE length == (BitLen(-v) + ByteBits) \div ByteBits
             b == BigBytes(Power(Byte, length) + v)
             drop == CHOOSE d \in 0..(Len(b) - 1) :
                        /\ \A i \in 1..d : Redundant(b, i)
                        /\ d = Len(b) - 1 \/ ~Redundant(b, d + 1)
             t == SubSeq(b, drop + 1, Len(b))
  <2>1. -v \in Nat /\ -v # 0
    BY <1>6
  <2>2. length \in Nat /\ Power(Byte, length) \in Nat /\ 2 * (-v) < Power(Byte, length)
    BY <2>1, RoomForSign
  <2>3. twosComplementBytes(v) = IF t[1] < SignBit THEN <<Byte - 1>> \o t ELSE t
    <3>1. ~(v >= 0)
      BY <1>6
    <3> HIDE DEF Minimal, Redundant
    <3> QED
      BY <3>1, Zenon DEF twosComplementBytes
  <2> HIDE DEF length
  <2>4. Power(Byte, length) + v = Power(Byte, length) - (-v)
    BY <2>2
  <2>5. /\ b \in Seq(Bytes) /\ Len(b) = length /\ length >= 1
        /\ Value(b, Byte) = Power(Byte, length) - (-v)
    BY <2>1, <2>2, <2>4, NegativeWidth
  <2> HIDE DEF b
  <2>6. \E d \in 0..(Len(b) - 1) : /\ \A i \in 1..d : Redundant(b, i)
                                   /\ d = Len(b) - 1 \/ ~Redundant(b, d + 1)
    <3> DEFINE Z == {d \in Nat : d <= Len(b) - 1 /\ (d = Len(b) - 1 \/ ~Redundant(b, d + 1))}
    <3> HIDE DEF Redundant
    <3>1. Len(b) - 1 \in Nat /\ Len(b) - 1 <= Len(b) - 1
      BY <2>5
    <3>2. Len(b) - 1 \in Z /\ Z \subseteq Nat /\ Z # {}
      BY <3>1, Zenon
    <3>3. PICK d \in Z : \A m \in Z : d <= m
      <4> HIDE DEF Z
      <4> QED
        BY <3>2, LeastNumber
    <3>4. ASSUME NEW i \in 1..d PROVE Redundant(b, i)
      <4>1. i - 1 \in Nat /\ i - 1 < d /\ i - 1 <= Len(b) - 1 /\ i - 1 # Len(b) - 1 /\ (i - 1) + 1 = i
        BY <2>5, <3>3
      <4>2. i - 1 \notin Z
        BY <3>3, <4>1
      <4> QED
        BY <4>1, <4>2
    <3>5. d \in 0..(Len(b) - 1)
      BY <2>5, <3>3
    <3> QED
      BY <3>3, <3>4, <3>5
  <2>7. /\ drop \in 0..(Len(b) - 1) /\ (drop = Len(b) - 1 \/ ~Redundant(b, drop + 1))
        /\ \A i \in 1..drop : Redundant(b, i)
    <3> HIDE DEF Redundant
    <3> QED
      BY <2>6
  <2> HIDE DEF drop
  <2>8. drop \in Nat /\ Len(b) \in Nat /\ drop <= Len(b) /\ Len(b) <= Len(b) /\ Len(b) - drop >= 1
        /\ drop \in 0..length
    BY <2>2, <2>5, <2>7
  <2>9. /\ t \in Seq(Bytes) /\ Len(t) = Len(b) - drop
        /\ \A i \in 1..(Len(b) - drop) : t[i] = b[drop + i]
    <3> HIDE DEF Bytes
    <3> QED
      BY <2>5, <2>8, PartFacts
  <2>14. Value(t, Byte) = Power(Byte, Len(t)) - (-v)
    <3>1. \A i \in 1..drop : b[i] = Byte - 1
      BY <2>7
    <3>2. t = SubSeq(b, drop + 1, length)
      BY <2>5
    <3> HIDE DEF t
    <3> DEFINE m == -v
    <3>3. m \in Nat /\ Value(b, Byte) = Power(Byte, length) - m
      BY <2>1, <2>5
    <3> HIDE DEF m, Bytes
    <3>4. b \in Seq(Bytes) /\ Len(b) = length /\ length \in Nat /\ drop \in 0..length
      BY <2>2, <2>5, <2>8
    <3>5. Value(t, Byte) = Power(Byte, Len(t)) - m
      BY <3>1, <3>2, <3>3, <3>4, WithoutHighest
    <3> QED
      BY <3>5 DEF m
  <2> HIDE DEF t
  <2>10. Len(t) \in Nat /\ Len(t) >= 1 /\ t[1] \in Bytes
    BY <2>8, <2>9
  <2>15. Power(Byte, Len(t)) \in Nat /\ Value(t, Byte) \in Nat
    BY <2>9, <2>10, SignedFacts
  <2>11. Len(t) > 1 => ~Redundant(t, 1)
    <3> SUFFICES ASSUME Len(t) > 1 PROVE ~Redundant(t, 1)
      OBVIOUS
    <3>1. drop # Len(b) - 1 /\ 1 \in 1..(Len(b) - drop) /\ 2 \in 1..(Len(b) - drop) /\ (drop + 1) + 1 = drop + 2
      BY <2>8, <2>9
    <3>2. t[1] = b[drop + 1] /\ t[2] = b[(drop + 1) + 1]
      BY <2>9, <3>1
    <3>3. 1 + 1 = 2
      OBVIOUS
    <3> QED
      BY <2>7, <3>1, <3>2, <3>3
  <2>12. CASE t[1] < SignBit
    <3> DEFINE r == <<Byte - 1>> \o t
    <3>1. /\ r \in Seq(Bytes) /\ Len(r) >= 1 /\ r[1] = Byte - 1 /\ r[2] = t[1]
          /\ Byte - 1 >= SignBit => Signed(r) = ((Byte - 1) - Byte) * Power(Byte, Len(t)) + Value(t, Byte)
      BY <1>2, <1>4, <2>9, <2>10
    <3>2. twosComplementBytes(v) = r
      BY <2>3, <2>12
    <3> HIDE DEF r
    <3>3. Minimal(r)
      BY <1>1, <1>2, <2>10, <2>12, <3>1
    <3> HIDE DEF Minimal
    <3>4. ((Byte - 1) - Byte) * Power(Byte, Len(t)) = -Power(Byte, Len(t))
      BY <1>1, <2>15
    <3>5. Signed(r) = v
      BY <1>2, <2>14, <2>15, <3>1, <3>4
    <3> QED
      BY <3>2, <3>3, <3>5
  <2>13. CASE ~(t[1] < SignBit)
    <3>1. t[1] # 0 /\ twosComplementBytes(v) = t
      BY <1>1, <2>3, <2>10, <2>13
    <3>2. Minimal(t)
      BY <2>9, <2>10, <2>11, <3>1
    <3> HIDE DEF Minimal
    <3>3. t[1] >= SignBit
      BY <1>1, <1>2, <2>10, <2>13
    <3>4. Signed(t) = Value(t, Byte) - Power(Byte, Len(t))
      BY <2>9, <2>10, <3>3, SignedFacts
    <3>5. Signed(t) = v
      BY <2>14, <2>15, <3>4
    <3> QED
      BY <3>1, <3>2, <3>5
  <2> QED
    BY <2>12, <2>13
<1> QED
  BY <1>5, <1>6

-----------------------------------------------------------------------------
(* One value                                                               *)

\* A number below another is an integer.
LEMMA BelowFacts == \A n \in Nat : Below(n) \subseteq Nat /\ \A k \in Below(n) : k < n
BY DEF Below

\* What a value of each type has.
HasFields(kind, v) ==
    /\ v.type \in Types \cup {"nil"}
    /\ v = Nil <=> v.type = "nil"
    /\ v.type = "bool" => v.b \in BOOLEAN
    /\ v.type = "int" => v.n \in Int64
    /\ v.type = "uint" => v.n \in Below(Power(Byte, 8))
    /\ v.type = "float" => v.tenths \in Float64s
    /\ v.type = "numeral" => v.n \in Int
    /\ v.type = "decimal" => v.unscaled \in Int /\ v.scale \in Int
    /\ v.type \in {"text", "blob"} => v.s \in Seq(Bytes)
    /\ v.type = "uuid" => v.s \in [1..16 -> Bytes]
    /\ v.type = "instant" => /\ kind = "timestamp" /\ v.sec \in Int64
                             /\ v.nsec \in Below(Lesser(Billion, Power(Byte, 4)))
    /\ v.type = "calendar" => /\ kind # "timestamp"
                              /\ v.year \in Int /\ v.month \in 1..12 /\ v.day \in 1..31
                              /\ v.secs \in Below(Day) /\ v.nsec \in Below(Billion)

\* A value is what its fields say.
Determined(v) ==
    /\ v.type = "bool" => v = [type |-> "bool", b |-> v.b]
    /\ v.type = "int" => v = [type |-> "int", n |-> v.n]
    /\ v.type = "float" => v = [type |-> "float", tenths |-> v.tenths]
    /\ v.type = "decimal" => v = [type |-> "decimal", unscaled |-> v.unscaled, scale |-> v.scale]
    /\ v.type = "text" => v = [type |-> "text", s |-> v.s]
    /\ v.type = "uuid" => v = [type |-> "uuid", s |-> v.s]
    /\ v.type = "instant" => v = [type |-> "instant", sec |-> v.sec, nsec |-> v.nsec]
    /\ v.type = "calendar" => v = Calendar(v, v)

\* A value the user passes is one of them.
LEMMA UserValueFacts ==
    ASSUME NEW kind, NEW v \in UserValues(kind)
    PROVE  HasFields(kind, v) /\ Determined(v)
<1> DEFINE V1 == [type : {"bool"}, b : BOOLEAN]
           V2 == [type : {"int"}, n : Int64]
           V3 == [type : {"uint"}, n : Below(Power(Byte, 8))]
           V4 == [type : {"float"}, tenths : Float64s]
           V5 == [type : {"numeral"}, n : Int]
           V6 == [type : {"decimal"}, unscaled : Int, scale : Int]
           V7 == [type : {"text", "blob"}, s : Seq(Bytes)]
           V8 == [type : {"uuid"}, s : [1..16 -> Bytes]]
           V9 == [type : {"instant"}, sec : Int64, nsec : Below(Lesser(Billion, Power(Byte, 4)))]
           V10 == [type : {"calendar"}, year : Int, month : 1..12, day : 1..31,
                   secs : Below(Day), nsec : Below(Billion)]
<1>1. UserValues(kind) = {Nil} \cup V1 \cup V2 \cup V3 \cup V4 \cup V5 \cup V6 \cup V7 \cup V8
                           \cup IF kind = "timestamp" THEN V9 ELSE V10
  BY DEF UserValues
<1> HIDE DEF V1, V2, V3, V4, V5, V6, V7, V8, V9, V10
<1>2. \/ v = Nil \/ v \in V1 \/ v \in V2 \/ v \in V3 \/ v \in V4 \/ v \in V5
      \/ v \in V6 \/ v \in V7 \/ v \in V8
      \/ kind = "timestamp" /\ v \in V9
      \/ kind # "timestamp" /\ v \in V10
  BY <1>1
<1>3. v = Nil => HasFields(kind, v) /\ Determined(v)
  BY DEF HasFields, Determined, Types, Nil, Calendar
<1>4. v \in V1 => HasFields(kind, v) /\ Determined(v)
  BY DEF HasFields, Determined, Types, Nil, Calendar, V1
<1>5. v \in V2 => HasFields(kind, v) /\ Determined(v)
  BY DEF HasFields, Determined, Types, Nil, Calendar, V2
<1>6. v \in V3 => HasFields(kind, v) /\ Determined(v)
  BY DEF HasFields, Determined, Types, Nil, Calendar, V3
<1>7. v \in V4 => HasFields(kind, v) /\ Determined(v)
  BY DEF HasFields, Determined, Types, Nil, Calendar, V4
<1>8. v \in V5 => HasFields(kind, v) /\ Determined(v)
  BY DEF HasFields, Determined, Types, Nil, Calendar, V5
<1>9. v \in V6 => HasFields(kind, v) /\ Determined(v)
  BY DEF HasFields, Determined, Types, Nil, Calendar, V6
<1>10. v \in V7 => HasFields(kind, v) /\ Determined(v)
  BY DEF HasFields, Determined, Types, Nil, Calendar, V7
<1>11. v \in V8 => HasFields(kind, v) /\ Determined(v)
  BY DEF HasFields, Determined, Types, Nil, Calendar, V8
<1>12. kind = "timestamp" /\ v \in V9 => HasFields(kind, v) /\ Determined(v)
  BY DEF HasFields, Determined, Types, Nil, Calendar, V9
<1>13. kind # "timestamp" /\ v \in V10 => HasFields(kind, v) /\ Determined(v)
  BY DEF HasFields, Determined, Types, Nil, Calendar, V10
<1> QED
  BY <1>2, <1>3, <1>4, <1>5, <1>6, <1>7, <1>8, <1>9, <1>10, <1>11, <1>12, <1>13

\* The numbers among them are integers.
LEMMA NumberFacts ==
    ASSUME NEW kind, NEW v \in UserValues(kind)
    PROVE  /\ v.type \in {"int", "uint", "numeral"} => v.n \in Int
           /\ v.type = "float" => v.tenths \in Int
           /\ v.type = "decimal" => v.unscaled \in Int /\ v.scale \in Int
<1>1. Byte \in Nat /\ Byte >= 2 /\ 8 \in Nat
  BY ByteFacts
<1>2. Power(Byte, 8) \in Nat
  BY <1>1, PowerGrows
<1>3. Int64 \subseteq Int /\ Below(Power(Byte, 8)) \subseteq Int
  BY <1>2, BelowFacts DEF Int64
<1>4. HasFields(kind, v)
  BY UserValueFacts
<1>5. v.type = "int" => v.n \in Int64
  BY <1>4 DEF HasFields
<1>6. v.type = "uint" => v.n \in Below(Power(Byte, 8))
  BY <1>4 DEF HasFields
<1>7. v.type = "numeral" => v.n \in Int
  BY <1>4 DEF HasFields
<1>8. v.type = "float" => v.tenths \in Int
  BY <1>4, FloatsAssumption DEF HasFields
<1>9. v.type = "decimal" => v.unscaled \in Int /\ v.scale \in Int
  BY <1>4 DEF HasFields
<1> HIDE DEF Below
<1> QED
  BY <1>3, <1>5, <1>6, <1>7, <1>8, <1>9

\* The numbers of a time are in their ranges.
LEMMA TimeValueFacts ==
    ASSUME NEW kind, NEW v \in UserValues(kind)
    PROVE  /\ v.type = "calendar" => /\ v.year \in Int /\ v.month \in 1..12 /\ v.day \in 1..31
                                     /\ IsClock(v.secs, v.nsec)
           /\ v.type = "instant" => /\ v.sec \in Int /\ Fits(v.sec, 8)
                                    /\ v.nsec \in Nat /\ v.nsec < Power(Byte, 4)
<1>1. HasFields(kind, v)
  BY UserValueFacts
<1>2. Byte \in Nat /\ Byte >= 2 /\ 8 \in Nat /\ 4 \in Nat
  BY ByteFacts
<1>3. Power(Byte, 8) \in Nat /\ Power(Byte, 4) \in Nat
  BY <1>2, PowerGrows
<1>4. Billion \in Nat /\ Day \in Nat
  BY DEF Billion, Day
<1>5. ASSUME v.type = "calendar" PROVE IsClock(v.secs, v.nsec)
  <2>1. v.secs \in Below(Day) /\ v.nsec \in Below(Billion)
    BY <1>1, <1>5 DEF HasFields
  <2> QED
    BY <1>4, <2>1, BelowFacts DEF IsClock
<1>6. ASSUME v.type = "instant" PROVE v.nsec \in Nat /\ v.nsec < Power(Byte, 4)
  <2>1. v.nsec \in Below(Lesser(Billion, Power(Byte, 4)))
    BY <1>1, <1>6 DEF HasFields
  <2>2. Lesser(Billion, Power(Byte, 4)) \in Nat /\ Lesser(Billion, Power(Byte, 4)) <= Power(Byte, 4)
    BY <1>3, <1>4 DEF Lesser
  <2>3. v.nsec \in Nat /\ v.nsec < Lesser(Billion, Power(Byte, 4))
    BY <2>1, <2>2, BelowFacts
  <2> QED
    BY <1>3, <2>2, <2>3
<1>7. ASSUME v.type = "instant" PROVE v.sec \in Int /\ Fits(v.sec, 8)
  <2>1. v.sec \in Int64
    BY <1>1, <1>7 DEF HasFields
  <2>2. Power(Byte, 8) \div 2 \in Int
    BY <1>3
  <2> QED
    BY <2>1, <2>2 DEF Fits, Int64
<1>8. v.type = "calendar" => v.year \in Int /\ v.month \in 1..12 /\ v.day \in 1..31
  BY <1>1 DEF HasFields
<1> QED
  BY <1>5, <1>6, <1>7, <1>8

\* The nearest of some numbers is one of them, and a number of theirs is the
\* nearest to itself.
LEMMA NearestFacts ==
    ASSUME NEW S \in SUBSET Int, S # {}, NEW t \in Int
    PROVE  Nearest(S, t) \in S /\ (t \in S => Nearest(S, t) = t)
<1>1. \A s \in Int : Distance(s, t) \in Nat /\ (Distance(s, t) <= 0 => s = t) /\ Distance(t, t) = 0
  BY DEF Distance
<1> DEFINE D == {Distance(s, t) : s \in S}
<1>2. D \subseteq Nat /\ D # {}
  BY <1>1
<1>3. PICK d \in D : \A m \in D : d <= m
  <2> HIDE DEF D
  <2> QED
    BY <1>2, LeastNumber
<1>4. \E s \in S : \A r \in S : Distance(s, t) <= Distance(r, t)
  BY <1>3
<1>5. Nearest(S, t) \in S /\ \A r \in S : Distance(Nearest(S, t), t) <= Distance(r, t)
  BY <1>4 DEF Nearest
<1> QED
  BY <1>1, <1>5

\* A float that is written is read again: of a FLOAT column the nearest
\* float32, of a DOUBLE column the number itself.
LEMMA FloatFacts ==
    ASSUME NEW kind \in {"float", "double"}, NEW f \in Float64s
    PROVE  /\ floatBytes(kind, f) \in Seq(Bytes) /\ Len(floatBytes(kind, f)) \in {4, 8}
           /\ float32(f) \in Float32s /\ (f \in Float32s => float32(f) = f)
           /\ floatOf(floatBytes(kind, f)) = IF kind = "float" THEN float32(f) ELSE f
<1>1. /\ Float32s # {} /\ Float32s \in SUBSET Int /\ Float32s \subseteq Float64s /\ f \in Int
      /\ \A s, t \in Float64s : Float64bits[s] = Float64bits[t] => s = t
      /\ \A s, t \in Float32s : Float32bits[s] = Float32bits[t] => s = t
  BY FloatsAssumption
<1>2. float32(f) \in Float32s /\ (f \in Float32s => float32(f) = f)
  BY <1>1, NearestFacts DEF float32
<1>3. ASSUME NEW n \in Nat, NEW s \in [1..n -> Bytes] PROVE s \in Seq(Bytes) /\ Len(s) = n
  OBVIOUS
<1>4. \A s \in Float32s : /\ Float32bits[s] \in Seq(Bytes) /\ Len(Float32bits[s]) = 4
                          /\ floatOf(Float32bits[s]) = s
  <2> SUFFICES ASSUME NEW s \in Float32s
               PROVE  /\ Float32bits[s] \in Seq(Bytes) /\ Len(Float32bits[s]) = 4
                      /\ floatOf(Float32bits[s]) = s
    OBVIOUS
  <2>1. Float32bits[s] \in [1..4 -> Bytes]
    BY FloatsAssumption
  <2>2. Float32bits[s] \in Seq(Bytes) /\ Len(Float32bits[s]) = 4
    BY <1>3, <2>1
  <2>3. (CHOOSE t \in Float32s : Float32bits[t] = Float32bits[s]) = s
    BY <1>1
  <2> QED
    BY <2>2, <2>3, Zenon DEF floatOf
<1>5. \A s \in Float64s : /\ Float64bits[s] \in Seq(Bytes) /\ Len(Float64bits[s]) = 8
                          /\ floatOf(Float64bits[s]) = s
  <2> SUFFICES ASSUME NEW s \in Float64s
               PROVE  /\ Float64bits[s] \in Seq(Bytes) /\ Len(Float64bits[s]) = 8
                      /\ floatOf(Float64bits[s]) = s
    OBVIOUS
  <2>1. Float64bits[s] \in [1..8 -> Bytes]
    BY FloatsAssumption
  <2>2. Float64bits[s] \in Seq(Bytes) /\ Len(Float64bits[s]) = 8
    BY <1>3, <2>1
  <2>3. (CHOOSE t \in Float64s : Float64bits[t] = Float64bits[s]) = s
    BY <1>1
  <2>4. Len(Float64bits[s]) # 4
    BY <2>2
  <2> QED
    BY <2>2, <2>3, <2>4, Zenon DEF floatOf
<1> DEFINE b == floatBytes(kind, f)
<1>6. CASE kind = "float" \/ float32(f) = f
  <2>1. b = Float32bits[float32(f)]
    BY <1>6 DEF floatBytes
  <2> HIDE DEF b
  <2>2. b \in Seq(Bytes) /\ Len(b) = 4 /\ floatOf(b) = float32(f)
    BY <1>2, <1>4, <2>1
  <2>3. floatOf(b) = IF kind = "float" THEN float32(f) ELSE f
    BY <1>6, <2>2
  <2> QED
    BY <1>2, <2>2, <2>3 DEF b
<1>7. CASE ~(kind = "float" \/ float32(f) = f)
  <2>1. b = Float64bits[f]
    BY <1>7 DEF floatBytes
  <2> HIDE DEF b
  <2>2. b \in Seq(Bytes) /\ Len(b) = 8 /\ floatOf(b) = f
    BY <1>5, <2>1
  <2>3. floatOf(b) = IF kind = "float" THEN float32(f) ELSE f
    BY <1>7, <2>2
  <2> QED
    BY <1>2, <2>2, <2>3 DEF b
<1> QED
  BY <1>6, <1>7

\* The float64 of a number is that number, if there is one.
LEMMA ToFloat64Facts ==
    ASSUME NEW kind, NEW v \in UserValues(kind), v.type \in {"int", "float"}
    PROVE  /\ toFloat64(v) \in Float64s
           /\ v.type = "float" => toFloat64(v) = v.tenths
           /\ v.type = "int" /\ 10 * v.n \in Float64s => toFloat64(v) = 10 * v.n
<1>1. Float64s # {} /\ Float64s \in SUBSET Int
  BY FloatsAssumption
<1>2. v.type = "float" => v.tenths \in Float64s
  BY UserValueFacts DEF HasFields
<1>3. v.type = "int" => 10 * v.n \in Int
  BY NumberFacts
<1>4. v.type = "int" => Nearest(Float64s, 10 * v.n) \in Float64s
                        /\ (10 * v.n \in Float64s => Nearest(Float64s, 10 * v.n) = 10 * v.n)
  BY <1>1, <1>3, NearestFacts
<1> QED
  BY <1>2, <1>4 DEF toFloat64

\* What each kind of column makes of a value.
LEMMA EncodingOfKind ==
    ASSUME NEW kind \in Kinds, NEW v, v # Nil, NEW e, e = appendBinaryTupleValue(kind, v), e.ok
    PROVE  /\ v.type \in Accepted(kind)
           /\ kind = "null" => e = Ok(<<>>)
           /\ kind = "boolean" => e = Ok(IF toBool(v) THEN <<1>> ELSE <<0>>)
           /\ kind \in {"int8", "int16", "int32", "int64"} => e = putBinaryTupleInt(kind, toInt64(v))
           /\ kind \in {"float", "double"} => e = Ok(floatBytes(kind, toFloat64(v)))
           /\ kind = "decimal" => e = Ok(LittleEndian(toDecimal(v).scale, 2)
                                           \o twosComplementBytes(toDecimal(v).unscaled))
           /\ kind = "timestamp" => e = Ok(LittleEndian(v.sec, 8)
                                             \o IF v.nsec # 0 THEN LittleEndian(v.nsec, 4) ELSE <<>>)
           /\ kind \in {"date", "datetime"} => DateInRange(v)
           /\ kind = "date" => e = Ok(ToBytes(encodeDate(v)))
           /\ kind = "time" => e = Ok(ToBytes(encodeTime(v)))
           /\ kind = "datetime" => e = Ok(ToBytes(encodeDate(v) \o encodeTime(v)))
           /\ kind = "uuid" => e = Ok(v.s)
           /\ kind = "string" => e = Ok(MarkedEmpty(stringOf(v)))
           /\ kind = "bytes" => e = Ok(Marked(bytesOf(v)))
<1>1. v.type \in Accepted(kind)
  <2> SUFFICES ASSUME v.type \notin Accepted(kind) PROVE FALSE
    OBVIOUS
  <2>1. e = Error
    BY Zenon DEF appendBinaryTupleValue
  <2> QED
    BY <2>1 DEF Error
<1>2. ~(v.type \notin Accepted(kind))
  BY <1>1
<1>3. CASE kind = "null"
  BY <1>1, <1>2, <1>3, Zenon DEF appendBinaryTupleValue
<1>4. CASE kind = "boolean"
  BY <1>1, <1>2, <1>4, Zenon DEF appendBinaryTupleValue
<1>5. CASE kind \in {"int8", "int16", "int32", "int64"}
  BY <1>1, <1>2, <1>5, Zenon DEF appendBinaryTupleValue
<1>6. CASE kind \in {"float", "double"}
  BY <1>1, <1>2, <1>6, Zenon DEF appendBinaryTupleValue
<1>7. CASE kind = "decimal"
  BY <1>1, <1>2, <1>7, Zenon DEF appendBinaryTupleValue
<1>8. CASE kind = "timestamp"
  BY <1>1, <1>2, <1>8, Zenon DEF appendBinaryTupleValue
<1>9. CASE kind = "time"
  BY <1>1, <1>2, <1>9, Zenon DEF appendBinaryTupleValue
<1>10. CASE kind \in {"date", "datetime"}
  <2>1. DateInRange(v)
    <3> SUFFICES ASSUME ~DateInRange(v) PROVE FALSE
      OBVIOUS
    <3>1. e = Error
      BY <1>2, <1>10, Zenon DEF appendBinaryTupleValue
    <3> QED
      BY <3>1 DEF Error
  <2> QED
    BY <1>1, <1>2, <1>10, <2>1, Zenon DEF appendBinaryTupleValue
<1>11. CASE kind = "uuid"
  BY <1>1, <1>2, <1>11, Zenon DEF appendBinaryTupleValue
<1>12. CASE kind = "string"
  BY <1>1, <1>2, <1>12, Zenon DEF appendBinaryTupleValue
<1>13. CASE kind = "bytes"
  BY <1>1, <1>2, <1>13, Zenon DEF appendBinaryTupleValue
<1> QED
  BY <1>3, <1>4, <1>5, <1>6, <1>7, <1>8, <1>9, <1>10, <1>11, <1>12, <1>13 DEF Kinds

IntKinds == {"int8", "int16", "int32", "int64"}

\* An integer is written in one of the widths of its kind that it fits, and is
\* an error if it fits none.
LEMMA IntFacts ==
    ASSUME NEW kind \in IntKinds, NEW n, NEW e, e = putBinaryTupleInt(kind, n)
    PROVE  /\ e.ok <=> \E i \in DOMAIN Widths(kind) : Fits(n, Widths(kind)[i])
           /\ e.ok => \E w \in {1, 2, 4, 8} : Fits(n, w) /\ e = Ok(LittleEndian(n, w))
<1> DEFINE W == Widths(kind)
           fitting == {i \in DOMAIN W : Fits(n, W[i])}
           first == CHOOSE i \in fitting : \A j \in fitting : i <= j
<1>1. /\ DOMAIN W \in {1..1, 1..2, 1..3}
      /\ \A i \in DOMAIN W : W[i] \in {1, 2, 4, 8}
  BY DEF Widths, IntKinds
<1>2. e = IF fitting = {} THEN Error ELSE Ok(LittleEndian(n, W[first]))
  BY DEF putBinaryTupleInt
<1>3. fitting # {} => first \in fitting
  <2> SUFFICES ASSUME fitting # {} PROVE first \in fitting
    OBVIOUS
  <2>1. fitting \subseteq Nat
    BY <1>1
  <2> HIDE DEF fitting
  <2>2. \E i \in fitting : \A j \in fitting : i <= j
    BY <2>1, LeastNumber
  <2> QED
    BY <2>2
<1> HIDE DEF first
<1>4. e.ok <=> fitting # {}
  BY <1>2 DEF Ok, Error
<1>5. fitting # {} => W[first] \in {1, 2, 4, 8} /\ Fits(n, W[first])
  BY <1>1, <1>3
<1> QED
  BY <1>2, <1>4, <1>5

\* int64(v) is an integer.
LEMMA ToInt64Facts ==
    ASSUME NEW kind, NEW v \in UserValues(kind), v.type \in {"int", "uint", "float"}
    PROVE  toInt64(v) \in Int
<1> DEFINE all == Power(Byte, 8)
<1>1. Byte \in Nat /\ Byte >= 2 /\ 8 \in Nat
  BY ByteFacts
<1>2. all \in Nat /\ all > 0
  BY <1>1, PowerGrows
<1>3. /\ v.type # "float" => v.n \in Int
      /\ v.type = "float" => v.tenths \in Int
  BY NumberFacts
<1> HIDE DEF all
<1>4. all \div 2 \in Int
  BY <1>2
<1>5. ASSUME v.type # "float" PROVE ((v.n + all \div 2) % all) - all \div 2 \in Int
  BY <1>2, <1>3, <1>4, <1>5
<1>6. ASSUME v.type = "float" PROVE Whole(v.tenths) \in Int
  BY <1>3, <1>6 DEF Whole
<1>7. -(all \div 2) \in Int
  BY <1>4
<1> QED
  BY <1>5, <1>6, <1>7 DEF toInt64, all

\* A Decimal is made of integers.
LEMMA ToDecimalFacts ==
    ASSUME NEW kind, NEW v \in UserValues(kind), v.type \in {"decimal", "numeral", "int", "float", "text"}
    PROVE  toDecimal(v).unscaled \in Int /\ toDecimal(v).scale \in Int
<1>1. Scale \in Nat /\ Scale - 1 \in Nat /\ 10 \in Nat /\ 10 >= 2
  BY ColsAssumption
<1>2. Power(10, Scale) \in Nat /\ Power(10, Scale - 1) \in Nat
  BY <1>1, PowerGrows
<1>3. /\ v.type = "decimal" => v.unscaled \in Int /\ v.scale \in Int
      /\ v.type = "numeral" => v.n \in Int
      /\ v.type = "float" => v.tenths \in Int
      /\ v.type = "int" => v.n \in Int
  BY NumberFacts
<1>4. CASE v.type = "decimal"
  BY <1>3, <1>4 DEF toDecimal
<1>5. CASE v.type = "numeral"
  <2>1. v.n * Power(10, Scale) \in Int
    BY <1>2, <1>3, <1>5
  <2> QED
    BY <1>1, <1>5, <2>1 DEF toDecimal
<1>6. CASE v.type = "float"
  <2>1. v.tenths * Power(10, Scale - 1) \in Int
    BY <1>2, <1>3, <1>6
  <2> QED
    BY <1>1, <1>6, <2>1 DEF toDecimal
<1>7. CASE v.type = "int" \/ v.type = "text"
  BY <1>1, <1>3, <1>7 DEF toDecimal
<1> QED
  BY <1>4, <1>5, <1>6, <1>7

\* The bytes of a value: none for nil, some for any other, and a decimal is
\* minimal.
Encoded(kind, v, b) ==
    /\ b \in Seq(Bytes)
    /\ v = Nil => b = <<>>
    /\ v # Nil /\ kind # "null" => Len(b) >= 1
    /\ v # Nil /\ kind = "decimal" => Minimal(SubSeq(b, 3, Len(b)))

\* A string or bytes, marked, are not empty.
LEMMA MarkedFacts ==
    ASSUME NEW s \in Seq(Bytes)
    PROVE  /\ Marked(s) \in Seq(Bytes) /\ Len(Marked(s)) >= 1
           /\ MarkedEmpty(s) \in Seq(Bytes) /\ Len(MarkedEmpty(s)) >= 1
<1>1. SignBit \in Bytes
  BY ByteFacts DEF Bytes
<1>2. <<SignBit>> \in Seq(Bytes) /\ Len(<<SignBit>>) = 1
  BY <1>1, SingleFacts
<1>3. <<SignBit>> \o s \in Seq(Bytes) /\ Len(<<SignBit>> \o s) = Len(<<SignBit>>) + Len(s)
  BY <1>2, ConcatFacts
<1>4. Len(s) \in Nat /\ (s # <<>> => Len(s) >= 1)
  OBVIOUS
<1>5. Len(<<SignBit>> \o s) >= 1
  BY <1>2, <1>3, <1>4
<1>6. Marked(s) \in Seq(Bytes) /\ Len(Marked(s)) >= 1
  BY <1>3, <1>4, <1>5 DEF Marked
<1>7. MarkedEmpty(s) \in Seq(Bytes) /\ Len(MarkedEmpty(s)) >= 1
  <2>1. CASE s = <<>>
    <3>1. MarkedEmpty(s) = <<SignBit>>
      BY <2>1 DEF MarkedEmpty
    <3> QED
      BY <1>2, <3>1
  <2>2. CASE s # <<>>
    BY <1>4, <2>2 DEF MarkedEmpty
  <2> QED
    BY <2>1, <2>2
<1> QED
  BY <1>6, <1>7

\* A decimal: two bytes of scale, then the unscaled value.
LEMMA DecimalBytes ==
    ASSUME NEW scale \in Int, NEW unscaled \in Int, NEW b,
           b = LittleEndian(scale, 2) \o twosComplementBytes(unscaled)
    PROVE  b \in Seq(Bytes) /\ Len(b) >= 1 /\ Minimal(SubSeq(b, 3, Len(b)))
<1> DEFINE h == LittleEndian(scale, 2)
           t == twosComplementBytes(unscaled)
<1>1. 2 \in Nat
  OBVIOUS
<1>2. h \in Seq(Bytes) /\ Len(h) = 2
  BY <1>1, LittleEndianFacts
<1>3. Minimal(t)
  BY TwosComplementFacts
<1> HIDE DEF h, t
<1>4. t \in Seq(Bytes) /\ Len(t) >= 1
  BY <1>3 DEF Minimal
<1>5. /\ h \o t \in Seq(Bytes) /\ Len(h \o t) = Len(h) + Len(t)
  BY <1>2, <1>4, ConcatFacts
<1>6. SubSeq(h \o t, Len(h) + 1, Len(h \o t)) = t
  BY <1>2, <1>4, SuffixFacts
<1>7. b = h \o t
  BY DEF h, t
<1>8. Len(t) \in Nat /\ Len(h) + 1 = 3
  BY <1>2, <1>4
<1>9. Len(b) >= 1
  BY <1>2, <1>4, <1>5, <1>7, <1>8
<1> QED
  BY <1>3, <1>5, <1>6, <1>7, <1>8, <1>9

\* A timestamp: eight bytes and perhaps four.
LEMMA TimestampBytes ==
    ASSUME NEW sec \in Int, NEW nsec \in Int
    PROVE  LET b == LittleEndian(sec, 8) \o IF nsec # 0 THEN LittleEndian(nsec, 4) ELSE <<>>
           IN  b \in Seq(Bytes) /\ Len(b) >= 1
<1> DEFINE h == LittleEndian(sec, 8)
           t == IF nsec # 0 THEN LittleEndian(nsec, 4) ELSE <<>>
<1>1. 8 \in Nat /\ 4 \in Nat
  OBVIOUS
<1>2. h \in Seq(Bytes) /\ Len(h) = 8
  BY <1>1, LittleEndianFacts
<1>3. t \in Seq(Bytes)
  BY <1>1, LittleEndianFacts
<1> HIDE DEF h, t
<1>4. h \o t \in Seq(Bytes) /\ Len(h \o t) = Len(h) + Len(t)
  BY <1>2, <1>3, ConcatFacts
<1>5. Len(t) \in Nat
  BY <1>3
<1>6. Len(h \o t) >= 1
  BY <1>2, <1>4, <1>5
<1> QED
  BY <1>4, <1>6 DEF h, t

\* Dates and times have at least a byte, and are the same bits again.
LEMMA CalendarBytes ==
    ASSUME NEW v, v.year \in Int, v.month \in 1..12, v.day \in 1..31, IsClock(v.secs, v.nsec)
    PROVE  /\ BitString(encodeDate(v), 24) /\ BitString(encodeTime(v), 48)
           /\ Rounded(encodeDate(v)) /\ Rounded(encodeTime(v)) /\ Rounded(encodeDate(v) \o encodeTime(v))
<1> DEFINE d == encodeDate(v)
           t == encodeTime(v)
<1>1. BitString(d, 24) /\ BitString(t, 48)
  BY TimesFacts
<1> HIDE DEF d, t
<1>2. BitString(d \o t, 24 + 48)
  BY <1>1, BitStrings
<1>3. BitString(d \o t, 72)
  BY <1>2
<1>6. 24 \in {24, 32, 40, 48, 56, 64, 72} /\ 48 \in {24, 32, 40, 48, 56, 64, 72}
      /\ 72 \in {24, 32, 40, 48, 56, 64, 72}
  OBVIOUS
<1>4. Rounded(d) /\ Rounded(t)
  BY <1>1, <1>6, TimesAreWhole, Zenon
<1>5. Rounded(d \o t)
  <2> DEFINE c == d \o t
  <2>1. BitString(c, 72)
    BY <1>3
  <2> HIDE DEF c
  <2>2. Rounded(c)
    BY <1>6, <2>1, TimesAreWhole, Zenon
  <2> QED
    BY <2>2 DEF c
<1> QED
  BY <1>1, <1>4, <1>5 DEF d, t

\* The bytes of a success.
LEMMA OkFacts == \A b : Ok(b).ok /\ Ok(b).bytes = b
BY DEF Ok

\* What a value is formatted as.
Formatted(v) ==
    /\ v.type # "text" => Format(v) \in Seq(Bytes) /\ Format(v) # <<>> /\ Format(v)[1] # SignBit
    /\ v.type = "blob" => Format(v) # v.s

\* A value that is not an error becomes bytes, at least one.
LEMMA EncodedBytes ==
    ASSUME NEW kind \in Kinds, NEW v \in UserValues(kind), Formatted(v),
           NEW e, e = appendBinaryTupleValue(kind, v), e.ok
    PROVE  Encoded(kind, v, e.bytes)
<1>1. CASE v = Nil
  <2>1. e = Ok(<<>>)
    BY <1>1 DEF appendBinaryTupleValue
  <2>2. e.bytes = <<>>
    BY <2>1, OkFacts
  <2>3. <<>> \in Seq(Bytes)
    OBVIOUS
  <2> HIDE DEF Minimal
  <2> QED
    BY <1>1, <2>2, <2>3 DEF Encoded
<1>2. CASE v # Nil
  <2> DEFINE b == e.bytes
  <2>1. HasFields(kind, v)
    BY UserValueFacts
  <2>2. v.type \in Accepted(kind)
    BY <1>2, EncodingOfKind
  <2>3. ASSUME b \in Seq(Bytes), kind # "null" => Len(b) >= 1,
               kind = "decimal" => Minimal(SubSeq(b, 3, Len(b)))
        PROVE  Encoded(kind, v, b)
    BY <1>2, <2>3 DEF Encoded
  <2>14. \A x : e = Ok(x) => b = x
    BY OkFacts
  <2> HIDE DEF b
  <2>4. CASE kind = "null"
    <3>1. e = Ok(<<>>)
      BY <1>2, <2>4, EncodingOfKind
    <3>2. b = <<>>
      BY <2>14, <3>1
    <3>3. b \in Seq(Bytes)
      BY <3>2
    <3> QED
      BY <2>3, <2>4, <3>3 DEF b
  <2>5. CASE kind = "boolean"
    <3>1. b = <<1>> \/ b = <<0>>
      <4>1. e = Ok(IF toBool(v) THEN <<1>> ELSE <<0>>)
        BY <1>2, <2>5, EncodingOfKind
      <4> QED
        BY <2>14, <4>1
    <3>2. 0 \in Bytes /\ 1 \in Bytes
      BY ByteFacts DEF Bytes
    <3>3. b \in Seq(Bytes) /\ Len(b) = 1
      BY <3>1, <3>2, SingleFacts
    <3>4. b \in Seq(Bytes) /\ Len(b) >= 1
      BY <3>3
    <3> QED
      BY <2>3, <2>5, <3>4 DEF b
  <2>6. CASE kind \in IntKinds
    <3>1. e = putBinaryTupleInt(kind, toInt64(v))
      BY <1>2, <2>6, EncodingOfKind DEF IntKinds
    <3>2. v.type \in {"int", "uint", "float"}
      BY <2>2, <2>6 DEF Accepted, IntKinds
    <3>3. toInt64(v) \in Int
      BY <3>2, ToInt64Facts
    <3>4. PICK w \in {1, 2, 4, 8} : e = Ok(LittleEndian(toInt64(v), w))
      BY <2>6, <3>1, IntFacts
    <3>5. b = LittleEndian(toInt64(v), w) /\ w \in Nat /\ w >= 1
      BY <2>14, <3>4
    <3>6. b \in Seq(Bytes) /\ Len(b) = w
      BY <3>3, <3>5, LittleEndianFacts
    <3>7. kind \notin {"null", "decimal"}
      BY <2>6 DEF IntKinds
    <3> QED
      BY <2>3, <3>5, <3>6, <3>7 DEF b
  <2>7. CASE kind \in {"float", "double"}
    <3>1. b = floatBytes(kind, toFloat64(v))
      <4>1. e = Ok(floatBytes(kind, toFloat64(v)))
        BY <1>2, <2>7, EncodingOfKind
      <4> QED
        BY <2>14, <4>1
    <3>2. v.type \in {"int", "float"}
      BY <2>2, <2>7 DEF Accepted
    <3>3. toFloat64(v) \in Float64s
      BY <3>2, ToFloat64Facts
    <3>4. b \in Seq(Bytes) /\ Len(b) \in {4, 8}
      BY <2>7, <3>1, <3>3, FloatFacts
    <3>5. Len(b) >= 1 /\ kind \notin {"null", "decimal"}
      <4>1. \A x \in {4, 8} : x >= 1
        OBVIOUS
      <4>2. kind \notin {"null", "decimal"}
        BY <2>7
      <4> QED
        BY <3>4, <4>1, <4>2, Zenon
    <3> QED
      BY <2>3, <3>4, <3>5 DEF b
  <2>8. CASE kind = "decimal"
    <3>1. b = LittleEndian(toDecimal(v).scale, 2) \o twosComplementBytes(toDecimal(v).unscaled)
      <4>1. e = Ok(LittleEndian(toDecimal(v).scale, 2) \o twosComplementBytes(toDecimal(v).unscaled))
        BY <1>2, <2>8, EncodingOfKind
      <4> QED
        BY <2>14, <4>1
    <3>2. v.type \in {"decimal", "numeral", "int", "float", "text"}
      BY <2>2, <2>8 DEF Accepted
    <3>3. toDecimal(v).unscaled \in Int /\ toDecimal(v).scale \in Int
      BY <3>2, ToDecimalFacts
    <3> QED
      BY <2>3, <3>1, <3>3, DecimalBytes DEF b
  <2>9. CASE kind = "timestamp"
    <3>1. b = LittleEndian(v.sec, 8) \o IF v.nsec # 0 THEN LittleEndian(v.nsec, 4) ELSE <<>>
      <4>1. e = Ok(LittleEndian(v.sec, 8) \o IF v.nsec # 0 THEN LittleEndian(v.nsec, 4) ELSE <<>>)
        BY <1>2, <2>9, EncodingOfKind
      <4> QED
        BY <2>14, <4>1
    <3>2. v.type = "instant"
      BY <2>2, <2>9 DEF Accepted
    <3>4. v.sec \in Int /\ v.nsec \in Int
      BY <3>2, TimeValueFacts
    <3> QED
      BY <2>3, <2>9, <3>1, <3>4, TimestampBytes DEF b
  <2>10. CASE kind \in {"date", "time", "datetime"}
    <3>1. \/ b = ToBytes(encodeDate(v)) \/ b = ToBytes(encodeTime(v))
          \/ b = ToBytes(encodeDate(v) \o encodeTime(v))
      <4>1. /\ kind = "date" => e = Ok(ToBytes(encodeDate(v)))
            /\ kind = "time" => e = Ok(ToBytes(encodeTime(v)))
            /\ kind = "datetime" => e = Ok(ToBytes(encodeDate(v) \o encodeTime(v)))
        BY <1>2, EncodingOfKind
      <4> QED
        BY <2>10, <2>14, <4>1
    <3>2. v.type = "calendar"
      BY <2>2, <2>10 DEF Accepted
    <3>4. v.year \in Int /\ v.month \in 1..12 /\ v.day \in 1..31 /\ IsClock(v.secs, v.nsec)
      BY <3>2, TimeValueFacts
    <3> QED
      BY <2>3, <2>10, <3>1, <3>4, CalendarBytes DEF b, Rounded
  <2>11. CASE kind = "uuid"
    <3>1. b = v.s
      <4>1. e = Ok(v.s)
        BY <1>2, <2>11, EncodingOfKind
      <4> QED
        BY <2>14, <4>1
    <3>2. v.type = "uuid"
      BY <2>2, <2>11 DEF Accepted
    <3>3. v.s \in [1..16 -> Bytes]
      BY <2>1, <3>2 DEF HasFields
    <3>4. v.s \in Seq(Bytes) /\ Len(v.s) = 16
      <4>1. ASSUME NEW n \in Nat, NEW s \in [1..n -> Bytes] PROVE s \in Seq(Bytes) /\ Len(s) = n
        OBVIOUS
      <4>2. 16 \in Nat
        OBVIOUS
      <4> QED
        BY <3>3, <4>1, <4>2
    <3>5. b \in Seq(Bytes) /\ Len(b) >= 1
      BY <3>1, <3>4
    <3> QED
      BY <2>3, <2>11, <3>5 DEF b
  <2>12. CASE kind = "string"
    <3>1. b = MarkedEmpty(stringOf(v))
      <4>1. e = Ok(MarkedEmpty(stringOf(v)))
        BY <1>2, <2>12, EncodingOfKind
      <4> QED
        BY <2>14, <4>1
    <3>2. stringOf(v) \in Seq(Bytes)
      BY <2>1 DEF HasFields, stringOf, Formatted
    <3> QED
      BY <2>3, <2>12, <3>1, <3>2, MarkedFacts DEF b
  <2>13. CASE kind = "bytes"
    <3>1. b = Marked(bytesOf(v))
      <4>1. e = Ok(Marked(bytesOf(v)))
        BY <1>2, <2>13, EncodingOfKind
      <4> QED
        BY <2>14, <4>1
    <3>2. v.type \in {"text", "blob", "numeral"}
      BY <2>2, <2>13 DEF Accepted
    <3>3. bytesOf(v) \in Seq(Bytes)
      BY <2>1, <3>2 DEF HasFields, bytesOf, Formatted
    <3> QED
      BY <2>3, <2>13, <3>1, <3>3, MarkedFacts DEF b
  <2> QED
    BY <2>4, <2>5, <2>6, <2>7, <2>8, <2>9, <2>10, <2>11, <2>12, <2>13 DEF Kinds, IntKinds
<1> QED
  BY <1>1, <1>2

-----------------------------------------------------------------------------
(* Integers of every width                                                 *)

\* A wider integer has the range of a narrower one and more.
LEMMA FitsWider ==
    ASSUME NEW n \in Int, NEW w \in {1, 2, 4, 8}, NEW x \in {1, 2, 4, 8}, w <= x, Fits(n, w)
    PROVE  Fits(n, x)
<1>1. Byte \in Nat /\ Byte >= 2 /\ w \in Nat /\ x \in Nat /\ x - w \in Nat /\ w + (x - w) = x
  BY ByteFacts
<1> DEFINE p == Power(Byte, w)
           r == Power(Byte, x)
<1>2. p \in Nat /\ r \in Nat
  BY <1>1, PowerGrows
<1>3. Power(Byte, w) <= Power(Byte, w + (x - w))
  BY <1>1, PowerGrows
<1>4. p <= r
  BY <1>1, <1>3
<1> HIDE DEF p, r
<1>5. p \div 2 <= r \div 2
  BY <1>2, <1>4
<1>6. -(p \div 2) <= n /\ n < p \div 2
  BY DEF Fits, p
<1>7. p \div 2 \in Int /\ r \div 2 \in Int
  BY <1>2
<1>8. -(r \div 2) <= n /\ n < r \div 2
  BY <1>5, <1>6, <1>7
<1> QED
  BY <1>8 DEF Fits, r

\* The widest width of an integer column.
Widest(kind) == CASE kind = "int8" -> 1 [] kind = "int16" -> 2
                  [] kind = "int32" -> 4 [] kind = "int64" -> 8

\* An integer that is written fits the column.
LEMMA FitsColumn ==
    ASSUME NEW kind \in IntKinds, NEW n \in Int, putBinaryTupleInt(kind, n).ok
    PROVE  Fits(n, Widest(kind))
<1>1. PICK i \in DOMAIN Widths(kind) : Fits(n, Widths(kind)[i])
  BY IntFacts
<1>2. Widths(kind)[i] \in {1, 2, 4, 8} /\ Widths(kind)[i] <= Widest(kind) /\ Widest(kind) \in {1, 2, 4, 8}
  BY DEF Widths, Widest, IntKinds
<1> QED
  BY <1>1, <1>2, FitsWider

\* int64(v) is the number itself as long as that is in range.
LEMMA ToInt64InRange ==
    /\ \A v : v.type # "float" /\ v.n \in Int /\ Fits(v.n, 8) => toInt64(v) = v.n
    /\ \A v : /\ v.type = "float" /\ v.tenths \in Int /\ v.tenths % 10 = 0 /\ Fits(v.tenths \div 10, 8)
              => toInt64(v) = v.tenths \div 10
<1> DEFINE all == Power(Byte, 8)
<1>1. Byte \in Nat /\ Byte >= 2 /\ 8 \in Nat
  BY ByteFacts
<1>2. all \in Nat /\ all > 0
  BY <1>1, PowerGrows
<1>3. ASSUME NEW v, v.type # "float", v.n \in Int, Fits(v.n, 8) PROVE toInt64(v) = v.n
  <2>1. -(all \div 2) <= v.n /\ v.n < all \div 2
    BY <1>3 DEF Fits
  <2>2. toInt64(v) = ((v.n + (all \div 2)) % all) - (all \div 2)
    BY <1>3 DEF toInt64
  <2> HIDE DEF all
  <2>3. ASSUME NEW n \in Int, -(all \div 2) <= n, n < all \div 2
        PROVE  ((n + (all \div 2)) % all) - (all \div 2) = n
    <3>1. all \div 2 \in Int /\ 2 * (all \div 2) <= all
      BY <1>2
    <3>2. n + (all \div 2) \in Int /\ 0 <= n + (all \div 2) /\ n + (all \div 2) < all
      BY <1>2, <2>3, <3>1
    <3>3. ASSUME NEW m \in Int, 0 <= m, m < all PROVE m % all = m
      BY <1>2, <3>3
    <3>4. (n + (all \div 2)) % all = n + (all \div 2)
      BY <3>2, <3>3
    <3> QED
      BY <3>1, <3>4
  <2> QED
    BY <1>3, <2>1, <2>2, <2>3
<1>4. ASSUME NEW v, v.type = "float", v.tenths \in Int, v.tenths % 10 = 0, Fits(v.tenths \div 10, 8)
      PROVE  toInt64(v) = v.tenths \div 10
  <2>1. ASSUME NEW t \in Int, t % 10 = 0 PROVE Whole(t) = t \div 10
    BY <2>1 DEF Whole
  <2>2. Whole(v.tenths) = v.tenths \div 10
    BY <1>4, <2>1
  <2> QED
    BY <1>4, <2>2 DEF toInt64
<1> QED
  BY <1>3, <1>4

-----------------------------------------------------------------------------
(* Reading a value again                                                   *)

\* An integer is read again if it fits, and as another if not.
LEMMA IntReadsBack ==
    ASSUME NEW n \in Int, NEW w \in Nat, w >= 1
    PROVE  Signed(Reversed(LittleEndian(n, w))) = n <=> Fits(n, w)
<1>1. Byte \in Nat /\ SignBit \in Nat /\ SignBit >= 1 /\ Byte = 2 * SignBit
  BY ByteFacts
<1> QED
  BY <1>1, SignedDigits DEF Signed, LittleEndian, Fits

\* An unsigned one that fits is.
LEMMA UnsignedReadsBack ==
    ASSUME NEW w \in Nat, NEW n \in Nat, n < Power(Byte, w)
    PROVE  Unsigned(Reversed(LittleEndian(n, w))) = n
<1>1. Byte \in Nat /\ Byte >= 2
  BY ByteFacts
<1> QED
  BY <1>1, DigitsRoundTrip DEF Unsigned, LittleEndian

\* An integer that is kept is written whole, in a width that holds it.
LEMMA IntegerKept ==
    ASSUME NEW kind \in IntKinds, NEW v \in UserValues(kind), v # Nil, ~Dropped(kind, v),
           NEW e, e = appendBinaryTupleValue(kind, v), e.ok,
           NEW n, n = IF v.type = "float" THEN v.tenths \div 10 ELSE v.n
    PROVE  /\ Fits(n, Widest(kind))
           /\ Signed(Reversed(e.bytes)) = n
<1>1. v.type \in {"int", "uint", "float"}
  <2>1. v.type \in Accepted(kind)
    BY EncodingOfKind DEF IntKinds, Kinds
  <2> QED
    BY <2>1 DEF Accepted, IntKinds
<1>2. e = putBinaryTupleInt(kind, toInt64(v))
  BY EncodingOfKind DEF IntKinds, Kinds
<1>3. /\ v.type \in {"int", "uint"} => v.n \in Int
      /\ v.type = "float" => v.tenths \in Int
  BY <1>1, NumberFacts DEF IntKinds, Kinds
<1>4. /\ v.type = "float" => v.tenths % 10 = 0 /\ Fits(v.tenths \div 10, 8)
      /\ v.type = "uint" => Fits(v.n, 8)
  BY DEF Dropped, IntKinds
<1>5. v.type = "int" => Fits(v.n, 8)
  <2> SUFFICES ASSUME v.type = "int" PROVE Fits(v.n, 8)
    OBVIOUS
  <2>1. HasFields(kind, v)
    BY UserValueFacts DEF IntKinds, Kinds
  <2>2. v.n \in Int64
    BY <2>1 DEF HasFields
  <2>3. Byte \in Nat /\ Byte >= 2 /\ 8 \in Nat
    BY ByteFacts
  <2>4. Power(Byte, 8) \in Nat
    BY <2>3, PowerGrows
  <2>5. Power(Byte, 8) \div 2 \in Int
    BY <2>4
  <2> QED
    BY <2>2, <2>5 DEF Fits, Int64
<1>6. n \in Int /\ toInt64(v) = n
  <2>1. CASE v.type = "float"
    BY <1>3, <1>4, <2>1, ToInt64InRange
  <2>2. CASE v.type \in {"int", "uint"}
    BY <1>3, <1>4, <1>5, <2>2, ToInt64InRange
  <2> QED
    BY <1>1, <2>1, <2>2
<1>7. Fits(n, Widest(kind))
  BY <1>2, <1>6, FitsColumn
<1>8. PICK w \in {1, 2, 4, 8} : Fits(n, w) /\ e = Ok(LittleEndian(n, w))
  BY <1>2, <1>6, IntFacts
<1>9. e.bytes = LittleEndian(n, w)
  BY <1>8 DEF Ok
<1>10. Signed(Reversed(LittleEndian(n, w))) = n
  <2>1. w \in Nat /\ w >= 1
    BY <1>8
  <2> QED
    BY <1>6, <1>8, <2>1, IntReadsBack
<1> QED
  BY <1>7, <1>9, <1>10

\* Value v of a column of this kind and of precision p, written as the bytes
\* b, is read as what it means unless it is left out or one of the exceptions.
Differs(kind, p, v) == LeftOut(kind, v) \/ Exceptional(kind, p, v)

ReadsBack(kind, p, v, b) ==
    NextValue(kind, p, FromServer(kind, p, b)) = Meaning(kind, p, v) <=> ~Differs(kind, p, v)

\* Only times are changed by the server.
LEMMA ServerKeeps ==
    \A kind, p, b : kind \notin {"time", "datetime"} \/ b = <<>> => FromServer(kind, p, b) = b
BY Zenon DEF FromServer

\* nil.
LEMMA NilReadsBack ==
    ASSUME NEW kind \in Kinds, NEW p
    PROVE  ReadsBack(kind, p, Nil, <<>>)
<1>1. FromServer(kind, p, <<>>) = <<>>
  BY ServerKeeps
<1>2. Unmarked(<<>>) = <<>>
  BY DEF Unmarked
<1>3. GetValue(kind, p, <<>>) = Nil
  BY <1>2, Zenon DEF GetValue
<1>4. NextValue(kind, p, <<>>) = IF kind \in {"decimal", "timestamp", "datetime", "uuid"} THEN Panic ELSE Nil
  BY <1>3, Zenon DEF NextValue
<1>5. Meaning(kind, p, Nil) = Nil
  BY DEF Meaning
<1>6. Differs(kind, p, Nil) <=> kind \in {"decimal", "timestamp", "datetime", "uuid"}
  BY DEF Differs, LeftOut, Exceptional, Dropped
<1>7. Panic # Nil
  BY DEF Panic, Nil
<1> QED
  BY <1>1, <1>4, <1>5, <1>6, <1>7 DEF ReadsBack

\* A column of an unknown type.
LEMMA UnknownReadsBack ==
    ASSUME NEW p, NEW v, v # Nil
    PROVE  ReadsBack("null", p, v, <<>>)
<1>1. FromServer("null", p, <<>>) = <<>>
  BY ServerKeeps
<1>2. GetValue("null", p, <<>>) = Nil
  BY Zenon DEF GetValue
<1>3. NextValue("null", p, <<>>) = Nil
  BY <1>2, Zenon DEF NextValue
<1>4. Meaning("null", p, v) = v
  BY DEF Meaning
<1>5. Differs("null", p, v)
  BY DEF Differs, LeftOut, Exceptional, Dropped
<1> QED
  BY <1>1, <1>3, <1>4, <1>5 DEF ReadsBack

\* A Boolean.
LEMMA BoolReadsBack ==
    ASSUME NEW p, NEW v \in UserValues("boolean"), v # Nil, v.type \in Accepted("boolean"),
           NEW b, b = <<IF toBool(v) THEN 1 ELSE 0>>
    PROVE  ReadsBack("boolean", p, v, b)
<1>1. /\ v.type \in {"bool", "text", "numeral", "int", "float"}
  BY DEF Accepted
<1>2. b # <<>> /\ (b[1] # 0 <=> toBool(v))
  OBVIOUS
<1>3. FromServer("boolean", p, b) = b
  BY ServerKeeps
<1>4. GetValue("boolean", p, b) = [type |-> "bool", b |-> b[1] # 0]
  BY <1>2, Zenon DEF GetValue
<1>5. NextValue("boolean", p, b) = [type |-> "bool", b |-> b[1] # 0]
  BY <1>4, Zenon DEF NextValue
<1> DEFINE x == b[1] # 0
           r == [type |-> "bool", b |-> x]
<1>6. r.type = "bool" /\ r.b = x /\ x \in BOOLEAN
  OBVIOUS
<1>7. \A y \in BOOLEAN : r = [type |-> "bool", b |-> y] <=> (x <=> y)
  OBVIOUS
<1>8. HasFields("boolean", v) /\ Determined(v)
  BY UserValueFacts
<1>9. CASE v.type = "bool"
  <2>1. Meaning("boolean", p, v) = v /\ ~Differs("boolean", p, v)
    BY <1>9 DEF Meaning, Differs, LeftOut, Exceptional, Dropped
  <2>2. v = [type |-> "bool", b |-> v.b] /\ v.b \in BOOLEAN
    BY <1>8, <1>9 DEF HasFields, Determined
  <2>3. toBool(v) <=> v.b
    BY <1>9, <2>2 DEF toBool
  <2> QED
    BY <1>2, <1>3, <1>5, <1>7, <2>1, <2>2, <2>3 DEF ReadsBack
<1>10. CASE v.type = "text"
  <2>1. Meaning("boolean", p, v) = v /\ Differs("boolean", p, v)
    BY <1>10 DEF Meaning, Differs, LeftOut, Exceptional, Dropped
  <2>2. r # v
    BY <1>6, <1>10
  <2> QED
    BY <1>3, <1>5, <2>1, <2>2 DEF ReadsBack
<1>11. CASE v.type \in {"numeral", "int"}
  <2> DEFINE y == v.n # 0
  <2>1. Meaning("boolean", p, v) = [type |-> "bool", b |-> y]
    BY <1>11, Zenon DEF Meaning
  <2>2. Differs("boolean", p, v) <=> v.type = "numeral" /\ v.n \notin {0, 1}
    BY <1>11 DEF Differs, LeftOut, Exceptional, Dropped
  <2>3. toBool(v) <=> IF v.type = "int" THEN v.n # 0 ELSE v.n = 1
    BY <1>11 DEF toBool
  <2>4. (x <=> y) <=> ~(v.type = "numeral" /\ v.n \notin {0, 1})
    BY <1>2, <1>11, <2>3
  <2> QED
    BY <1>3, <1>5, <1>7, <2>1, <2>2, <2>4 DEF ReadsBack
<1>12. CASE v.type = "float"
  <2> DEFINE y == v.tenths # 0
  <2>1. Meaning("boolean", p, v) = [type |-> "bool", b |-> y] /\ ~Differs("boolean", p, v)
    BY <1>12 DEF Meaning, Differs, LeftOut, Exceptional, Dropped
  <2>2. toBool(v) <=> y
    BY <1>12 DEF toBool
  <2> QED
    BY <1>2, <1>3, <1>5, <1>7, <2>1, <2>2 DEF ReadsBack
<1> QED
  BY <1>1, <1>9, <1>10, <1>11, <1>12

\* An integer column: what a float or an unsigned integer wraps around to is
\* in the range of an int64, and is the number only if that one is too.
LEMMA IntColumnReadsBack ==
    ASSUME NEW kind \in IntKinds, NEW p, NEW v \in UserValues(kind), v # Nil,
           v.type \in Accepted(kind), NEW w \in {1, 2, 4, 8}, Fits(toInt64(v), w),
           NEW b, b = LittleEndian(toInt64(v), w)
    PROVE  ReadsBack(kind, p, v, b)
<1>1. v.type \in {"int", "uint", "float"}
  BY DEF Accepted, IntKinds
<1>2. toInt64(v) \in Int
  BY <1>1, ToInt64Facts
<1>3. HasFields(kind, v) /\ Determined(v)
  BY UserValueFacts
<1> DEFINE m == toInt64(v)
           r == [type |-> "int", n |-> m]
<1>4. Len(b) = w /\ w >= 1 /\ b \in Seq(Bytes)
  BY <1>2, LittleEndianFacts
<1>5. b # <<>>
  BY <1>4
<1>6. Signed(Reversed(b)) = m
  BY <1>2, IntReadsBack
<1>7. FromServer(kind, p, b) = b
  BY ServerKeeps DEF IntKinds
<1>8. GetValue(kind, p, b) = [type |-> "int", n |-> Signed(Reversed(b))]
  BY <1>5 DEF GetValue, IntKinds
<1>9. NextValue(kind, p, b) = r
  BY <1>6, <1>8 DEF NextValue, IntKinds
<1>10. Fits(m, 8)
  BY <1>2, FitsWider
<1> HIDE DEF m
<1>11. r.type = "int" /\ r.n = m
  OBVIOUS
<1>12. CASE v.type = "int"
  <2>1. Meaning(kind, p, v) = v /\ ~Differs(kind, p, v)
    BY <1>12 DEF Meaning, Differs, LeftOut, Exceptional, Dropped, IntKinds
  <2>2. v = [type |-> "int", n |-> v.n] /\ v.n \in Int64
    BY <1>3, <1>12 DEF HasFields, Determined
  <2>3. v.n \in Int /\ Fits(v.n, 8)
    <3>1. Power(Byte, 8) \in Nat
      BY ByteFacts, PowerUnfolds
    <3> DEFINE h == Power(Byte, 8) \div 2
    <3>2. h \in Int
      BY <3>1
    <3>3. v.n \in -h..(h - 1)
      BY <2>2 DEF Int64
    <3> HIDE DEF h
    <3>4. v.n \in Int /\ -h <= v.n /\ v.n < h
      BY <3>2, <3>3
    <3> QED
      BY <3>4 DEF Fits, h
  <2>4. m = v.n
    BY <1>12, <2>3, ToInt64InRange DEF m
  <2> QED
    BY <1>7, <1>9, <2>1, <2>2, <2>4 DEF ReadsBack
<1>13. CASE v.type = "uint"
  <2>1. Meaning(kind, p, v) = [type |-> "int", n |-> v.n]
    BY <1>13 DEF Meaning, IntKinds
  <2>2. Differs(kind, p, v) <=> ~Fits(v.n, 8)
    BY <1>13 DEF Differs, LeftOut, Exceptional, Dropped, IntKinds
  <2>3. v.n \in Int
    BY <1>13, NumberFacts
  <2>4. m = v.n <=> Fits(v.n, 8)
    BY <1>10, <1>13, <2>3, ToInt64InRange DEF m
  <2>5. r = [type |-> "int", n |-> v.n] <=> m = v.n
    OBVIOUS
  <2> QED
    BY <1>7, <1>9, <2>1, <2>2, <2>4, <2>5 DEF ReadsBack
<1>14. CASE v.type = "float" /\ v.tenths % 10 = 0
  <2>1. Meaning(kind, p, v) = [type |-> "int", n |-> v.tenths \div 10]
    BY <1>14 DEF Meaning, IntKinds
  <2>2. Differs(kind, p, v) <=> ~Fits(v.tenths \div 10, 8)
    BY <1>14 DEF Differs, LeftOut, Exceptional, Dropped, IntKinds
  <2>3. v.tenths \in Int
    BY <1>14, NumberFacts
  <2>4. m = v.tenths \div 10 <=> Fits(v.tenths \div 10, 8)
    BY <1>10, <1>14, <2>3, ToInt64InRange DEF m
  <2>5. r = [type |-> "int", n |-> v.tenths \div 10] <=> m = v.tenths \div 10
    OBVIOUS
  <2> QED
    BY <1>7, <1>9, <2>1, <2>2, <2>4, <2>5 DEF ReadsBack
<1>15. CASE v.type = "float" /\ v.tenths % 10 # 0
  <2>1. Meaning(kind, p, v) = v /\ Differs(kind, p, v)
    BY <1>15 DEF Meaning, Differs, LeftOut, Exceptional, Dropped, IntKinds
  <2>2. r # v
    BY <1>11, <1>15
  <2> QED
    BY <1>7, <1>9, <2>1, <2>2 DEF ReadsBack
<1> QED
  BY <1>1, <1>12, <1>13, <1>14, <1>15

\* A FLOAT or DOUBLE column.
LEMMA FloatReadsBack ==
    ASSUME NEW kind \in {"float", "double"}, NEW p, NEW v \in UserValues(kind), v # Nil,
           v.type \in Accepted(kind), NEW b, b = floatBytes(kind, toFloat64(v))
    PROVE  ReadsBack(kind, p, v, b)
<1>1. v.type \in {"int", "float"}
  BY DEF Accepted
<1>2. HasFields(kind, v) /\ Determined(v)
  BY UserValueFacts
<1> DEFINE f == toFloat64(v)
           t == IF v.type = "int" THEN 10 * v.n ELSE v.tenths
           g == IF kind = "float" THEN float32(f) ELSE f
           S == IF kind = "float" THEN Float32s ELSE Float64s
<1>3. f \in Float64s
  BY <1>1, ToFloat64Facts
<1>4. floatOf(b) = g
  BY <1>3, FloatFacts
<1>5. b # <<>>
  <2>1. Len(b) # 0
    <3>1. Len(b) \in {4, 8}
      BY <1>3, FloatFacts
    <3>2. \A x \in {4, 8} : x # 0
      OBVIOUS
    <3> QED
      BY <3>1, <3>2, Zenon
  <2>2. Len(<<>>) = 0
    OBVIOUS
  <2> QED
    BY <2>1, <2>2, Zenon
<1>6. FromServer(kind, p, b) = b
  BY ServerKeeps
<1>7. GetValue(kind, p, b) = [type |-> "float", tenths |-> floatOf(b)]
  BY <1>5 DEF GetValue
<1>8. NextValue(kind, p, b) = [type |-> "float", tenths |-> g]
  BY <1>4, <1>7 DEF NextValue
<1>9. g \in S
  BY <1>3, FloatFacts
<1>10. t \in S => g = t
  <2> HAVE t \in S
  <2>1. t \in Float64s
    BY FloatsAssumption
  <2>2. f = t
    BY <1>1, <2>1, ToFloat64Facts
  <2> QED
    BY <1>3, <2>2, FloatFacts
<1>11. Differs(kind, p, v) <=> t \notin S
  BY <1>1 DEF Differs, LeftOut, Exceptional, Dropped
<1>12. Meaning(kind, p, v) = [type |-> "float", tenths |-> t]
  <2>1. CASE v.type = "int"
    BY <2>1 DEF Meaning
  <2>2. CASE v.type = "float"
    <3>1. Meaning(kind, p, v) = v
      BY <2>2 DEF Meaning
    <3> QED
      BY <1>2, <2>2, <3>1 DEF Determined
  <2> QED
    BY <1>1, <2>1, <2>2
<1> HIDE DEF g, t, S
<1>13. [type |-> "float", tenths |-> g] = [type |-> "float", tenths |-> t] <=> g = t
  OBVIOUS
<1> QED
  BY <1>6, <1>8, <1>9, <1>10, <1>11, <1>12, <1>13 DEF ReadsBack

\* The parts of a decimal.
LEMMA DecimalParts ==
    ASSUME NEW scale \in Int, NEW unscaled \in Int, NEW b,
           b = LittleEndian(scale, 2) \o twosComplementBytes(unscaled)
    PROVE  /\ b # <<>>
           /\ Signed(SubSeq(b, 3, Len(b))) = unscaled
           /\ Signed(Reversed(SubSeq(b, 1, 2))) = scale <=> Fits(scale, 2)
<1> DEFINE a == LittleEndian(scale, 2)
           c == twosComplementBytes(unscaled)
<1>1. a \in Seq(Bytes) /\ Len(a) = 2
  BY LittleEndianFacts
<1>2. Minimal(c) /\ Signed(c) = unscaled
  BY TwosComplementFacts
<1>3. c \in Seq(Bytes)
  BY <1>2 DEF Minimal
<1>4. b = a \o c
  OBVIOUS
<1>5. Signed(Reversed(a)) = scale <=> Fits(scale, 2)
  BY IntReadsBack
<1> HIDE DEF a, c
<1>6. SubSeq(b, 3, Len(b)) = c
  <2>1. SubSeq(b, Len(a) + 1, Len(b)) = c
    BY <1>1, <1>3, <1>4, SuffixFacts
  <2> QED
    BY <1>1, <2>1
<1>7. SubSeq(b, 1, 2) = a
  <2>1. SubSeq(b, 1, Len(a)) = a
    BY <1>1, <1>3, <1>4, PrefixFacts
  <2> QED
    BY <1>1, <2>1
<1>8. b # <<>>
  <2>1. Len(b) >= 1
    BY DecimalBytes
  <2>2. Len(b) # 0
    BY <2>1
  <2>3. Len(<<>>) = 0
    OBVIOUS
  <2> QED
    BY <2>2, <2>3, Zenon
<1> QED
  BY <1>2, <1>5, <1>6, <1>7, <1>8

\* A DECIMAL column.
LEMMA DecimalReadsBack ==
    ASSUME NEW p, NEW v \in UserValues("decimal"), v # Nil, v.type \in Accepted("decimal"),
           NEW b, b = LittleEndian(toDecimal(v).scale, 2) \o twosComplementBytes(toDecimal(v).unscaled)
    PROVE  ReadsBack("decimal", p, v, b)
<1>1. v.type \in {"decimal", "numeral", "int", "float", "text"}
  BY DEF Accepted
<1>2. HasFields("decimal", v) /\ Determined(v)
  BY UserValueFacts
<1> DEFINE d == toDecimal(v)
           x == Signed(Reversed(SubSeq(b, 1, 2)))
           r == [type |-> "decimal", unscaled |-> d.unscaled, scale |-> x]
<1>3. d.unscaled \in Int /\ d.scale \in Int
  BY <1>1, ToDecimalFacts
<1> HIDE DEF d
<1>4. b # <<>> /\ Signed(SubSeq(b, 3, Len(b))) = d.unscaled /\ (x = d.scale <=> Fits(d.scale, 2))
  <2>1. b = LittleEndian(d.scale, 2) \o twosComplementBytes(d.unscaled)
    BY DEF d
  <2> QED
    BY <1>3, <2>1, DecimalParts
<1>5. FromServer("decimal", p, b) = b
  <2>1. "decimal" \notin {"time", "datetime"}
    OBVIOUS
  <2> QED
    BY <2>1, ServerKeeps, Zenon
<1>6. GetValue("decimal", p, b) = r
  <2>1. GetValue("decimal", p, b) = [type |-> "decimal", unscaled |-> Signed(SubSeq(b, 3, Len(b))), scale |-> x]
    BY <1>4, Zenon DEF GetValue
  <2> QED
    BY <1>4, <2>1, Zenon
<1>7. r.type = "decimal"
  OBVIOUS
<1>8. r # Nil
  <2>1. Nil.type = "nil"
    BY DEF Nil
  <2> QED
    BY <1>7, <2>1
<1>9. NextValue("decimal", p, b) = r
  BY <1>6, <1>8, Zenon DEF NextValue
<1> HIDE DEF x
<1>10. \A y, z : r = [type |-> "decimal", unscaled |-> y, scale |-> z] <=> d.unscaled = y /\ x = z
  OBVIOUS
<1>11. Scale \in Nat /\ Scale # 0 /\ Fits(Scale, 2)
  BY ColsAssumption
<1>12. CASE v.type = "decimal"
  <2>1. Meaning("decimal", p, v) = v /\ (Differs("decimal", p, v) <=> ~Fits(v.scale, 2))
    BY <1>12 DEF Meaning, Differs, LeftOut, Exceptional, Dropped
  <2>2. d = v
    BY <1>12 DEF d, toDecimal
  <2>3. v = [type |-> "decimal", unscaled |-> v.unscaled, scale |-> v.scale]
    BY <1>2, <1>12 DEF Determined
  <2>4. r = v <=> d.unscaled = v.unscaled /\ x = v.scale
    BY <1>10, <2>3
  <2> QED
    BY <1>4, <1>5, <1>9, <2>1, <2>2, <2>4 DEF ReadsBack
<1>13. CASE v.type = "numeral"
  <2> DEFINE y == v.n * Power(10, Scale)
  <2>1. Meaning("decimal", p, v) = [type |-> "decimal", unscaled |-> y, scale |-> Scale]
    BY <1>13, Zenon DEF Meaning
  <2>2. ~Differs("decimal", p, v)
    BY <1>13 DEF Differs, LeftOut, Exceptional, Dropped
  <2>3. d = [type |-> "decimal", unscaled |-> y, scale |-> Scale]
    BY <1>13, Zenon DEF d, toDecimal
  <2> HIDE DEF y
  <2>4. d.unscaled = y /\ d.scale = Scale
    BY <2>3
  <2> QED
    BY <1>4, <1>5, <1>9, <1>10, <1>11, <2>1, <2>2, <2>4 DEF ReadsBack
<1>14. CASE v.type = "float"
  <2> DEFINE y == v.tenths * Power(10, Scale - 1)
  <2>1. Meaning("decimal", p, v) = [type |-> "decimal", unscaled |-> y, scale |-> Scale]
    BY <1>14, Zenon DEF Meaning
  <2>2. ~Differs("decimal", p, v)
    BY <1>14 DEF Differs, LeftOut, Exceptional, Dropped
  <2>3. d = [type |-> "decimal", unscaled |-> y, scale |-> Scale]
    BY <1>14, Zenon DEF d, toDecimal
  <2> HIDE DEF y
  <2>4. d.unscaled = y /\ d.scale = Scale
    BY <2>3
  <2> QED
    BY <1>4, <1>5, <1>9, <1>10, <1>11, <2>1, <2>2, <2>4 DEF ReadsBack
<1>15. CASE v.type = "int"
  <2> DEFINE q == Power(10, Scale)
             y == v.n * q
  <2>1. Meaning("decimal", p, v) = [type |-> "decimal", unscaled |-> y, scale |-> Scale]
    BY <1>15, Zenon DEF Meaning
  <2>2. Differs("decimal", p, v) <=> v.n # 0
    BY <1>11, <1>15 DEF Differs, LeftOut, Exceptional, Dropped
  <2>3. d = [type |-> "decimal", unscaled |-> v.n, scale |-> Scale]
    BY <1>15, Zenon DEF d, toDecimal
  <2>4. d.unscaled = v.n /\ d.scale = Scale
    BY <2>3
  <2>5. v.n \in Int
    BY <1>15, NumberFacts
  <2>6. q \in Nat /\ q > Scale
    <3>1. PICK ten \in Nat : ten = 10
      OBVIOUS
    <3>2. ten >= 2
      BY <3>1
    <3>3. Power(ten, Scale) \in Nat /\ Power(ten, Scale) > Scale
      BY <1>11, <3>2, PowerGrows
    <3> QED
      BY <3>1, <3>3
  <2> HIDE DEF q
  <2>7. v.n = y <=> v.n = 0
    <3>1. q \in Nat /\ q >= 2
      BY <1>11, <2>6
    <3>2. \A n \in Int : n = n * q <=> n = 0
      <4> SUFFICES ASSUME NEW n \in Int PROVE n = n * q <=> n = 0
        OBVIOUS
      <4>1. n * q = n * (q - 1) + n
        BY <3>1
      <4>2. PICK k \in Nat : k = q - 1 /\ k >= 1
        BY <3>1
      <4>3. n * (q - 1) = 0 <=> n = 0
        <5>1. n * k = 0 => n = 0
          <6> HAVE n * k = 0
          <6>1. -k < n * k /\ n * k < k
            BY <4>2
          <6> QED
            BY <6>1, NoMultiple
        <5>2. n = 0 => n * k = 0
          OBVIOUS
        <5> QED
          BY <4>2, <5>1, <5>2
      <4>4. n * (q - 1) \in Int /\ n * q \in Int
        BY <3>1
      <4> QED
        BY <4>1, <4>3, <4>4
    <3> QED
      BY <2>5, <3>2
  <2> HIDE DEF y
  <2> QED
    BY <1>4, <1>5, <1>9, <1>10, <1>11, <2>1, <2>2, <2>4, <2>7 DEF ReadsBack
<1>16. CASE v.type = "text"
  <2>1. Meaning("decimal", p, v) = v /\ Differs("decimal", p, v)
    BY <1>16 DEF Meaning, Differs, LeftOut, Exceptional, Dropped
  <2>2. r # v
    BY <1>7, <1>16
  <2> QED
    BY <1>5, <1>9, <2>1, <2>2 DEF ReadsBack
<1> QED
  BY <1>1, <1>12, <1>13, <1>14, <1>15, <1>16

\* A UUID column: the halves come back reversed.
LEMMA UuidReadsBack ==
    ASSUME NEW p, NEW v \in UserValues("uuid"), v # Nil, v.type \in Accepted("uuid"),
           NEW b, b = v.s, b # <<>>
    PROVE  ReadsBack("uuid", p, v, b)
<1>1. v.type = "uuid"
  BY DEF Accepted
<1>2. v = [type |-> "uuid", s |-> v.s]
  BY <1>1, UserValueFacts DEF Determined
<1> DEFINE r == [type |-> "uuid", s |-> Flip(b)]
<1>3. FromServer("uuid", p, b) = b
  BY ServerKeeps
<1>4. GetValue("uuid", p, b) = r
  BY Zenon DEF GetValue
<1>5. r # Nil
  BY DEF Nil
<1>6. NextValue("uuid", p, b) = r
  BY <1>4, <1>5, Zenon DEF NextValue
<1>7. Meaning("uuid", p, v) = v /\ (Differs("uuid", p, v) <=> v.s # Flip(v.s))
  BY <1>1 DEF Meaning, Differs, LeftOut, Exceptional, Dropped
<1>8. r = v <=> v.s = Flip(v.s)
  BY <1>2
<1> QED
  BY <1>3, <1>6, <1>7, <1>8 DEF ReadsBack

\* A TIMESTAMP column: eight bytes, or twelve.
IsTimestamp(b, sec, nsec) ==
    b = LittleEndian(sec, 8) \o IF nsec # 0 THEN LittleEndian(nsec, 4) ELSE <<>>

\* The seconds and the nanoseconds are read again, if both are written.
LEMMA TimestampParts ==
    ASSUME NEW sec \in Int, Fits(sec, 8), NEW nsec \in Nat, nsec < Power(Byte, 4),
           NEW b, IsTimestamp(b, sec, nsec)
    PROVE  /\ b # <<>>
           /\ nsec = 0 => Len(b) < 12
           /\ nsec # 0 => /\ ~(Len(b) < 12)
                          /\ Signed(Reversed(SubSeq(b, 1, 8))) = sec
                          /\ Unsigned(Reversed(SubSeq(b, 9, 12))) = nsec
<1>1. PICK a : a = LittleEndian(sec, 8)
  OBVIOUS
<1>2. a \in Seq(Bytes)
  BY <1>1, LittleEndianFacts
<1>8. Len(a) = 8
  BY <1>1, LittleEndianFacts
<1>9. Signed(Reversed(a)) = sec
  BY <1>1, IntReadsBack
<1>3. CASE nsec = 0
  <2>1. b = a \o <<>>
    BY <1>1, <1>3, Zenon DEF IsTimestamp
  <2>2. a \o <<>> = a
    BY <1>2
  <2>3. Len(b) = 8
    BY <1>8, <2>1, <2>2, Zenon
  <2>4. Len(b) # 0 /\ Len(b) < 12
    BY <2>3
  <2> QED
    BY <1>3, <2>4, NotEmpty, Zenon
<1>4. CASE nsec # 0
  <2>1. PICK c : c = LittleEndian(nsec, 4)
    OBVIOUS
  <2>2. c \in Seq(Bytes)
    BY <2>1, LittleEndianFacts
  <2>10. Len(c) = 4
    <3>1. nsec \in Int /\ 4 \in Nat
      OBVIOUS
    <3>2. Len(LittleEndian(nsec, 4)) = 4
      BY <3>1, LittleEndianFacts, Zenon
    <3> QED
      BY <2>1, <3>2, Zenon
  <2>11. Unsigned(Reversed(c)) = nsec
    BY <2>1, UnsignedReadsBack
  <2>3. b = a \o c
    BY <1>1, <1>4, <2>1, Zenon DEF IsTimestamp
  <2>4. PICK m \in Nat, n \in Nat : m = 8 /\ n = 4
    OBVIOUS
  <2>5. Len(a) = m /\ Len(c) = n
    BY <1>8, <2>10, <2>4
  <2>6. Len(b) = m + n /\ SubSeq(b, 1, m) = a /\ SubSeq(b, m + 1, m + n) = c
    BY ONLY <1>2, <2>2, <2>3, <2>5, m \in Nat, n \in Nat, TwoParts
  <2>7. m + 1 = 9 /\ m + n = 12
    BY <2>4
  <2>8. Len(b) = 12 /\ SubSeq(b, 1, 8) = a /\ SubSeq(b, 9, 12) = c
    BY <2>4, <2>6, <2>7
  <2>9. Len(b) # 0 /\ ~(Len(b) < 12)
    BY <2>8
  <2> QED
    BY <1>4, <1>9, <2>8, <2>9, <2>11, NotEmpty, Zenon
<1> QED
  BY <1>3, <1>4

\* A timestamp is read back if it has nanoseconds.
LEMMA TimestampReadsBack ==
    ASSUME NEW p, NEW v \in UserValues("timestamp"), v # Nil, v.type \in Accepted("timestamp"),
           NEW b, IsTimestamp(b, v.sec, v.nsec)
    PROVE  ReadsBack("timestamp", p, v, b)
<1>1. v.type = "instant"
  BY DEF Accepted
<1>2. v = [type |-> "instant", sec |-> v.sec, nsec |-> v.nsec]
  BY <1>1, UserValueFacts DEF Determined
<1>3. v.sec \in Int /\ Fits(v.sec, 8) /\ v.nsec \in Nat /\ v.nsec < Power(Byte, 4)
  BY <1>1, TimeValueFacts
<1> DEFINE r == [type |-> "instant", sec |-> Signed(Reversed(SubSeq(b, 1, 8))),
                 nsec |-> Unsigned(Reversed(SubSeq(b, 9, 12)))]
<1>4. /\ b # <<>>
      /\ v.nsec = 0 => Len(b) < 12
      /\ v.nsec # 0 => ~(Len(b) < 12) /\ r = v
  BY <1>2, <1>3, TimestampParts
<1>5. FromServer("timestamp", p, b) = b
  BY ServerKeeps
<1>6. GetValue("timestamp", p, b) = IF Len(b) < 12 THEN Panic ELSE r
  BY <1>4, Zenon DEF GetValue
<1>7. Panic # Nil /\ r # Nil /\ Panic # v
  BY <1>1 DEF Panic, Nil
<1>8. NextValue("timestamp", p, b) = IF Len(b) < 12 THEN Panic ELSE r
  BY <1>6, <1>7, Zenon DEF NextValue
<1>9. Meaning("timestamp", p, v) = v /\ (Differs("timestamp", p, v) <=> v.nsec = 0)
  BY <1>1 DEF Meaning, Differs, LeftOut, Exceptional, Dropped
<1> QED
  BY <1>4, <1>5, <1>7, <1>8, <1>9, Zenon DEF ReadsBack

\* The marker, put in front of a string or of bytes, and dropped again.
LEMMA MarkerFacts ==
    ASSUME NEW s \in Seq(Bytes)
    PROVE  /\ Unmarked(MarkedEmpty(s)) = IF s # <<>> /\ s[1] = SignBit THEN Tail(s) ELSE s
           /\ Unmarked(Marked(s)) = s
           /\ s # <<>> => Tail(s) # s
<1>1. SignBit \in Bytes
  BY ByteFacts DEF Bytes
<1> DEFINE a == <<SignBit>>
<1>2. a \in Seq(Bytes) /\ Len(a) = 1 /\ a[1] = SignBit
  BY <1>1
<1>3. a # <<>> /\ Tail(a) = <<>>
  BY <1>2
<1>4. a \o s \in Seq(Bytes) /\ Len(a \o s) = Len(a) + Len(s) /\ (a \o s)[1] = a[1]
  BY <1>1
<1>5. Tail(a \o s) = s
  BY <1>1
<1>6. a \o s # <<>>
  BY <1>2, <1>4
<1> HIDE DEF a
<1>7. s # <<>> => Tail(s) # s
  <2> HAVE s # <<>>
  <2>1. Len(Tail(s)) = Len(s) - 1 /\ Len(s) \in Nat
    OBVIOUS
  <2>2. \A k \in Nat : k - 1 # k
    OBVIOUS
  <2> QED
    BY <2>1, <2>2, Zenon
<1>8. Unmarked(MarkedEmpty(s)) = IF s # <<>> /\ s[1] = SignBit THEN Tail(s) ELSE s
  BY <1>2, <1>3, Zenon DEF Unmarked, MarkedEmpty, a
<1>9. Unmarked(Marked(s)) = s
  BY <1>2, <1>4, <1>5, <1>6, Zenon DEF Unmarked, Marked, a
<1> QED
  BY <1>7, <1>8, <1>9

\* What a string or bytes column is read as, by what is left of it.
TextOf(u) == IF u = <<>> THEN Nil ELSE [type |-> "text", s |-> u]

\* It is the text itself, unless nothing is left.
LEMMA TextFacts ==
    /\ \A kind \in {"string", "bytes"} : \A p, b :
          NextValue(kind, p, FromServer(kind, p, b)) = TextOf(Unmarked(b))
    /\ \A u, x : TextOf(u) = [type |-> "text", s |-> x] <=> u # <<>> /\ u = x
<1>1. ASSUME NEW kind \in {"string", "bytes"}, NEW p, NEW b
      PROVE  NextValue(kind, p, FromServer(kind, p, b)) = TextOf(Unmarked(b))
  <2>1. kind \notin {"time", "datetime", "decimal", "timestamp", "uuid"}
    OBVIOUS
  <2>2. FromServer(kind, p, b) = b
    BY <2>1, ServerKeeps
  <2>3. GetValue(kind, p, b) = TextOf(Unmarked(b))
    <3>1. CASE Unmarked(b) = <<>>
      BY <3>1 DEF GetValue, TextOf
    <3>2. CASE Unmarked(b) # <<>>
      <4>1. GetValue(kind, p, b) = [type |-> "text", s |-> Unmarked(b)]
        BY <3>2 DEF GetValue
      <4> QED
        BY <3>2, <4>1, Zenon DEF TextOf
    <3> QED
      BY <3>1, <3>2
  <2>4. NextValue(kind, p, b) = GetValue(kind, p, b)
    BY <2>1 DEF NextValue
  <2> QED
    BY <2>2, <2>3, <2>4, Zenon
<1>2. ASSUME NEW u, NEW x
      PROVE  TextOf(u) = [type |-> "text", s |-> x] <=> u # <<>> /\ u = x
  <2>1. Nil # [type |-> "text", s |-> x]
    BY DEF Nil
  <2>2. [type |-> "text", s |-> u] = [type |-> "text", s |-> x] <=> u = x
    OBVIOUS
  <2> QED
    BY <2>1, <2>2, Zenon DEF TextOf
<1> QED
  BY <1>1, <1>2

\* A string column.
LEMMA StringReadsBack ==
    ASSUME NEW p, NEW v \in UserValues("string"), v # Nil, Formatted(v),
           NEW b, b = MarkedEmpty(stringOf(v))
    PROVE  ReadsBack("string", p, v, b)
<1>1. HasFields("string", v) /\ Determined(v)
  BY UserValueFacts
<1>2. NextValue("string", p, FromServer("string", p, b)) = TextOf(Unmarked(b))
  BY TextFacts
<1>3. CASE v.type = "text"
  <2>1. v.s \in Seq(Bytes) /\ v = [type |-> "text", s |-> v.s]
    BY <1>1, <1>3 DEF HasFields, Determined
  <2>2. b = MarkedEmpty(v.s)
    BY <1>3, Zenon DEF stringOf
  <2> DEFINE u == IF v.s # <<>> /\ v.s[1] = SignBit THEN Tail(v.s) ELSE v.s
  <2>3. Unmarked(b) = u
    BY <2>1, <2>2, MarkerFacts
  <2>4. Meaning("string", p, v) = v
    BY <1>3 DEF Meaning
  <2>5. Differs("string", p, v) <=> v.s = <<>> \/ v.s[1] = SignBit
    BY <1>3 DEF Differs, LeftOut, Exceptional, Dropped
  <2>6. u # <<>> /\ u = v.s <=> ~(v.s = <<>> \/ v.s[1] = SignBit)
    <3>1. v.s # <<>> => Tail(v.s) # v.s
      BY <2>1, MarkerFacts
    <3> QED
      BY <3>1, Zenon
  <2> HIDE DEF u
  <2>7. TextOf(u) = v <=> u # <<>> /\ u = v.s
    BY <2>1, TextFacts
  <2> QED
    BY <1>2, <2>3, <2>4, <2>5, <2>6, <2>7, Zenon DEF ReadsBack
<1>4. CASE v.type # "text"
  <2>1. Format(v) \in Seq(Bytes) /\ Format(v) # <<>> /\ Format(v)[1] # SignBit
    BY <1>4 DEF Formatted
  <2>2. b = MarkedEmpty(Format(v))
    BY <1>4, Zenon DEF stringOf
  <2>3. Unmarked(b) = Format(v)
    BY <2>1, <2>2, MarkerFacts
  <2>4. CASE v.type = "blob"
    <3>1. Meaning("string", p, v) = [type |-> "text", s |-> v.s] /\ Differs("string", p, v)
      BY <2>4 DEF Meaning, Differs, LeftOut, Exceptional, Dropped
    <3>2. Format(v) # v.s
      BY <2>4 DEF Formatted
    <3>3. TextOf(Format(v)) # [type |-> "text", s |-> v.s]
      BY <3>2, TextFacts, Zenon
    <3> QED
      BY <1>2, <2>3, <3>1, <3>3, Zenon DEF ReadsBack
  <2>5. CASE v.type # "blob"
    <3>1. Meaning("string", p, v) = [type |-> "text", s |-> Format(v)]
      BY <1>4, <2>5 DEF Meaning
    <3>2. ~Differs("string", p, v)
      BY <1>4, <2>5 DEF Differs, LeftOut, Exceptional, Dropped
    <3>3. TextOf(Format(v)) = [type |-> "text", s |-> Format(v)]
      BY <2>1, Zenon DEF TextOf
    <3> QED
      BY <1>2, <2>3, <3>1, <3>2, <3>3, Zenon DEF ReadsBack
  <2> QED
    BY <2>4, <2>5
<1> QED
  BY <1>3, <1>4

\* A bytes column.
LEMMA BytesReadsBack ==
    ASSUME NEW p, NEW v \in UserValues("bytes"), v # Nil, v.type \in Accepted("bytes"), Formatted(v),
           NEW b, b = Marked(bytesOf(v))
    PROVE  ReadsBack("bytes", p, v, b)
<1>1. HasFields("bytes", v) /\ Determined(v)
  BY UserValueFacts
<1>2. v.type \in {"text", "blob", "numeral"}
  BY DEF Accepted
<1>3. NextValue("bytes", p, FromServer("bytes", p, b)) = TextOf(Unmarked(b))
  BY TextFacts
<1>4. CASE v.type \in {"text", "blob"}
  <2>1. v.s \in Seq(Bytes)
    BY <1>1, <1>4 DEF HasFields
  <2>2. b = Marked(v.s)
    BY <1>4 DEF bytesOf
  <2>3. Unmarked(b) = v.s
    BY <2>1, <2>2, MarkerFacts
  <2>4. Meaning("bytes", p, v) = [type |-> "text", s |-> v.s]
    <3>1. CASE v.type = "blob"
      BY <3>1 DEF Meaning
    <3>2. CASE v.type = "text"
      <4>1. Meaning("bytes", p, v) = v
        BY <3>2 DEF Meaning
      <4> QED
        BY <1>1, <3>2, <4>1 DEF Determined
    <3> QED
      BY <1>4, <3>1, <3>2
  <2>5. Differs("bytes", p, v) <=> v.s = <<>>
    BY <1>4 DEF Differs, LeftOut, Exceptional, Dropped
  <2>6. TextOf(v.s) = [type |-> "text", s |-> v.s] <=> v.s # <<>>
    BY TextFacts, Zenon
  <2> QED
    BY <1>3, <2>3, <2>4, <2>5, <2>6, Zenon DEF ReadsBack
<1>5. CASE v.type = "numeral"
  <2>1. Format(v) \in Seq(Bytes) /\ Format(v) # <<>>
    BY <1>5 DEF Formatted
  <2>2. b = Marked(Format(v))
    BY <1>5 DEF bytesOf
  <2>3. Unmarked(b) = Format(v)
    BY <2>1, <2>2, MarkerFacts
  <2>4. Meaning("bytes", p, v) = [type |-> "text", s |-> Format(v)] /\ ~Differs("bytes", p, v)
    BY <1>5 DEF Meaning, Differs, LeftOut, Exceptional, Dropped
  <2>5. TextOf(Format(v)) = [type |-> "text", s |-> Format(v)]
    BY <2>1, Zenon DEF TextOf
  <2> QED
    BY <1>3, <2>3, <2>4, <2>5, Zenon DEF ReadsBack
<1> QED
  BY <1>2, <1>4, <1>5

-----------------------------------------------------------------------------
(* Reading a time again                                                    *)

\* Two calendar times are the same if their fields are.
LEMMA CalendarFacts ==
    \A d, e, x, y : Calendar(d, x) = Calendar(e, y) <=>
        /\ d.year = e.year /\ d.month = e.month /\ d.day = e.day
        /\ x.secs = y.secs /\ x.nsec = y.nsec
BY DEF Calendar

\* A date is decoded from the first bits, whatever follows.
LEMMA DecodedDate ==
    ASSUME NEW v, v.year \in Int, v.month \in 1..12, v.day \in 1..31, DateInRange(v),
           NEW n \in Nat, NEW r, BitString(r, n), NEW d, d = decodeDate(encodeDate(v) \o r)
    PROVE  /\ d.month = v.month /\ d.day = v.day
           /\ d.year = v.year <=> ~(v.year < 0)
<1> DEFINE a == encodeDate(v)
<1>1. /\ BitString(a, 24)
      /\ Field(a, 0, 5) = v.day /\ Field(a, 5, 4) = v.month
      /\ Field(a, 9, 15) = Number(Bits(v.year, 15))
      /\ Number(Bits(v.year, 15)) \in Nat
      /\ v.year \in Nat /\ v.year <= 16383 => Number(Bits(v.year, 15)) = v.year
  BY DateFields
<1>2. d = decodeDate(a \o r)
  OBVIOUS
<1> HIDE DEF a
<1>3. d = [year |-> Field(a \o r, 9, 15), month |-> Field(a \o r, 5, 4), day |-> Field(a \o r, 0, 5)]
  BY <1>2 DEF decodeDate
<1>4. \A i, w \in Nat : i + w <= 24 => Field(a \o r, i, w) = Field(a, i, w)
  BY <1>1, FieldOfConcat
<1>5. Field(a \o r, 9, 15) = Field(a, 9, 15)
  BY <1>4
<1>6. Field(a \o r, 5, 4) = Field(a, 5, 4)
  BY <1>4
<1>7. Field(a \o r, 0, 5) = Field(a, 0, 5)
  BY <1>4
<1>8. d.year = Number(Bits(v.year, 15)) /\ d.month = v.month /\ d.day = v.day
  BY <1>1, <1>3, <1>5, <1>6, <1>7
<1>9. Number(Bits(v.year, 15)) = v.year <=> ~(v.year < 0)
  <2>1. v.year <= 16383
    BY DEF DateInRange
  <2> QED
    BY <1>1, <2>1
<1> QED
  BY <1>8, <1>9

\* The precisions that decodeTime knows.
LEMMA FractionFacts ==
    /\ DOMAIN FractionBits = {0, 6, 9, 12}
    /\ \A p \in {0, 6} : FractionBits[p] = 10
    /\ FractionBits[9] = 20 /\ FractionBits[12] = 30
BY DEF FractionBits

\* The time is taken from the last bits.
LastOf(bits, w) == SubSeq(bits, Len(bits) - w + 1, Len(bits))

\* They are what was put last.
LEMMA LastBits ==
    ASSUME NEW k \in Nat, NEW w \in Nat, NEW d, NEW r, BitString(d, k), BitString(r, w)
    PROVE  LastOf(d \o r, w) = r
<1> DEFINE bits == d \o r
<1>1. d \in Seq(0..1) /\ r \in Seq(0..1) /\ Len(d) = k /\ Len(r) = w
  BY DEF BitString
<1>2. Len(bits) = Len(d) + Len(r)
  BY <1>1, ConcatFacts
<1>3. Len(bits) - w + 1 = Len(d) + 1
  BY <1>1, <1>2
<1>4. SubSeq(bits, Len(d) + 1, Len(bits)) = r
  BY <1>1, SuffixFacts
<1> QED
  BY <1>3, <1>4 DEF LastOf

\* The time in r, by the bits f of its fraction.
TimeIn(r, f) ==
    [secs |-> Field(r, f, 6) + 60 * Field(r, f + 6, 6) + Hour * Field(r, f + 12, 5)
                + (IF f = 30 THEN Field(r, 0, f) \div Million ELSE 0),
     nsec |-> CASE f = 10 -> Field(r, 0, f) * Million
                [] f = 20 -> Field(r, 0, f) * Thousand
                [] f = 30 -> (Field(r, 0, f) % Million) * Thousand]

TimeWidth(f) == CASE f = 10 -> 32 [] f = 20 -> 40 [] f = 30 -> 48

\* decodeTime reads the time in the last bits.
LEMMA DecodedTime ==
    ASSUME NEW p, NEW k \in Nat, NEW d, BitString(d, k), TimeWidth(FractionBits[p]) \in Nat,
           NEW r, BitString(r, TimeWidth(FractionBits[p]))
    PROVE  decodeTime(d \o r, p) = TimeIn(r, FractionBits[p])
<1>1. PICK w \in Nat : w = TimeWidth(FractionBits[p])
  OBVIOUS
<1>2. BitString(r, w)
  BY <1>1
<1>3. LastOf(d \o r, w) = r
  BY <1>2, LastBits
<1>4. \A bits : decodeTime(bits, p) = TimeIn(LastOf(bits, TimeWidth(FractionBits[p])), FractionBits[p])
  BY Zenon DEF decodeTime, TimeIn, TimeWidth, LastOf
<1> QED
  BY <1>1, <1>3, <1>4, Zenon

\* A time of fraction x in f bits.
InParts(r, x, f, secs, k) ==
    /\ f \in Nat /\ x \in Nat /\ x < Power(2, f) /\ k \in Nat /\ secs \in Nat /\ secs < Day
    /\ \E z : BitString(z, k) /\ IsTime(r, Bits(x, f), secs, z)

TimeRead(x, f, secs) ==
    [secs |-> secs + (IF f = 30 THEN x \div Million ELSE 0),
     nsec |-> CASE f = 10 -> x * Million
                [] f = 20 -> x * Thousand
                [] f = 30 -> (x % Million) * Thousand]

\* What is read of a time in parts: the fraction and the clock.
LEMMA TimeOfParts ==
    ASSUME NEW r, NEW x, NEW f, NEW secs, NEW k, InParts(r, x, f, secs, k)
    PROVE  /\ BitString(r, f + 17 + k)
           /\ Field(r, 0, f) = x /\ SubSeq(r, f + 1, f + 17) = clockBits(secs)
           /\ TimeIn(r, f) = TimeRead(x, f, secs)
<1>1. f \in Nat /\ x \in Nat /\ x < Power(2, f) /\ k \in Nat /\ secs \in Nat /\ secs < Day
  BY DEF InParts
<1>2. PICK z : BitString(z, k) /\ IsTime(r, Bits(x, f), secs, z)
  BY DEF InParts
<1>3. BitString(Bits(x, f), f) /\ Number(Bits(x, f)) = x
  BY <1>1, BitStrings, NumberOfBits
<1>4. /\ BitString(r, f + 17 + k) /\ Field(r, 0, f) = Number(Bits(x, f))
      /\ Field(r, f, 6) + 60 * Field(r, f + 6, 6) + Hour * Field(r, f + 12, 5) = secs
      /\ SubSeq(r, f + 1, f + 17) = clockBits(secs)
  BY <1>1, <1>2, <1>3, TimeFields
<1>5. TimeIn(r, f) = TimeRead(Field(r, 0, f), f,
                              Field(r, f, 6) + 60 * Field(r, f + 6, 6) + Hour * Field(r, f + 12, 5))
  BY Zenon DEF TimeIn, TimeRead
<1>6. Field(r, 0, f) = x
  BY <1>3, <1>4, Zenon
<1>7. TimeIn(r, f) = TimeRead(x, f, secs)
  BY <1>4, <1>5, <1>6, Zenon
<1> QED
  BY <1>4, <1>6, <1>7, Zenon

\* The server's encoding for the column, with the fraction it keeps.
Kept(nsec, p) == CASE p = 9 -> nsec \div Thousand [] p = 12 -> nsec [] OTHER -> nsec \div Million
Padding(p) == CASE p = 9 -> 3 [] p = 12 -> 1 [] OTHER -> 5

\* The fraction fits its bits.
LEMMA KeptFacts ==
    ASSUME NEW nsec \in Nat, nsec < Billion
    PROVE  /\ nsec < Power(2, 30)
           /\ nsec \div Thousand \in Nat /\ nsec \div Thousand < Power(2, 20)
           /\ nsec \div Million \in Nat /\ nsec \div Million < Power(2, 10)
           /\ (nsec \div Thousand) * Thousand = nsec - (nsec % Thousand)
           /\ (nsec \div Million) * Million = nsec - (nsec % Million)
<1>1. nsec < Power(2, 30)
  BY PowersOfTwo DEF Billion
<1>2. nsec \div Thousand \in Nat /\ nsec \div Thousand < Power(2, 20) /\ (nsec \div Thousand) * Thousand = nsec - (nsec % Thousand)
  BY PowersOfTwo DEF Billion, Thousand
<1>3. nsec \div Million \in Nat /\ nsec \div Million < Power(2, 10)
  BY PowersOfTwo DEF Billion, Million
<1>4. (nsec \div Million) * Million = nsec - (nsec % Million)
  BY DEF Million
<1> QED
  BY <1>1, <1>2, <1>3, <1>4

\* The server returns the fraction that is kept and the clock.
LEMMA ReturnedParts ==
    ASSUME NEW v, IsClock(v.secs, v.nsec), NEW p \in {0, 6, 9, 12}
    PROVE  InParts(Returned(encodeTime(v), p), Kept(v.nsec, p), FractionBits[p], v.secs, Padding(p))
<1>1. v.secs \in Nat /\ v.secs < Day /\ v.nsec \in Nat /\ v.nsec < Billion
  BY DEF IsClock
<1>2. BitString(<<0>>, 1) /\ IsTime(encodeTime(v), Bits(v.nsec, 30), v.secs, <<0>>)
  BY TimesFacts
<1>3. v.nsec < Power(2, 30)
  BY <1>1, KeptFacts
<1>4. PICK f \in Nat : f = 30
  OBVIOUS
<1> DEFINE t == encodeTime(v)
<1>5. InParts(t, v.nsec, f, v.secs, 1)
  <2>1. 1 \in Nat
    OBVIOUS
  <2> QED
    BY <1>1, <1>2, <1>3, <1>4, <2>1, Zenon DEF InParts
<1> HIDE DEF t
<1>6. Field(t, 0, 30) = v.nsec /\ SubSeq(t, 31, 47) = clockBits(v.secs)
  <2>1. Field(t, 0, f) = v.nsec /\ SubSeq(t, f + 1, f + 17) = clockBits(v.secs)
    BY <1>5, TimeOfParts
  <2>2. f + 1 = 31 /\ f + 17 = 47
    BY <1>4
  <2> QED
    BY <1>4, <2>1, <2>2, Zenon
<1>7. \A w \in Nat : BitString(Bits(0, w), w)
  BY BitStrings
<1>8. CASE p = 12
  <2>1. Returned(t, 12) = t /\ Kept(v.nsec, 12) = v.nsec /\ Padding(12) = 1
    BY DEF Returned, Kept, Padding
  <2>2. FractionBits[12] = f
    BY <1>4, FractionFacts
  <2> QED
    BY <1>5, <1>8, <2>1, <2>2, Zenon DEF t
<1>9. CASE p = 9
  <2> DEFINE x == v.nsec \div Thousand
  <2>1. Returned(t, 9) = (Bits(x, 20) \o clockBits(v.secs)) \o Bits(0, 3)
    <3>1. p # 12
      BY <1>9
    <3>2. Returned(t, p) = (Bits(x, 20) \o clockBits(v.secs)) \o Bits(0, 3)
      BY <1>6, <1>9, <3>1, Zenon DEF Returned
    <3> QED
      BY <1>9, <3>2, Zenon
  <2>2. Kept(v.nsec, 9) = x /\ Padding(9) = 3
    BY DEF Kept, Padding
  <2>3. x \in Nat /\ x < Power(2, 20) /\ 20 \in Nat /\ 3 \in Nat
    BY <1>1, KeptFacts
  <2>4. FractionBits[9] = 20
    BY FractionFacts
  <2> HIDE DEF x
  <2>5. IsTime(Returned(t, 9), Bits(x, 20), v.secs, Bits(0, 3))
    BY <2>1, Zenon DEF IsTime
  <2>6. InParts(Returned(t, 9), x, 20, v.secs, 3)
    BY <1>1, <1>7, <2>3, <2>5, Zenon DEF InParts
  <2> QED
    BY <1>9, <2>2, <2>4, <2>6, Zenon DEF t
<1>10. CASE p \in {0, 6}
  <2> DEFINE x == v.nsec \div Million
  <2>1. Returned(t, p) = (Bits(x, 10) \o clockBits(v.secs)) \o Bits(0, 5)
    <3>1. p # 9 /\ p # 12
      BY <1>10
    <3> QED
      BY <1>6, <3>1, Zenon DEF Returned
  <2>2. Kept(v.nsec, p) = x /\ Padding(p) = 5
    BY <1>10 DEF Kept, Padding
  <2>3. x \in Nat /\ x < Power(2, 10) /\ 10 \in Nat /\ 5 \in Nat
    BY <1>1, KeptFacts
  <2>4. FractionBits[p] = 10
    BY <1>10, FractionFacts
  <2> HIDE DEF x
  <2>5. IsTime(Returned(t, p), Bits(x, 10), v.secs, Bits(0, 5))
    BY <2>1, Zenon DEF IsTime
  <2>6. InParts(Returned(t, p), x, 10, v.secs, 5)
    BY <1>1, <1>7, <2>3, <2>5, Zenon DEF InParts
  <2> QED
    BY <2>2, <2>4, <2>6, Zenon DEF t
<1> QED
  BY <1>8, <1>9, <1>10

\* What a time that the server has returned is read as, whatever is before it:
\* what the column keeps of it, but nanoseconds as microseconds.
ReadAs(x, v, p) ==
    /\ p # 12 => x.secs = v.secs /\ x.nsec = Truncated(v.nsec, p)
    /\ p = 12 => /\ x.secs = v.secs + (v.nsec \div Million)
                 /\ x.nsec = (v.nsec % Million) * Thousand

\* A time that the server has encoded anew is decoded so.
LEMMA TimeReturned ==
    ASSUME NEW v, IsClock(v.secs, v.nsec), NEW p \in {0, 6, 9, 12},
           NEW k \in Nat, NEW d, BitString(d, k)
    PROVE  /\ \E w \in {32, 40, 48} : BitString(Returned(encodeTime(v), p), w)
           /\ ReadAs(decodeTime(d \o Returned(encodeTime(v), p), p), v, p)
<1> DEFINE r == Returned(encodeTime(v), p)
           x == decodeTime(d \o r, p)
           f == FractionBits[p]
           y == Kept(v.nsec, p)
<1>1. v.secs \in Nat /\ v.secs < Day /\ v.nsec \in Nat /\ v.nsec < Billion
  BY DEF IsClock
<1>2. InParts(r, y, f, v.secs, Padding(p))
  BY ReturnedParts
<1>3. BitString(r, f + 17 + Padding(p)) /\ TimeIn(r, f) = TimeRead(y, f, v.secs)
  <2> HIDE DEF r, y, f
  <2> QED
    BY <1>2, TimeOfParts
<1>4. f + 17 + Padding(p) = TimeWidth(f) /\ TimeWidth(f) \in {32, 40, 48}
  <2>1. CASE p = 12
    <3>1. f = 30 /\ Padding(p) = 1
      BY <2>1, FractionFacts DEF Padding
    <3> QED
      BY <3>1 DEF TimeWidth
  <2>2. CASE p = 9
    <3>1. f = 20 /\ Padding(p) = 3
      BY <2>2, FractionFacts DEF Padding
    <3> QED
      BY <3>1 DEF TimeWidth
  <2>3. CASE p \in {0, 6}
    <3>1. f = 10 /\ Padding(p) = 5
      BY <2>3, FractionFacts DEF Padding
    <3> QED
      BY <3>1 DEF TimeWidth
  <2> QED
    BY <2>1, <2>2, <2>3
<1>5. TimeWidth(f) \in Nat /\ BitString(r, TimeWidth(f))
  BY <1>3, <1>4
<1>6. x = TimeRead(y, f, v.secs)
  BY <1>3, <1>5, DecodedTime
<1>7. \E w \in {32, 40, 48} : BitString(r, w)
  BY <1>4, <1>5, Zenon
<1> HIDE DEF x, r
<1>8. CASE p = 12
  <2>1. f = 30 /\ y = v.nsec
    BY <1>8, FractionFacts DEF Kept
  <2>2. x = [secs |-> v.secs + (v.nsec \div Million), nsec |-> (v.nsec % Million) * Thousand]
    BY <1>6, <2>1 DEF TimeRead
  <2> QED
    BY <1>7, <1>8, <2>2 DEF x, r, ReadAs
<1>9. CASE p = 9
  <2>1. f = 20 /\ y = v.nsec \div Thousand
    BY <1>9, FractionFacts DEF Kept
  <2>2. x = [secs |-> v.secs + 0, nsec |-> (v.nsec \div Thousand) * Thousand]
    BY <1>6, <2>1 DEF TimeRead
  <2>3. Truncated(v.nsec, p) = v.nsec - (v.nsec % Thousand)
    BY <1>9 DEF Truncated
  <2>4. x.secs = v.secs /\ x.nsec = Truncated(v.nsec, p)
    BY <1>1, <2>2, <2>3, KeptFacts
  <2> QED
    BY <1>7, <1>9, <2>4 DEF x, r, ReadAs
<1>10. CASE p \in {0, 6}
  <2>1. f = 10 /\ y = v.nsec \div Million
    BY <1>10, FractionFacts DEF Kept
  <2>2. x = [secs |-> v.secs + 0, nsec |-> (v.nsec \div Million) * Million]
    BY <1>6, <2>1 DEF TimeRead
  <2>3. Truncated(v.nsec, p) = v.nsec - (v.nsec % Million)
    BY <1>10 DEF Truncated
  <2>4. x.secs = v.secs /\ x.nsec = Truncated(v.nsec, p)
    BY <1>1, <2>2, <2>3, KeptFacts
  <2> QED
    BY <1>7, <1>10, <2>4 DEF x, r, ReadAs
<1> QED
  BY <1>8, <1>9, <1>10

\* Of a column of nanoseconds only a time without them is read again.
LEMMA Nanoseconds ==
    ASSUME NEW secs \in Nat, secs < Day, NEW nsec \in Nat, nsec < Billion
    PROVE  /\ (nsec % Million) * Thousand = nsec /\ secs + (nsec \div Million) = secs <=> nsec = 0
           /\ (nsec % Million) * Thousand = nsec /\ (secs + (nsec \div Million)) % Day = secs <=> nsec = 0
           /\ secs % Day = secs
<1>1. nsec \div Million \in Nat /\ nsec \div Million < Thousand
  BY DEF Thousand, Million, Billion
<1>2. (nsec % Million) * Thousand = nsec /\ nsec \div Million = 0 <=> nsec = 0
  BY DEF Thousand, Million
<1>3. ASSUME NEW x \in Nat, x < Thousand
      PROVE  (secs + x) % Day = secs <=> x = 0
  BY <1>3 DEF Thousand, Day
<1>4. secs % Day = secs
  BY DEF Day
<1> QED
  BY <1>1, <1>2, <1>3, <1>4

\* A DATE column.
LEMMA DateReadsBack ==
    ASSUME NEW p, NEW v \in UserValues("date"), v # Nil, v.type \in Accepted("date"),
           DateInRange(v), NEW b, b = ToBytes(encodeDate(v))
    PROVE  ReadsBack("date", p, v, b)
<1>1. v.type = "calendar"
  BY DEF Accepted
<1>2. v.year \in Int /\ v.month \in 1..12 /\ v.day \in 1..31 /\ IsClock(v.secs, v.nsec)
  BY <1>1, TimeValueFacts
<1>3. BitString(encodeDate(v), 24) /\ Rounded(encodeDate(v))
  BY <1>2, CalendarBytes
<1>4. b # <<>> /\ ToBits(b) = encodeDate(v)
  <2>1. Len(b) # 0
    BY <1>3 DEF Rounded
  <2> QED
    BY <1>3, <2>1, NotEmpty, Zenon DEF Rounded
<1> DEFINE d == decodeDate(encodeDate(v))
<1>5. d.month = v.month /\ d.day = v.day /\ (d.year = v.year <=> ~(v.year < 0))
  <2>1. encodeDate(v) \o <<>> = encodeDate(v)
    BY <1>3 DEF BitString
  <2>2. BitString(<<>>, 0)
    BY DEF BitString
  <2>3. d = decodeDate(encodeDate(v) \o <<>>)
    BY <2>1, Zenon
  <2> HIDE DEF d
  <2> QED
    BY <1>2, <2>2, <2>3, DecodedDate
<1>6. FromServer("date", p, b) = b
  <2>1. "date" \notin {"time", "datetime"}
    OBVIOUS
  <2> QED
    BY <2>1, ServerKeeps, Zenon
<1>7. NextValue("date", p, b) = Calendar(d, NoTime)
  <2>1. GetValue("date", p, b) = Calendar(decodeDate(ToBits(b)), NoTime)
    BY <1>4, Zenon DEF GetValue
  <2>2. NextValue("date", p, b) = GetValue("date", p, b)
    BY Zenon DEF NextValue
  <2> QED
    BY <1>4, <2>1, <2>2, Zenon
<1> HIDE DEF d
<1>8. Meaning("date", p, v) = Calendar(v, NoTime)
  BY <1>1, Zenon DEF Meaning
<1>9. Differs("date", p, v) <=> v.year < 0
  BY <1>1 DEF Differs, LeftOut, Exceptional, Dropped
<1>10. Calendar(d, NoTime) = Calendar(v, NoTime) <=> ~(v.year < 0)
  BY <1>5, CalendarFacts
<1> QED
  BY <1>6, <1>7, <1>8, <1>9, <1>10, Zenon DEF ReadsBack

\* What a TIME or DATETIME is before it is read.
LEMMA ServerReturns ==
    ASSUME NEW kind \in {"time", "datetime"}, NEW p, NEW k \in Nat, NEW d, BitString(d, k),
           NEW t, BitString(t, 48), Rounded(d \o t), NEW b, b = ToBytes(d \o t)
    PROVE  FromServer(kind, p, b) = ToBytes(d \o Returned(t, p))
<1>1. b # <<>> /\ ToBits(b) = d \o t
  <2>1. Len(b) # 0
    BY DEF Rounded
  <2> QED
    BY <2>1, NotEmpty, Zenon DEF Rounded
<1>2. d \in Seq(0..1) /\ t \in Seq(0..1)
  BY DEF BitString
<1>3. Len(d \o t) = Len(d) + Len(t)
  BY <1>2, ConcatFacts
<1>8. Len(d) = k /\ Len(t) = 48
  BY DEF BitString
<1>4. Len(d \o t) - 48 = k /\ Len(d \o t) = k + 48
  BY <1>3, <1>8
<1>5. SubSeq(d \o t, 1, k) = d
  <2>1. SubSeq(d \o t, 1, Len(d)) = d
    BY <1>2, PrefixFacts
  <2> QED
    BY <1>8, <2>1
<1>6. SubSeq(d \o t, k + 1, k + 48) = t
  <2>1. SubSeq(d \o t, Len(d) + 1, Len(d \o t)) = t
    BY <1>2, SuffixFacts
  <2> QED
    BY <1>4, <1>8, <2>1, Zenon
<1>7. FromServer(kind, p, b)
        = ToBytes(SubSeq(ToBits(b), 1, Len(ToBits(b)) - 48)
                    \o Returned(SubSeq(ToBits(b), (Len(ToBits(b)) - 48) + 1, (Len(ToBits(b)) - 48) + 48), p))
  BY <1>1, Zenon DEF FromServer
<1> QED
  BY <1>1, <1>4, <1>5, <1>6, <1>7, Zenon

\* Of an unknown precision nothing is read.
LEMMA UnknownPrecision ==
    ASSUME NEW kind \in {"time", "datetime"}, NEW p, p \notin {0, 6, 9, 12}, NEW b
    PROVE  NextValue(kind, p, b).type # "calendar"
<1>1. p \notin DOMAIN FractionBits
  BY FractionFacts
<1>2. GetValue(kind, p, b) \in {Nil, Failed}
  <2>1. CASE b = <<>>
    BY <2>1 DEF GetValue
  <2>2. CASE b # <<>>
    <3>1. GetValue(kind, p, b) = Failed
      BY <1>1, <2>2 DEF GetValue
    <3> QED
      BY <3>1
  <2> QED
    BY <2>1, <2>2
<1>3. NextValue(kind, p, b) \in {Nil, Failed, Panic}
  BY <1>2, Zenon DEF NextValue
<1> QED
  BY <1>3 DEF Nil, Failed, Panic

\* A TIME column.
LEMMA TimeReadsBack ==
    ASSUME NEW p, NEW v \in UserValues("time"), v # Nil, v.type \in Accepted("time"),
           NEW b, b = ToBytes(encodeTime(v))
    PROVE  ReadsBack("time", p, v, b)
<1>1. v.type = "calendar"
  BY DEF Accepted
<1>2. v.year \in Int /\ v.month \in 1..12 /\ v.day \in 1..31 /\ IsClock(v.secs, v.nsec)
  BY <1>1, TimeValueFacts
<1>3. v.secs \in Nat /\ v.secs < Day /\ v.nsec \in Nat /\ v.nsec < Billion
  BY <1>2 DEF IsClock
<1> DEFINE m == [v EXCEPT !.nsec = Truncated(@, p)]
<1>4. m.secs = v.secs /\ m.nsec = Truncated(v.nsec, p)
  <2>1. v = Calendar(v, v)
    BY <1>1, UserValueFacts DEF Determined
  <2> QED
    BY <2>1 DEF Calendar
<1>5. Meaning("time", p, v) = Calendar(NoDate, m)
  BY <1>1, Zenon DEF Meaning
<1> HIDE DEF m
<1>6. Differs("time", p, v) <=> p \notin {0, 6, 9, 12} \/ (p = 12 /\ v.nsec # 0)
  BY <1>1, FractionFacts DEF Differs, LeftOut, Exceptional, Dropped
<1>7. CASE p \notin {0, 6, 9, 12}
  <2>1. Calendar(NoDate, m).type = "calendar"
    BY DEF Calendar
  <2>2. NextValue("time", p, FromServer("time", p, b)).type # "calendar"
    BY <1>7, UnknownPrecision
  <2> QED
    BY <1>5, <1>6, <1>7, <2>1, <2>2, Zenon DEF ReadsBack
<1>8. CASE p \in {0, 6, 9, 12}
  <2> DEFINE t == encodeTime(v)
             r == Returned(t, p)
             c == ToBytes(r)
             x == decodeTime(r, p)
  <2>1. BitString(<<>>, 0)
    BY DEF BitString
  <2>2. BitString(t, 48) /\ Rounded(t)
    BY <1>2, CalendarBytes
  <2>3. \A n \in Nat : \A s : BitString(s, n) => <<>> \o s = s
    BY DEF BitString
  <2>4. /\ \E w \in {32, 40, 48} : BitString(r, w)
        /\ ReadAs(decodeTime(<<>> \o r, p), v, p)
    BY <1>2, <1>8, <2>1, TimeReturned
  <2> HIDE DEF t, r
  <2>5. PICK w \in {32, 40, 48} : BitString(r, w)
    BY <2>4
  <2>6. <<>> \o r = r /\ <<>> \o t = t
    <3>1. w \in Nat /\ 48 \in Nat
      BY <2>5
    <3> QED
      BY <2>2, <2>3, <2>5, <3>1, Zenon
  <2>7. Rounded(r)
    BY <2>5, TimesAreWhole
  <2>8. FromServer("time", p, b) = c
    <3>1. b = ToBytes(<<>> \o t) /\ Rounded(<<>> \o t)
      BY <2>2, <2>6, Zenon DEF t
    <3>2. FromServer("time", p, b) = ToBytes(<<>> \o Returned(t, p))
      BY <2>1, <2>2, <3>1, ServerReturns
    <3> QED
      BY <2>6, <3>2, Zenon DEF r
  <2>9. c # <<>> /\ ToBits(c) = r
    <3>1. Len(c) # 0
      BY <2>7 DEF Rounded
    <3> QED
      BY <2>7, <3>1, NotEmpty, Zenon DEF Rounded
  <2>10. NextValue("time", p, c) = Calendar(NoDate, x)
    <3>1. p \in DOMAIN FractionBits
      BY <1>8, FractionFacts
    <3>2. GetValue("time", p, c) = Calendar(NoDate, decodeTime(ToBits(c), p))
      BY <2>9, <3>1, Zenon DEF GetValue
    <3>3. NextValue("time", p, c) = GetValue("time", p, c)
      BY Zenon DEF NextValue
    <3> QED
      BY <2>9, <3>2, <3>3, Zenon
  <2>11. ReadAs(x, v, p)
    BY <2>4, <2>6, Zenon
  <2> HIDE DEF c, x
  <2>12. Calendar(NoDate, x) = Calendar(NoDate, m) <=> x.secs = m.secs /\ x.nsec = m.nsec
    BY CalendarFacts
  <2>13. x.secs = m.secs /\ x.nsec = m.nsec <=> ~(p = 12 /\ v.nsec # 0)
    <3>1. CASE p = 12
      <4>1. Truncated(v.nsec, p) = v.nsec
        BY <3>1 DEF Truncated
      <4> QED
        BY <1>3, <1>4, <2>11, <3>1, <4>1, Nanoseconds DEF ReadAs
    <3>2. CASE p # 12
      BY <1>4, <2>11, <3>2 DEF ReadAs
    <3> QED
      BY <3>1, <3>2
  <2> QED
    BY <1>5, <1>6, <1>8, <2>8, <2>10, <2>12, <2>13, Zenon DEF ReadsBack
<1> QED
  BY <1>7, <1>8

\* A DATETIME column.
LEMMA DateTimeReadsBack ==
    ASSUME NEW p, NEW v \in UserValues("datetime"), v # Nil, v.type \in Accepted("datetime"),
           DateInRange(v), NEW b, b = ToBytes(encodeDate(v) \o encodeTime(v))
    PROVE  ReadsBack("datetime", p, v, b)
<1>1. v.type = "calendar"
  BY DEF Accepted
<1>2. v.year \in Int /\ v.month \in 1..12 /\ v.day \in 1..31 /\ IsClock(v.secs, v.nsec)
  BY <1>1, TimeValueFacts
<1>3. v.secs \in Nat /\ v.secs < Day /\ v.nsec \in Nat /\ v.nsec < Billion
  BY <1>2 DEF IsClock
<1> DEFINE n == Truncated(v.nsec, p)
           m == Calendar(v, [secs |-> v.secs, nsec |-> n])
<1>4. Meaning("datetime", p, v) = m
  <2>1. v = Calendar(v, v)
    BY <1>1, UserValueFacts DEF Determined
  <2>2. [v EXCEPT !.nsec = Truncated(v.nsec, p)] = m
    <3> HIDE DEF n
    <3>1. \A u, x : u = Calendar(v, v) => [u EXCEPT !.nsec = x] = Calendar(v, [secs |-> v.secs, nsec |-> x])
      BY DEF Calendar
    <3> QED
      BY <2>1, <3>1 DEF n
  <2>3. Meaning("datetime", p, v) = [v EXCEPT !.nsec = Truncated(v.nsec, p)]
    BY <1>1, Zenon DEF Meaning
  <2> QED
    BY <2>2, <2>3, Zenon
<1> HIDE DEF n
<1>5. m.type = "calendar"
  BY DEF Calendar
<1>6. Differs("datetime", p, v) <=>
          v.year < 0 \/ p \notin {0, 6, 9, 12} \/ (p = 12 /\ v.nsec # 0)
  BY <1>1, FractionFacts DEF Differs, LeftOut, Exceptional, Dropped
<1>7. CASE p \notin {0, 6, 9, 12}
  <2>1. NextValue("datetime", p, FromServer("datetime", p, b)).type # "calendar"
    BY <1>7, UnknownPrecision
  <2> HIDE DEF m
  <2> QED
    BY <1>4, <1>5, <1>6, <1>7, <2>1, Zenon DEF ReadsBack
<1>8. CASE p \in {0, 6, 9, 12}
  <2> DEFINE e == encodeDate(v)
             t == encodeTime(v)
             r == Returned(t, p)
             c == ToBytes(e \o r)
             d == decodeDate(e \o r)
             x == decodeTime(e \o r, p)
  <2>1. BitString(e, 24) /\ BitString(t, 48) /\ Rounded(e \o t)
    BY <1>2, CalendarBytes
  <2>2. (\E w \in {32, 40, 48} : BitString(r, w)) /\ ReadAs(x, v, p)
    BY <1>2, <1>8, <2>1, TimeReturned
  <2>3. PICK w \in {32, 40, 48} : BitString(r, w)
    BY <2>2
  <2>4. d.month = v.month /\ d.day = v.day /\ (d.year = v.year <=> ~(v.year < 0))
    <3>1. w \in Nat
      BY <2>3
    <3> QED
      BY <1>2, <2>3, <3>1, DecodedDate
  <2>5. FromServer("datetime", p, b) = c
    BY <2>1, ServerReturns
  <2> HIDE DEF e, t, r
  <2>6. Rounded(e \o r)
    <3>1. w \in Nat /\ 24 + w \in {56, 64, 72} /\ 24 \in Nat
      BY <2>3
    <3>2. BitString(e \o r, 24 + w)
      BY <2>1, <2>3, <3>1, BitStrings, Zenon
    <3>3. 24 + w \in {24, 32, 40, 48, 56, 64, 72}
      BY <3>1
    <3> QED
      BY <3>2, <3>3, TimesAreWhole, Zenon
  <2>7. c # <<>> /\ ToBits(c) = e \o r
    <3>1. Len(c) # 0
      BY <2>6 DEF Rounded
    <3> QED
      BY <2>6, <3>1, NotEmpty, Zenon DEF Rounded
  <2> DEFINE y == [x EXCEPT !.secs = @ % Day]
  <2>8. NextValue("datetime", p, c) = Calendar(d, y)
    <3>1. p \in DOMAIN FractionBits
      BY <1>8, FractionFacts
    <3>2. GetValue("datetime", p, c) = DateTime(e \o r, p)
      BY <2>7, <3>1, Zenon DEF GetValue
    <3>3. DateTime(e \o r, p) = Calendar(d, y)
      BY Zenon DEF DateTime
    <3>4. Calendar(d, y) # Nil
      BY DEF Calendar, Nil
    <3> QED
      BY <3>2, <3>3, <3>4, Zenon DEF NextValue
  <2>9. y.secs = x.secs % Day /\ y.nsec = x.nsec
    BY DEF decodeTime
  <2> HIDE DEF c, d, x, y
  <2>10. Calendar(d, y) = m <=> ~(v.year < 0) /\ y.secs = v.secs /\ y.nsec = n
    BY <2>4, CalendarFacts
  <2>11. y.secs = v.secs /\ y.nsec = n <=> ~(p = 12 /\ v.nsec # 0)
    <3>1. CASE p = 12
      <4>1. n = v.nsec
        BY <3>1 DEF n, Truncated
      <4> QED
        BY <1>3, <2>2, <2>9, <3>1, <4>1, Nanoseconds DEF ReadAs
    <3>2. CASE p # 12
      BY <1>3, <2>2, <2>9, <3>2, Nanoseconds DEF ReadAs, n
    <3> QED
      BY <3>1, <3>2
  <2> HIDE DEF m
  <2> QED
    BY <1>4, <1>6, <1>8, <2>5, <2>8, <2>10, <2>11, Zenon DEF ReadsBack
<1> QED
  BY <1>7, <1>8

-----------------------------------------------------------------------------
(* Reading any value again                                                 *)

\* What the encoder accepts is read as what it means, unless it is one of the
\* exceptions, and none of these is.
LEMMA ValueReadsBack ==
    ASSUME NEW kind \in Kinds, NEW p, NEW v \in UserValues(kind), Formatted(v),
           NEW e, e = appendBinaryTupleValue(kind, v), e.ok
    PROVE  ReadsBack(kind, p, v, e.bytes)
<1>1. CASE v = Nil
  <2>1. e = Ok(<<>>)
    BY <1>1 DEF appendBinaryTupleValue
  <2>2. e.bytes = <<>>
    BY <2>1, OkFacts
  <2> QED
    BY <1>1, <2>2, NilReadsBack
<1>2. CASE v # Nil
  <2>1. PICK b : b = e.bytes
    OBVIOUS
  <2>2. \A x : e = Ok(x) => b = x
    BY <2>1, OkFacts
  <2>3. v.type \in Accepted(kind)
    BY <1>2, EncodingOfKind
  <2>4. b \in Seq(Bytes) /\ (kind # "null" => Len(b) >= 1)
    BY <1>2, <2>1, EncodedBytes DEF Encoded
  <2> SUFFICES ReadsBack(kind, p, v, b)
    BY <2>1
  <2>5. CASE kind = "null"
    <3>1. b = <<>>
      <4>1. e = Ok(<<>>)
        BY <1>2, <2>5, EncodingOfKind
      <4> QED
        BY <2>2, <4>1, Zenon
    <3> QED
      BY <1>2, <2>5, <3>1, UnknownReadsBack
  <2>6. CASE kind = "boolean"
    <3>1. b = IF toBool(v) THEN <<1>> ELSE <<0>>
      <4>1. e = Ok(IF toBool(v) THEN <<1>> ELSE <<0>>)
        BY <1>2, <2>6, EncodingOfKind
      <4> QED
        BY <2>2, <4>1, Zenon
    <3>2. b = <<IF toBool(v) THEN 1 ELSE 0>>
      BY <3>1, Zenon
    <3> QED
      BY <1>2, <2>3, <2>6, <3>2, BoolReadsBack
  <2>7. CASE kind \in IntKinds
    <3>1. e = putBinaryTupleInt(kind, toInt64(v))
      BY <1>2, <2>7, EncodingOfKind DEF IntKinds
    <3>2. PICK w \in {1, 2, 4, 8} : Fits(toInt64(v), w) /\ e = Ok(LittleEndian(toInt64(v), w))
      BY <2>7, <3>1, IntFacts
    <3>3. b = LittleEndian(toInt64(v), w)
      BY <2>2, <3>2, Zenon
    <3> QED
      BY <1>2, <2>3, <2>7, <3>2, <3>3, IntColumnReadsBack
  <2>8. CASE kind \in {"float", "double"}
    <3>1. b = floatBytes(kind, toFloat64(v))
      <4>1. e = Ok(floatBytes(kind, toFloat64(v)))
        BY <1>2, <2>8, EncodingOfKind
      <4> QED
        BY <2>2, <4>1, Zenon
    <3> QED
      BY <1>2, <2>3, <2>8, <3>1, FloatReadsBack
  <2>9. CASE kind = "decimal"
    <3>1. b = LittleEndian(toDecimal(v).scale, 2) \o twosComplementBytes(toDecimal(v).unscaled)
      <4>1. e = Ok(LittleEndian(toDecimal(v).scale, 2) \o twosComplementBytes(toDecimal(v).unscaled))
        BY <1>2, <2>9, EncodingOfKind
      <4> QED
        BY <2>2, <4>1, Zenon
    <3> QED
      BY <1>2, <2>3, <2>9, <3>1, DecimalReadsBack, Zenon
  <2>10. CASE kind = "timestamp"
    <3>1. IsTimestamp(b, v.sec, v.nsec)
      <4>1. e = Ok(LittleEndian(v.sec, 8) \o IF v.nsec # 0 THEN LittleEndian(v.nsec, 4) ELSE <<>>)
        BY <1>2, <2>10, EncodingOfKind
      <4> QED
        BY <2>2, <4>1, Zenon DEF IsTimestamp
    <3> QED
      BY <1>2, <2>3, <2>10, <3>1, TimestampReadsBack
  <2>11. CASE kind = "date"
    <3>1. b = ToBytes(encodeDate(v)) /\ DateInRange(v)
      <4>1. e = Ok(ToBytes(encodeDate(v))) /\ DateInRange(v)
        BY <1>2, <2>11, EncodingOfKind
      <4> QED
        BY <2>2, <4>1, Zenon
    <3> QED
      BY <1>2, <2>3, <2>11, <3>1, DateReadsBack
  <2>12. CASE kind = "time"
    <3>1. b = ToBytes(encodeTime(v))
      <4>1. e = Ok(ToBytes(encodeTime(v)))
        BY <1>2, <2>12, EncodingOfKind
      <4> QED
        BY <2>2, <4>1, Zenon
    <3> QED
      BY <1>2, <2>3, <2>12, <3>1, TimeReadsBack
  <2>13. CASE kind = "datetime"
    <3>1. b = ToBytes(encodeDate(v) \o encodeTime(v)) /\ DateInRange(v)
      <4>1. e = Ok(ToBytes(encodeDate(v) \o encodeTime(v))) /\ DateInRange(v)
        BY <1>2, <2>13, EncodingOfKind
      <4> QED
        BY <2>2, <4>1, Zenon
    <3> QED
      BY <1>2, <2>3, <2>13, <3>1, DateTimeReadsBack, Zenon
  <2>14. CASE kind = "uuid"
    <3>1. b = v.s
      <4>1. e = Ok(v.s)
        BY <1>2, <2>14, EncodingOfKind
      <4> QED
        BY <2>2, <4>1, Zenon
    <3>2. Len(b) # 0
      BY <2>4, <2>14
    <3>3. b # <<>>
      BY <3>2, NotEmpty, Zenon
    <3> QED
      BY <1>2, <2>3, <2>14, <3>1, <3>3, UuidReadsBack
  <2>15. CASE kind = "string"
    <3>1. b = MarkedEmpty(stringOf(v))
      <4>1. e = Ok(MarkedEmpty(stringOf(v)))
        BY <1>2, <2>15, EncodingOfKind
      <4> QED
        BY <2>2, <4>1, Zenon
    <3> QED
      BY <1>2, <2>15, <3>1, StringReadsBack
  <2>16. CASE kind = "bytes"
    <3>1. b = Marked(bytesOf(v))
      <4>1. e = Ok(Marked(bytesOf(v)))
        BY <1>2, <2>16, EncodingOfKind
      <4> QED
        BY <2>2, <4>1, Zenon
    <3> QED
      BY <1>2, <2>3, <2>16, <3>1, BytesReadsBack
  <2> QED
    BY <2>5, <2>6, <2>7, <2>8, <2>9, <2>10, <2>11, <2>12, <2>13, <2>14, <2>15, <2>16 DEF Kinds, IntKinds
<1> QED
  BY <1>1, <1>2

-----------------------------------------------------------------------------
(* The value area and its offsets                                          *)

\* Where element i begins, and its bytes.
Start(offs, i) == IF i = 1 THEN 0 ELSE offs[i - 1]
Cut(offs, area, i) == SubSeq(area, Start(offs, i) + 1, offs[i])

\* The offsets cut the area into consecutive elements, to its end.
Cuts(offs, area) ==
    /\ offs \in Seq(Nat) /\ area \in Seq(Bytes)
    /\ \A i \in 1..Len(offs) : /\ Start(offs, i) \in Nat /\ Start(offs, i) <= offs[i]
                               /\ offs[i] <= Len(area)
    /\ Start(offs, Len(offs) + 1) = Len(area)

\* Area c with offsets d is area with one more element, b.
OneMore(offs, area, b, d, c) ==
    /\ Cuts(d, c) /\ Len(d) = Len(offs) + 1
    /\ \A i \in 1..Len(offs) : Cut(d, c, i) = Cut(offs, area, i)
    /\ Cut(d, c, Len(offs) + 1) = b

\* An element that is appended does not move the others.
LEMMA CutAppends ==
    ASSUME NEW offs, NEW area, Cuts(offs, area), NEW b \in Seq(Bytes)
    PROVE  OneMore(offs, area, b, Append(offs, Len(area \o b)), area \o b)
<1> DEFINE n == Len(offs)
           c == area \o b
           d == Append(offs, Len(c))
<1>1. offs \in Seq(Nat) /\ area \in Seq(Bytes) /\ n \in Nat /\ Start(offs, n + 1) = Len(area)
  BY DEF Cuts
<1>2. \A i \in 1..n : Start(offs, i) \in Nat /\ Start(offs, i) <= offs[i] /\ offs[i] <= Len(area)
  BY DEF Cuts
<1>3. c \in Seq(Bytes) /\ Len(c) = Len(area) + Len(b) /\ Len(area) \in Nat /\ Len(b) \in Nat
  BY <1>1, ConcatFacts
<1>4. Len(c) \in Nat /\ Len(area) <= Len(c)
  BY <1>3
<1>5. /\ d \in Seq(Nat) /\ Len(d) = n + 1
      /\ \A i \in 1..n : d[i] = offs[i]
      /\ d[n + 1] = Len(c)
  BY <1>1, <1>4
<1> HIDE DEF n, c, d
<1>6. \A i \in 1..(n + 1) : Start(d, i) = Start(offs, i)
  <2> SUFFICES ASSUME NEW i \in 1..(n + 1) PROVE Start(d, i) = Start(offs, i)
    OBVIOUS
  <2>1. i = 1 \/ i - 1 \in 1..n
    BY <1>1
  <2> QED
    BY <1>5, <2>1 DEF Start
<1>7. Start(d, (n + 1) + 1) = Len(c)
  <2>1. (n + 1) + 1 # 1 /\ ((n + 1) + 1) - 1 = n + 1
    BY <1>1
  <2> QED
    BY <1>5, <2>1 DEF Start
<1>8. ASSUME NEW i \in 1..n
      PROVE  /\ Cut(d, c, i) = Cut(offs, area, i)
             /\ Start(d, i) \in Nat /\ Start(d, i) <= d[i] /\ d[i] <= Len(c)
  <2>1. i \in 1..(n + 1) /\ offs[i] \in Nat
    BY <1>1 DEF n
  <2>2. d[i] = offs[i] /\ Start(d, i) = Start(offs, i)
    BY <1>5, <1>6, <2>1
  <2>3. Start(offs, i) \in Nat /\ Start(offs, i) <= offs[i] /\ offs[i] <= Len(area)
    BY <1>2
  <2>4. SubSeq(area \o b, Start(offs, i) + 1, offs[i]) = SubSeq(area, Start(offs, i) + 1, offs[i])
    <3>1. area \in Seq(Bytes)
      BY <1>1
    <3>2. offs[i] \in Nat
      BY <2>1
    <3>3. \A x, y \in Nat : x <= y /\ y <= Len(area) => SubSeq(area \o b, x + 1, y) = SubSeq(area, x + 1, y)
      BY <3>1, PartOfConcat
    <3> QED
      BY <2>3, <3>2, <3>3
  <2>5. offs[i] <= Len(c)
    BY <1>3, <1>4, <2>1, <2>3
  <2> QED
    BY <2>2, <2>3, <2>4, <2>5 DEF Cut, c
<1>9. /\ Cut(d, c, n + 1) = b
      /\ Start(d, n + 1) \in Nat /\ Start(d, n + 1) <= d[n + 1] /\ d[n + 1] <= Len(c)
  <2>1. n + 1 \in 1..(n + 1)
    BY <1>1
  <2>2. Start(d, n + 1) = Len(area) /\ d[n + 1] = Len(c)
    BY <1>1, <1>5, <1>6, <2>1 DEF n
  <2>3. SubSeq(c, Len(area) + 1, Len(c)) = b
    BY <1>1, SuffixFacts DEF c
  <2>4. Len(area) \in Nat /\ Len(area) <= Len(c) /\ Len(c) <= Len(c)
    BY <1>3, <1>4
  <2>5. Cut(d, c, n + 1) = SubSeq(c, Len(area) + 1, Len(c))
    BY <2>2, Zenon DEF Cut
  <2> QED
    BY <2>2, <2>3, <2>4, <2>5
<1>10. \A i \in 1..(n + 1) : Start(d, i) \in Nat /\ Start(d, i) <= d[i] /\ d[i] <= Len(c)
  <2>1. \A i \in 1..(n + 1) : i \in 1..n \/ i = n + 1
    BY <1>1
  <2> QED
    BY <1>8, <1>9, <2>1
<1>11. Cuts(d, c)
  BY <1>3, <1>5, <1>7, <1>10 DEF Cuts
<1> QED
  BY <1>5, <1>8, <1>9, <1>11 DEF OneMore, n, c, d

-----------------------------------------------------------------------------
(* Header and offset table                                                 *)

\* The width of an offset holds every offset, and the header tells it.
LEMMA EntrySizeFacts ==
    ASSUME NEW n \in Nat, NEW size, size = EntrySize(n), size # 0
    PROVE  /\ size \in {1, 2, 4} /\ n < Power(Byte, size)
           /\ Header(size) \in Bytes /\ EntrySizeOf(Header(size)) = size
<1>1. Byte \in Nat /\ Byte >= 4 /\ Byte >= 2
  BY ByteFacts
<1>2. Power(Byte, 1) = Byte
  <2>1. 0 \in Nat /\ 0 + 1 = 1
    OBVIOUS
  <2>2. Power(Byte, 0) = 1 /\ Power(Byte, 0 + 1) = Byte * Power(Byte, 0)
    BY <1>1, <2>1, PowerUnfolds
  <2> QED
    BY <1>1, <2>1, <2>2
<1>3. Power(Byte, 2) \in Nat /\ Power(Byte, 4) \in Nat
  <2>1. 2 \in Nat /\ 4 \in Nat
    OBVIOUS
  <2> QED
    BY <1>1, <2>1, PowerGrows
<1> DEFINE p == Power(Byte, 2)
           q == Power(Byte, 4)
<1>4. /\ EntrySize(n) = 1 \/ EntrySize(n) = 2 \/ EntrySize(n) = 4
      /\ EntrySize(n) = 1 => n <= Byte - 1
      /\ EntrySize(n) = 2 => n <= p - 1
      /\ EntrySize(n) = 4 => n <= (q \div 2) - 1
  <2> HIDE DEF p, q
  <2>1. EntrySize(n) = CASE n <= Byte - 1 -> 1
                         [] n > Byte - 1 /\ n <= p - 1 -> 2
                         [] n > p - 1 /\ n <= q \div 2 - 1 -> 4
                         [] OTHER -> 0
    BY DEF EntrySize, p, q
  <2> QED
    BY <1>1, <1>3, <2>1 DEF p, q
<1>5. size = 1 => n < Power(Byte, size)
  BY <1>1, <1>2, <1>4
<1>6. size = 2 => n < Power(Byte, size)
  BY <1>3, <1>4
<1>7. size = 4 => n < Power(Byte, size)
  <2>1. (q \div 2) \in Nat /\ (q \div 2) <= q
    <3> HIDE DEF q
    <3> QED
      BY <1>3 DEF q
  <2> HIDE DEF q
  <2>2. size = 4 => n < q
    BY <1>3, <1>4, <2>1 DEF q
  <2> QED
    BY <2>2 DEF q
<1>8. Header(size) \in Bytes /\ EntrySizeOf(Header(size)) = size
  BY <1>1, <1>4 DEF Header, EntrySizeOf, Bytes
<1> QED
  BY <1>4, <1>5, <1>6, <1>7, <1>8

\* Which byte of the table is which byte of which offset.
LEMMA TablePlaces ==
    ASSUME NEW size \in {1, 2, 4}, NEW len \in Nat
    PROVE  /\ \A i \in 1..len : \A k \in 1..size :
                 /\ (i - 1) * size + k \in 1..(len * size)
                 /\ ((((i - 1) * size + k) - 1) \div size) + 1 = i
                 /\ ((((i - 1) * size + k) - 1) % size) + 1 = k
           /\ \A j \in 1..(len * size) : /\ ((j - 1) \div size) + 1 \in 1..len
                                         /\ ((j - 1) % size) + 1 \in 1..size
<1>1. CASE size = 1
  BY <1>1
<1>2. CASE size = 2
  BY <1>2
<1>3. CASE size = 4
  BY <1>3
<1> QED
  BY <1>1, <1>2, <1>3

\* The table holds the bytes of each offset in turn.
LEMMA TableFacts ==
    ASSUME offsets \in Seq(Nat), NEW size \in {1, 2, 4}
    PROVE  /\ OffsetTable(size) \in Seq(Bytes) /\ Len(OffsetTable(size)) = Len(offsets) * size
           /\ \A i \in 1..Len(offsets) : \A k \in 1..size :
                 OffsetTable(size)[(i - 1) * size + k] = LittleEndian(offsets[i], size)[k]
<1> DEFINE len == Len(offsets)
           t == OffsetTable(size)
           L(i) == LittleEndian(offsets[i], size)
<1>1. len \in Nat /\ size \in Nat /\ len * size \in Nat
  <2>1. len \in Nat /\ size \in Nat
    OBVIOUS
  <2> QED
    BY <2>1
<1>2. \A i \in 1..len : L(i) \in Seq(Bytes) /\ Len(L(i)) = size
  <2> SUFFICES ASSUME NEW i \in 1..len PROVE L(i) \in Seq(Bytes) /\ Len(L(i)) = size
    OBVIOUS
  <2>1. offsets[i] \in Int
    OBVIOUS
  <2> QED
    BY <1>1, <2>1, LittleEndianFacts
<1>3. t = [j \in 1..(len * size) |-> L(((j - 1) \div size) + 1)[((j - 1) % size) + 1]]
  BY DEF OffsetTable
<1> HIDE DEF len, t, L
<1>4. /\ \A i \in 1..len : \A k \in 1..size :
            /\ (i - 1) * size + k \in 1..(len * size)
            /\ ((((i - 1) * size + k) - 1) \div size) + 1 = i
            /\ ((((i - 1) * size + k) - 1) % size) + 1 = k
      /\ \A j \in 1..(len * size) : /\ ((j - 1) \div size) + 1 \in 1..len
                                    /\ ((j - 1) % size) + 1 \in 1..size
  BY <1>1, TablePlaces
<1>5. \A i \in 1..len : \A k \in 1..size : L(i)[k] \in Bytes
  <2> SUFFICES ASSUME NEW i \in 1..len, NEW k \in 1..size PROVE L(i)[k] \in Bytes
    OBVIOUS
  <2>1. L(i) \in Seq(Bytes) /\ Len(L(i)) = size
    BY <1>2
  <2> QED
    BY <1>1, <2>1, ElementOfSeq
<1>6. ASSUME NEW j \in 1..(len * size)
      PROVE  t[j] = L(((j - 1) \div size) + 1)[((j - 1) % size) + 1] /\ t[j] \in Bytes
  <2>1. t[j] = L(((j - 1) \div size) + 1)[((j - 1) % size) + 1]
    BY <1>3
  <2> QED
    BY <1>4, <1>5, <2>1
<1>7. t \in Seq(Bytes) /\ Len(t) = len * size
  <2>1. DOMAIN t = 1..(len * size)
    BY <1>3
  <2>2. t \in [1..(len * size) -> Bytes]
    BY <1>3, <1>6
  <2>3. ASSUME NEW n \in Nat, NEW s \in [1..n -> Bytes] PROVE s \in Seq(Bytes) /\ Len(s) = n
    OBVIOUS
  <2> QED
    BY <1>1, <2>2, <2>3
<1>8. \A i \in 1..len : \A k \in 1..size : t[(i - 1) * size + k] = L(i)[k]
  <2> SUFFICES ASSUME NEW i \in 1..len, NEW k \in 1..size PROVE t[(i - 1) * size + k] = L(i)[k]
    OBVIOUS
  <2> DEFINE j == (i - 1) * size + k
  <2>1. j \in 1..(len * size) /\ ((j - 1) \div size) + 1 = i /\ ((j - 1) % size) + 1 = k
    BY <1>4
  <2> HIDE DEF j
  <2>2. t[j] = L(((j - 1) \div size) + 1)[((j - 1) % size) + 1]
    BY <1>6, <2>1
  <2>3. t[j] = L(i)[k]
    BY <2>1, <2>2, Zenon
  <2> QED
    BY <2>3 DEF j
<1> QED
  BY <1>7, <1>8 DEF len, t, L

\* What is read of a tuple: each offset, and each element.
LEMMA Layout ==
    ASSUME Cuts(offsets, valueArea), NEW size \in {1, 2, 4}, Len(valueArea) < Power(Byte, size),
           Header(size) \in Bytes, EntrySizeOf(Header(size)) = size,
           cols \in Seq(Kinds), Len(cols) = Len(offsets),
           out = (<<Header(size)>> \o OffsetTable(size)) \o valueArea
    PROVE  /\ out \in Seq(Bytes) /\ EntrySizeOf(out[1]) = size
           /\ \A i \in 1..Len(offsets) : entryOffset(i, size) = offsets[i]
           /\ \A i \in 1..Len(offsets) : Element(i) = Cut(offsets, valueArea, i)
<1> DEFINE len == Len(offsets)
           h == <<Header(size)>>
           t == OffsetTable(size)
           f == h \o t
           base == 1 + len * size
<1>1. offsets \in Seq(Nat) /\ valueArea \in Seq(Bytes)
  BY DEF Cuts
<1>2. \A i \in 1..len : /\ Start(offsets, i) \in Nat /\ Start(offsets, i) <= offsets[i]
                        /\ offsets[i] <= Len(valueArea)
  BY DEF Cuts
<1>3. Start(offsets, len + 1) = Len(valueArea)
  BY DEF Cuts
<1>4. len \in Nat /\ size \in Nat /\ size >= 1 /\ Len(valueArea) \in Nat /\ \A i \in 1..len : offsets[i] \in Nat
  <2>1. len \in Nat /\ \A i \in 1..len : offsets[i] \in Nat
    BY <1>1, ElementOfSeq, LenProperties
  <2>2. Len(valueArea) \in Nat
    BY <1>1, LenProperties
  <2>3. size \in Nat /\ size >= 1
    OBVIOUS
  <2> QED
    BY <2>1, <2>2, <2>3
<1>5. len * size \in Nat /\ base \in Nat
  BY <1>4
<1>6. h \in Seq(Bytes) /\ Len(h) = 1 /\ h[1] = Header(size)
  BY SingleFacts
<1>7. /\ t \in Seq(Bytes) /\ Len(t) = len * size
      /\ \A i \in 1..len : \A k \in 1..size : t[(i - 1) * size + k] = LittleEndian(offsets[i], size)[k]
  BY <1>1, TableFacts
<1>8. out = f \o valueArea
  OBVIOUS
<1> HIDE DEF h, t
<1>9. /\ f \in Seq(Bytes) /\ Len(f) = Len(h) + Len(t)
      /\ \A i \in 1..Len(h) : f[i] = h[i]
      /\ \A i \in 1..Len(t) : f[Len(h) + i] = t[i]
  <2>1. h \in Seq(Bytes) /\ t \in Seq(Bytes)
    BY <1>6, <1>7
  <2> QED
    BY <2>1, ConcatFacts
<1> HIDE DEF f
<1>10. /\ out \in Seq(Bytes) /\ Len(out) = Len(f) + Len(valueArea)
       /\ \A i \in 1..Len(f) : out[i] = f[i]
  <2>1. f \in Seq(Bytes) /\ valueArea \in Seq(Bytes)
    BY <1>1, <1>9
  <2> DEFINE o == f \o valueArea
  <2>2. /\ o \in Seq(Bytes) /\ Len(o) = Len(f) + Len(valueArea)
        /\ \A i \in 1..Len(f) : o[i] = f[i]
    BY <2>1, ConcatFacts
  <2> HIDE DEF o
  <2>3. out = o
    BY <1>8 DEF o
  <2> QED
    BY <2>2, <2>3
<1> HIDE DEF len
<1>11. Len(f) = base /\ Len(out) - base = Len(valueArea) /\ base <= Len(out)
  <2>1. Len(f) = base
    BY <1>6, <1>7, <1>9
  <2> QED
    BY <1>4, <1>5, <1>10, <2>1
<1>12. EntrySizeOf(out[1]) = size
  <2>1. 1 \in 1..Len(f) /\ 1 \in 1..Len(h)
    BY <1>4, <1>5, <1>6, <1>11
  <2>2. out[1] = f[1] /\ f[1] = h[1]
    BY <1>9, <1>10, <2>1
  <2> QED
    BY <1>6, <2>2
<1>13. ASSUME NEW j \in 1..(len * size) PROVE out[1 + j] = t[j]
  <2>1. j \in 1..Len(t) /\ 1 + j \in 1..Len(f)
    BY <1>4, <1>5, <1>7, <1>11
  <2>2. f[Len(h) + j] = t[j] /\ Len(h) + j = 1 + j
    BY <1>6, <1>9, <2>1
  <2> QED
    BY <1>10, <2>1, <2>2
<1>14. ASSUME NEW i \in 1..len PROVE entryOffset(i, size) = offsets[i]
  <2> DEFINE m == 1 + (i - 1) * size
             n == 1 + i * size
             L == LittleEndian(offsets[i], size)
             s == SubSeq(out, m + 1, n)
  <2>1. m \in Nat /\ n \in Nat /\ m <= n /\ n <= base /\ n - m = size /\ m + 1 = 2 + (i - 1) * size
    <3>1. CASE size = 1
      BY <1>4, <3>1
    <3>2. CASE size = 2
      BY <1>4, <3>2
    <3>3. CASE size = 4
      BY <1>4, <3>3
    <3> QED
      BY <3>1, <3>2, <3>3
  <2>2. \A k \in 1..size : (i - 1) * size + k \in 1..(len * size) /\ m + k = 1 + ((i - 1) * size + k)
    <3>1. \A k \in 1..size : (i - 1) * size + k \in 1..(len * size)
      BY <1>4, TablePlaces
    <3>2. (i - 1) * size \in Int
      BY <1>4
    <3>3. ASSUME NEW x \in Int, NEW k \in Int PROVE (1 + x) + k = 1 + (x + k)
      OBVIOUS
    <3> QED
      BY <1>4, <3>1, <3>2, <3>3
  <2>3. offsets[i] \in Nat /\ offsets[i] < Power(Byte, size)
    <3>1. Byte \in Nat /\ Byte >= 2
      BY ByteFacts
    <3>2. Power(Byte, size) \in Nat
      BY <1>4, <3>1, PowerGrows
    <3> QED
      BY <1>2, <1>4, <3>2
  <2>4. L \in Seq(Bytes) /\ Len(L) = size
    <3>1. offsets[i] \in Int /\ size \in Nat
      BY <1>4, <2>3
    <3> QED
      BY <3>1, LittleEndianFacts
  <2>5. \A k \in 1..size : t[(i - 1) * size + k] = L[k]
    BY <1>7
  <2> HIDE DEF m, n, L
  <2>6. s \in Seq(Bytes) /\ Len(s) = n - m /\ \A k \in 1..(n - m) : s[k] = out[m + k]
    <3>1. out \in Seq(Bytes) /\ m \in Nat /\ n \in Nat /\ m <= n
      BY <1>10, <2>1
    <3>2. n <= Len(out)
      BY <1>5, <1>10, <1>11, <2>1, <3>1
    <3> QED
      BY <3>1, <3>2, PartFacts
  <2>7. ASSUME NEW k \in 1..size PROVE s[k] = L[k]
    <3>1. s[k] = out[m + k]
      BY <2>1, <2>6
    <3>2. out[1 + ((i - 1) * size + k)] = t[(i - 1) * size + k]
      BY <1>13, <2>2
    <3> QED
      BY <2>2, <2>5, <3>1, <3>2
  <2> HIDE DEF s
  <2>8. s = L
    <3>1. Len(s) = size
      BY <2>1, <2>6
    <3> QED
      BY <2>4, <2>6, <2>7, <3>1, SeqEqual
  <2>9. Unsigned(Reversed(L)) = offsets[i]
    <3>1. Byte \in Nat /\ Byte >= 2
      BY ByteFacts
    <3>2. Value(Reversed(Digits(offsets[i], Byte, size)), Byte) = offsets[i]
      BY <1>4, <2>3, <3>1, DigitsRoundTrip
    <3> QED
      BY <3>2 DEF Unsigned, LittleEndian, L
  <2>10. entryOffset(i, size) = Unsigned(Reversed(s))
    <3>1. i # 0
      BY <1>4
    <3>2. s = SubSeq(out, 2 + (i - 1) * size, 1 + i * size)
      BY <2>1 DEF s, n
    <3> QED
      BY <3>1, <3>2 DEF entryOffset
  <2> QED
    BY <2>8, <2>9, <2>10
<1>15. ASSUME NEW i \in 1..len PROVE Element(i) = Cut(offsets, valueArea, i)
  <2> DEFINE begin == Start(offsets, i)
             end == offsets[i]
  <2>1. begin \in Nat /\ end \in Nat /\ begin <= end /\ end <= Len(valueArea)
    BY <1>2, <1>4
  <2>2. entryOffset(i - 1, size) = begin
    <3>1. CASE i = 1
      <4>1. i - 1 = 0
        BY <3>1
      <4> QED
        BY <3>1, <4>1 DEF entryOffset, Start
    <3>2. CASE i # 1
      <4>1. i - 1 \in 1..len
        BY <1>4, <3>2
      <4>2. entryOffset(i - 1, size) = offsets[i - 1]
        BY <1>14, <4>1
      <4> QED
        BY <3>2, <4>2 DEF Start
    <3> QED
      BY <3>1, <3>2
  <2>3. (IF i = Len(cols) THEN Len(out) - base ELSE entryOffset(i, size)) = end
    <3>1. CASE i = Len(cols)
      <4>1. i = len /\ len + 1 # 1 /\ (len + 1) - 1 = len
        BY <1>4, <3>1 DEF len
      <4>2. Len(valueArea) = end
        BY <1>3, <4>1 DEF Start
      <4> QED
        BY <1>11, <3>1, <4>2
    <3>2. CASE i # Len(cols)
      BY <1>14, <3>2
    <3> QED
      BY <3>1, <3>2
  <2> HIDE DEF begin, end, base
  <2>4. Element(i) = SubSeq(out, base + begin + 1, base + end)
    <3>1. 1 + Len(cols) * size = base
      BY DEF base, len
    <3> QED
      BY <1>12, <2>2, <2>3, <3>1 DEF Element
  <2>5. SubSeq(f \o valueArea, Len(f) + begin + 1, Len(f) + end) = SubSeq(valueArea, begin + 1, end)
    <3>1. f \in Seq(Bytes) /\ valueArea \in Seq(Bytes)
      BY <1>1, <1>9
    <3> QED
      BY <2>1, <3>1, PartOfConcat
  <2> QED
    BY <1>8, <1>11, <2>4, <2>5 DEF Cut, begin, end
<1> QED
  BY <1>10, <1>12, <1>14, <1>15 DEF len

-----------------------------------------------------------------------------
(* The inductive invariant                                                 *)

AnyValue == UNION {UserValues(kind) : kind \in Kinds}

\* Bytes b are what the encoder makes of value v.
Written(kind, v, b) ==
    /\ v \in UserValues(kind) /\ Formatted(v)
    /\ appendBinaryTupleValue(kind, v).ok /\ b = appendBinaryTupleValue(kind, v).bytes

\* The columns have values to take.
ColumnsInv ==
    /\ cols \in Seq(Kinds) /\ Len(cols) \in 1..MaxCols
    /\ \A i \in 1..Len(cols) : cols[i] \in DOMAIN Values[Len(cols)]

\* Element i of the value area is the encoding of value i, and no byte is
\* outside an element.
AreaInv ==
    /\ vals \in Seq(AnyValue) /\ Len(vals) <= Len(cols) /\ Len(offsets) = Len(vals)
    /\ Cuts(offsets, valueArea)
    /\ \A i \in 1..Len(vals) : Written(cols[i], vals[i], Cut(offsets, valueArea, i))

\* A tuple is put together from a complete row.
OutInv ==
    /\ phase \in {"build", "failed", "built", "read"}
    /\ IF phase \in {"built", "read"}
       THEN /\ Len(vals) = Len(cols) /\ EntrySize(Len(valueArea)) # 0
            /\ out = (<<Header(EntrySize(Len(valueArea)))>> \o OffsetTable(EntrySize(Len(valueArea))))
                       \o valueArea
       ELSE out = <<>>

TupleInv == ColumnsInv /\ AreaInv /\ OutInv

\* A value the user passes for a column.
LEMMA PassedFacts ==
    ASSUME ColumnsInv, NEW i \in 1..Len(cols), NEW v \in Values[Len(cols)][cols[i]]
    PROVE  cols[i] \in Kinds /\ v \in UserValues(cols[i]) /\ Formatted(v)
<1>1. Len(cols) \in 1..MaxCols /\ cols[i] \in DOMAIN Values[Len(cols)] /\ cols \in Seq(Kinds)
  BY DEF ColumnsInv
<1>2. cols[i] \in Kinds
  BY <1>1, ElementOfSeq
<1> QED
  BY <1>1, <1>2, ValuesAssumption, Zenon DEF Formatted

\* It holds of an empty tuple.
LEMMA TupleInvInit == Init => TupleInv
<1> SUFFICES ASSUME Init PROVE TupleInv
  OBVIOUS
<1>1. PICK len \in 1..MaxCols : cols \in [1..len -> DOMAIN Values[len]]
  BY DEF Init
<1>2. len \in Nat /\ DOMAIN Values[len] \subseteq Kinds
  BY <1>1, ColsAssumption, ValuesAssumption
<1>3. ColumnsInv
  <2>1. cols \in Seq(DOMAIN Values[len]) /\ Len(cols) = len
    <3> DEFINE D == DOMAIN Values[len]
    <3>1. cols \in [1..len -> D]
      BY <1>1
    <3> HIDE DEF D
    <3>2. cols \in Seq(D) /\ Len(cols) = len
      BY <1>2, <3>1
    <3> QED
      BY <3>2 DEF D
  <2>2. \A i \in 1..len : cols[i] \in DOMAIN Values[len]
    BY <1>1
  <2>3. cols \in [1..len -> Kinds]
    BY <1>1, <1>2
  <2>4. cols \in Seq(Kinds)
    BY <1>2, <2>3
  <2> QED
    BY <1>1, <2>1, <2>2, <2>4 DEF ColumnsInv
<1>4. vals = <<>> /\ valueArea = <<>> /\ offsets = <<>> /\ out = <<>> /\ phase = "build"
  BY DEF Init
<1>5. AreaInv
  <2>1. Len(vals) = 0 /\ Len(offsets) = 0 /\ Len(valueArea) = 0
    BY <1>4
  <2>2. Cuts(offsets, valueArea)
    <3>1. offsets \in Seq(Nat) /\ valueArea \in Seq(Bytes)
      BY <1>4
    <3>2. Start(offsets, 0 + 1) = 0
      BY DEF Start
    <3> QED
      BY <2>1, <3>1, <3>2 DEF Cuts
  <2>3. vals \in Seq(AnyValue)
    BY <1>4
  <2>4. 0 <= Len(cols)
    BY <1>3 DEF ColumnsInv
  <2> QED
    BY <2>1, <2>2, <2>3, <2>4 DEF AreaInv
<1>6. OutInv
  BY <1>4 DEF OutInv
<1> QED
  BY <1>3, <1>5, <1>6 DEF TupleInv

\* Every step keeps it.
LEMMA TupleInvNext == TupleInv /\ [Next]_vars => TupleInv'
<1> SUFFICES ASSUME TupleInv, [Next]_vars PROVE TupleInv'
  OBVIOUS
<1>1. ColumnsInv /\ AreaInv /\ OutInv
  BY DEF TupleInv
<1>2. CASE AppendValue
  <2> DEFINE n == Len(vals)
  <2>1. phase = "build" /\ n < Len(cols) /\ cols' = cols /\ out' = out
    BY <1>2 DEF AppendValue
  <2>2. ColumnsInv'
    BY <1>1, <2>1 DEF ColumnsInv
  <2>3. PICK v \in Values[Len(cols)][cols[n + 1]] :
          LET e == appendBinaryTupleValue(cols[n + 1], v)
          IN  \/ /\ e.ok
                 /\ vals' = Append(vals, v)
                 /\ valueArea' = valueArea \o e.bytes
                 /\ offsets' = Append(offsets, Len(valueArea \o e.bytes))
                 /\ UNCHANGED phase
              \/ /\ ~e.ok
                 /\ phase' = "failed"
                 /\ UNCHANGED <<vals, valueArea, offsets>>
    BY <1>2 DEF AppendValue
  <2> DEFINE kind == cols[n + 1]
             e == appendBinaryTupleValue(kind, v)
  <2>4. n \in Nat /\ Len(cols) \in Nat /\ n + 1 \in 1..Len(cols)
    <3>1. n \in Nat /\ Len(cols) \in Nat
      BY <1>1, LenProperties DEF AreaInv, ColumnsInv
    <3> QED
      BY <2>1, <3>1
  <2>5. kind \in Kinds /\ v \in UserValues(kind) /\ Formatted(v)
    BY <1>1, <2>4, PassedFacts
  <2>6. out = <<>>
    BY <1>1, <2>1 DEF OutInv
  <2>7. CASE ~e.ok
    <3>1. phase' = "failed" /\ vals' = vals /\ valueArea' = valueArea /\ offsets' = offsets
      BY <2>3, <2>7
    <3>2. AreaInv'
      BY <1>1, <2>1, <3>1 DEF AreaInv
    <3>3. OutInv'
      BY <2>1, <2>6, <3>1 DEF OutInv
    <3> QED
      BY <2>2, <3>2, <3>3 DEF TupleInv
  <2>8. CASE e.ok
    <3> DEFINE b == e.bytes
    <3>1. /\ vals' = Append(vals, v) /\ valueArea' = valueArea \o b
          /\ offsets' = Append(offsets, Len(valueArea \o b)) /\ phase' = phase
      BY <2>3, <2>8
    <3>2. Encoded(kind, v, b)
      BY <2>5, <2>8, EncodedBytes
    <3>3. b \in Seq(Bytes)
      BY <3>2 DEF Encoded
    <3>4. Written(kind, v, b)
      BY <2>5, <2>8 DEF Written
    <3> HIDE DEF e, b, n
    <3>5. /\ vals \in Seq(AnyValue) /\ Len(offsets) = n /\ Len(vals) = n
          /\ Cuts(offsets, valueArea)
          /\ \A i \in 1..n : Written(cols[i], vals[i], Cut(offsets, valueArea, i))
      BY <1>1 DEF AreaInv, n
    <3>6. /\ Cuts(offsets', valueArea') /\ Len(offsets') = n + 1
          /\ \A i \in 1..n : Cut(offsets', valueArea', i) = Cut(offsets, valueArea, i)
          /\ Cut(offsets', valueArea', n + 1) = b
      <4>1. offsets' = Append(offsets, Len(valueArea'))
        BY <3>1
      <4>2. valueArea' = valueArea \o b /\ Cuts(offsets, valueArea)
        BY <3>1, <3>5
      <4>3. OneMore(offsets, valueArea, b, Append(offsets, Len(valueArea \o b)), valueArea \o b)
        BY <3>3, <4>2, CutAppends
      <4>4. OneMore(offsets, valueArea, b, offsets', valueArea')
        BY <4>1, <4>2, <4>3
      <4> QED
        BY <3>5, <4>4 DEF OneMore
    <3>7. v \in AnyValue
      BY <2>5 DEF AnyValue
    <3>8. /\ vals' \in Seq(AnyValue) /\ Len(vals') = n + 1 /\ vals'[n + 1] = v
          /\ \A i \in 1..n : vals'[i] = vals[i]
      <4> HIDE DEF kind
      <4> QED
        BY <3>1, <3>5, <3>7, AppendProperties
    <3>9. ASSUME NEW i \in 1..(n + 1) PROVE Written(cols[i], vals'[i], Cut(offsets', valueArea', i))
      <4>1. i \in 1..n \/ i = n + 1
        BY <2>4 DEF n
      <4>2. CASE i \in 1..n
        BY <3>5, <3>6, <3>8, <4>2
      <4>3. CASE i = n + 1
        BY <3>4, <3>6, <3>8, <4>3
      <4> QED
        BY <4>1, <4>2, <4>3
    <3>10. AreaInv'
      <4>1. Len(vals') <= Len(cols')
        BY <2>1, <2>4, <3>8 DEF n
      <4> QED
        BY <2>1, <3>6, <3>8, <3>9, <4>1 DEF AreaInv
    <3>11. OutInv'
      BY <2>1, <2>6, <3>1 DEF OutInv
    <3> QED
      BY <2>2, <3>10, <3>11 DEF TupleInv
  <2> QED
    BY <2>7, <2>8
<1>3. CASE Build
  <2> DEFINE size == EntrySize(Len(valueArea))
  <2>1. /\ phase = "build" /\ Len(vals) = Len(cols)
        /\ cols' = cols /\ vals' = vals /\ valueArea' = valueArea /\ offsets' = offsets
    BY <1>3 DEF Build
  <2>2. IF size = 0 THEN phase' = "failed" /\ out' = out
        ELSE phase' = "built" /\ out' = <<Header(size)>> \o OffsetTable(size) \o valueArea
    BY <1>3 DEF Build
  <2>3. ColumnsInv' /\ AreaInv'
    BY <1>1, <2>1 DEF ColumnsInv, AreaInv
  <2>4. OutInv'
    <3>1. CASE size = 0
      BY <1>1, <2>1, <2>2, <3>1 DEF OutInv
    <3>2. CASE size # 0
      <4>1. OffsetTable(size)' = OffsetTable(size)
        BY <2>1 DEF OffsetTable
      <4> QED
        BY <2>1, <2>2, <3>2, <4>1 DEF OutInv
    <3> QED
      BY <3>1, <3>2
  <2> QED
    BY <2>3, <2>4 DEF TupleInv
<1>4. CASE ReadBack
  <2>1. /\ phase = "built" /\ phase' = "read" /\ out' = out
        /\ cols' = cols /\ vals' = vals /\ valueArea' = valueArea /\ offsets' = offsets
    BY <1>4 DEF ReadBack
  <2>2. ColumnsInv' /\ AreaInv'
    BY <1>1, <2>1 DEF ColumnsInv, AreaInv
  <2>3. OutInv'
    <3>1. OffsetTable(EntrySize(Len(valueArea)))' = OffsetTable(EntrySize(Len(valueArea)))
      BY <2>1 DEF OffsetTable
    <3> QED
      BY <1>1, <2>1, <3>1 DEF OutInv
  <2> QED
    BY <2>2, <2>3 DEF TupleInv
<1>5. CASE UNCHANGED vars
  <2>1. /\ phase' = phase /\ out' = out
        /\ cols' = cols /\ vals' = vals /\ valueArea' = valueArea /\ offsets' = offsets
    BY <1>5 DEF vars
  <2>2. ColumnsInv' /\ AreaInv'
    BY <1>1, <2>1 DEF ColumnsInv, AreaInv
  <2>3. OutInv'
    <3>1. OffsetTable(EntrySize(Len(valueArea)))' = OffsetTable(EntrySize(Len(valueArea)))
      BY <2>1 DEF OffsetTable
    <3> QED
      BY <1>1, <2>1, <3>1 DEF OutInv
  <2> QED
    BY <2>2, <2>3 DEF TupleInv
<1> QED
  BY <1>2, <1>3, <1>4, <1>5 DEF Next

-----------------------------------------------------------------------------
(* What follows from it                                                    *)

\* The parts of a row written so far.
LEMMA RowFacts ==
    ASSUME TupleInv
    PROVE  /\ Len(cols) \in Nat /\ DOMAIN cols = 1..Len(cols) /\ \A i \in 1..Len(cols) : cols[i] \in Kinds
           /\ Len(vals) \in Nat /\ DOMAIN vals = 1..Len(vals) /\ Len(vals) <= Len(cols)
           /\ Len(offsets) = Len(vals) /\ DOMAIN offsets = 1..Len(offsets)
           /\ Cuts(offsets, valueArea) /\ Len(valueArea) \in Nat
           /\ \A i \in 1..Len(vals) : Written(cols[i], vals[i], Cut(offsets, valueArea, i))
<1>1. ColumnsInv /\ AreaInv
  BY DEF TupleInv
<1>2. cols \in Seq(Kinds)
  BY <1>1 DEF ColumnsInv
<1>3. /\ vals \in Seq(AnyValue) /\ Len(vals) <= Len(cols) /\ Len(offsets) = Len(vals)
      /\ Cuts(offsets, valueArea)
      /\ \A i \in 1..Len(vals) : Written(cols[i], vals[i], Cut(offsets, valueArea, i))
  BY <1>1 DEF AreaInv
<1>4. offsets \in Seq(Nat) /\ valueArea \in Seq(Bytes)
  BY <1>3 DEF Cuts
<1>5. Len(cols) \in Nat /\ DOMAIN cols = 1..Len(cols) /\ \A i \in 1..Len(cols) : cols[i] \in Kinds
  BY <1>2, LenProperties, ElementOfSeq
<1>6. Len(vals) \in Nat /\ DOMAIN vals = 1..Len(vals)
  BY <1>3, LenProperties
<1>7. DOMAIN offsets = 1..Len(offsets) /\ Len(valueArea) \in Nat
  BY <1>4, LenProperties
<1> QED
  BY <1>3, <1>5, <1>6, <1>7

\* A tuple that has been built is read as the elements it was built from.
LEMMA BuiltFacts ==
    ASSUME TupleInv, phase \in {"built", "read"}
    PROVE  /\ Len(vals) = Len(cols) /\ out \in Seq(Bytes)
           /\ \A i \in 1..Len(cols) : entryOffset(i, EntrySizeOf(out[1])) = offsets[i]
           /\ \A i \in 1..Len(cols) : /\ Encoded(cols[i], vals[i], Element(i))
                                      /\ Written(cols[i], vals[i], Element(i))
                                      /\ \A p : ReadsBack(cols[i], p, vals[i], Element(i))
<1> DEFINE size == EntrySize(Len(valueArea))
<1>1. /\ Len(vals) = Len(cols) /\ size # 0
      /\ out = (<<Header(size)>> \o OffsetTable(size)) \o valueArea
  BY DEF TupleInv, OutInv
<1>2. /\ Len(offsets) = Len(cols) /\ Cuts(offsets, valueArea) /\ Len(valueArea) \in Nat
  BY <1>1, RowFacts, Zenon
<1>3. cols \in Seq(Kinds)
  BY DEF TupleInv, ColumnsInv
<1>4. /\ size \in {1, 2, 4} /\ Len(valueArea) < Power(Byte, size)
      /\ Header(size) \in Bytes /\ EntrySizeOf(Header(size)) = size
  BY <1>1, <1>2, EntrySizeFacts
<1> HIDE DEF size
<1>5. /\ out \in Seq(Bytes) /\ EntrySizeOf(out[1]) = size
      /\ \A i \in 1..Len(offsets) : entryOffset(i, size) = offsets[i]
      /\ \A i \in 1..Len(offsets) : Element(i) = Cut(offsets, valueArea, i)
  BY <1>1, <1>2, <1>3, <1>4, Layout
<1>6. ASSUME NEW i \in 1..Len(cols)
      PROVE  /\ Encoded(cols[i], vals[i], Element(i))
             /\ Written(cols[i], vals[i], Element(i))
             /\ \A p : ReadsBack(cols[i], p, vals[i], Element(i))
  <2>1. cols[i] \in Kinds /\ Written(cols[i], vals[i], Cut(offsets, valueArea, i))
    BY <1>1, RowFacts
  <2>2. Element(i) = Cut(offsets, valueArea, i)
    BY <1>2, <1>5
  <2> DEFINE e == appendBinaryTupleValue(cols[i], vals[i])
  <2>3. vals[i] \in UserValues(cols[i]) /\ Formatted(vals[i]) /\ e.ok /\ Element(i) = e.bytes
    BY <2>1, <2>2 DEF Written
  <2>4. Encoded(cols[i], vals[i], e.bytes)
    BY <2>1, <2>3, EncodedBytes
  <2>5. \A p : ReadsBack(cols[i], p, vals[i], e.bytes)
    BY <2>1, <2>3, ValueReadsBack
  <2> QED
    BY <2>1, <2>2, <2>3, <2>4, <2>5
<1> QED
  BY <1>1, <1>2, <1>5, <1>6

\* Everything has its type.
LEMMA TypesFollow == TupleInv => TypeOK
<1> SUFFICES ASSUME TupleInv PROVE TypeOK
  OBVIOUS
<1>1. phase \in {"build", "failed", "built", "read"} /\ (phase \notin {"built", "read"} => out = <<>>)
  BY DEF TupleInv, OutInv
<1>2. out \in Seq(Bytes)
  <2>1. CASE phase \in {"built", "read"}
    BY <2>1, BuiltFacts
  <2>2. CASE phase \notin {"built", "read"}
    BY <1>1, <2>2
  <2> QED
    BY <2>1, <2>2
<1>3. Len(cols) \in 1..MaxCols
  BY DEF TupleInv, ColumnsInv
<1>4. \A i \in DOMAIN cols : cols[i] \in Kinds
  BY RowFacts
<1>5. Len(vals) <= Len(cols) /\ Cuts(offsets, valueArea)
  BY RowFacts
<1>6. offsets \in Seq(Nat) /\ valueArea \in Seq(Bytes)
  BY <1>5 DEF Cuts
<1>7. ASSUME NEW T, NEW s \in Seq(T) PROVE \A i \in DOMAIN s : s[i] \in T
  OBVIOUS
<1>8. \A i \in DOMAIN valueArea : valueArea[i] \in Bytes
  BY <1>6, <1>7
<1>9. \A i \in DOMAIN offsets : offsets[i] \in Nat
  BY <1>6, <1>7
<1>10. \A i \in DOMAIN out : out[i] \in Bytes
  BY <1>2, <1>7
<1> QED
  BY <1>1, <1>3, <1>4, <1>5, <1>8, <1>9, <1>10 DEF TypeOK

\* The offsets are the ends of the elements.
LEMMA OffsetsFollow == TupleInv => OffsetsDelimitElements
<1> SUFFICES ASSUME TupleInv PROVE OffsetsDelimitElements
  OBVIOUS
<1> DEFINE n == Len(offsets)
<1>1. Len(offsets) = Len(vals) /\ n \in Nat /\ Cuts(offsets, valueArea) /\ DOMAIN cols = 1..Len(cols)
  BY RowFacts, Zenon
<1>2. /\ offsets \in Seq(Nat)
      /\ \A i \in 1..n : Start(offsets, i) <= offsets[i]
      /\ Start(offsets, n + 1) = Len(valueArea)
  BY <1>1 DEF Cuts
<1>3. ASSUME NEW i \in 1..(n - 1) PROVE offsets[i] <= offsets[i + 1]
  <2>1. i + 1 \in 1..n /\ i + 1 # 1 /\ (i + 1) - 1 = i
    BY <1>1
  <2>2. Start(offsets, i + 1) <= offsets[i + 1]
    BY <1>2, <2>1
  <2> QED
    BY <2>1, <2>2 DEF Start
<1>4. offsets # <<>> => offsets[n] = Len(valueArea)
  <2> SUFFICES ASSUME offsets # <<>> PROVE offsets[n] = Len(valueArea)
    OBVIOUS
  <2>1. n # 0
    BY <1>2, EmptySeq
  <2>2. n + 1 # 1 /\ (n + 1) - 1 = n
    BY <1>1, <2>1
  <2> QED
    BY <1>2, <2>2 DEF Start
<1>5. phase = "built" => \A i \in 1..Len(cols) : entryOffset(i, EntrySizeOf(out[1])) = offsets[i]
  BY BuiltFacts
<1> QED
  BY <1>1, <1>3, <1>4, <1>5 DEF OffsetsDelimitElements

\* Only nil has no bytes.
LEMMA EmptyFollows == TupleInv => OnlyNullIsEmpty
<1> SUFFICES ASSUME TupleInv, phase = "built", NEW i \in DOMAIN cols, cols[i] # "null"
             PROVE  Element(i) = <<>> <=> vals[i] = Nil
  BY DEF OnlyNullIsEmpty
<1>1. i \in 1..Len(cols)
  BY RowFacts
<1>2. Encoded(cols[i], vals[i], Element(i))
  BY <1>1, BuiltFacts
<1>3. (vals[i] = Nil => Element(i) = <<>>) /\ (vals[i] # Nil => Len(Element(i)) >= 1)
  BY <1>2 DEF Encoded
<1>4. ASSUME NEW b, b = <<>> PROVE Len(b) = 0
  BY <1>4
<1>5. Element(i) = <<>> => Len(Element(i)) = 0
  BY <1>4
<1> QED
  BY <1>3, <1>5

\* A decimal has its shortest form.
LEMMA MinimalFollows == TupleInv => DecimalsAreMinimal
<1> SUFFICES ASSUME TupleInv, phase = "built", NEW i \in DOMAIN cols, cols[i] = "decimal", vals[i] # Nil
             PROVE  LET b == SubSeq(Element(i), 3, Len(Element(i)))
                    IN  /\ b # <<>>
                        /\ Len(b) > 1 => ~(b[1] = 0 /\ b[2] < SignBit) /\ ~Redundant(b, 1)
  BY DEF DecimalsAreMinimal
<1>1. i \in 1..Len(cols)
  BY RowFacts
<1>2. Encoded(cols[i], vals[i], Element(i))
  BY <1>1, BuiltFacts
<1> DEFINE b == SubSeq(Element(i), 3, Len(Element(i)))
<1>3. Minimal(b)
  BY <1>2 DEF Encoded
<1> HIDE DEF b
<1>4. b # <<>> /\ (Len(b) > 1 => ~(b[1] = 0 /\ b[2] < SignBit) /\ ~Redundant(b, 1))
  BY <1>3 DEF Minimal
<1> QED
  BY <1>4 DEF b

\* An integer that is accepted is kept, and its bytes are it.
LEMMA IntegersFollow == TupleInv => NoIntegerIsTruncated
<1> SUFFICES ASSUME TupleInv, NEW i \in DOMAIN vals, cols[i] \in IntKinds, vals[i] # Nil,
                    ~Dropped(cols[i], vals[i]),
                    NEW n, n = IF vals[i].type = "float" THEN vals[i].tenths \div 10 ELSE vals[i].n
             PROVE  /\ Fits(n, Widest(cols[i]))
                    /\ phase \in {"built", "read"} => Signed(Reversed(Element(i))) = n
  BY DEF NoIntegerIsTruncated, IntKinds, Widest
<1>1. i \in 1..Len(vals) /\ i \in 1..Len(cols)
  <2>1. i \in 1..Len(vals) /\ Len(vals) \in Nat /\ Len(cols) \in Nat /\ Len(vals) <= Len(cols)
    BY RowFacts
  <2> QED
    BY <2>1
<1> DEFINE e == appendBinaryTupleValue(cols[i], vals[i])
<1>2. vals[i] \in UserValues(cols[i]) /\ e.ok
  BY <1>1, RowFacts DEF Written
<1>3. Fits(n, Widest(cols[i])) /\ Signed(Reversed(e.bytes)) = n
  <2> HIDE DEF e
  <2> QED
    BY <1>2, IntegerKept DEF e
<1>4. phase \in {"built", "read"} => Element(i) = e.bytes
  BY <1>1, BuiltFacts DEF Written
<1> QED
  BY <1>3, <1>4

\* Reading a tuple is the step that could fail ReadsBackTheSame.
LEMMA ReadsBackNext == TupleInv /\ ReadsBackTheSame /\ [Next]_vars => ReadsBackTheSame'
<1> SUFFICES ASSUME TupleInv, ReadsBackTheSame, [Next]_vars PROVE ReadsBackTheSame'
  OBVIOUS
<1>1. CASE AppendValue
  <2>1. phase' # "read"
    BY <1>1 DEF AppendValue
  <2> QED
    BY <2>1 DEF ReadsBackTheSame
<1>2. CASE Build
  <2>1. phase' # "read"
    BY <1>2 DEF Build
  <2> QED
    BY <2>1 DEF ReadsBackTheSame
<1>3. CASE ReadBack
  <2>1. /\ phase = "built" /\ cols' = cols /\ precision' = precision /\ vals' = vals
        /\ read' = [i \in DOMAIN cols |->
                      NextValue(cols[i], precision, FromServer(cols[i], precision, Element(i)))]
    BY <1>3 DEF ReadBack
  <2>2. ASSUME NEW i \in DOMAIN cols
        PROVE  ~LeftOut(cols[i], vals[i]) =>
                   (read'[i] = Meaning(cols[i], precision, vals[i]) <=> ~Exceptional(cols[i], precision, vals[i]))
    <3>1. i \in 1..Len(cols)
      BY RowFacts
    <3>2. ReadsBack(cols[i], precision, vals[i], Element(i))
      BY <2>1, <3>1, BuiltFacts
    <3>3. read'[i] = NextValue(cols[i], precision, FromServer(cols[i], precision, Element(i)))
      BY <2>1
    <3> QED
      BY <3>2, <3>3, Zenon DEF ReadsBack, Differs
  <2> QED
    BY <2>1, <2>2, Zenon DEF ReadsBackTheSame
<1>4. CASE UNCHANGED vars
  BY <1>4 DEF vars, ReadsBackTheSame
<1> QED
  BY <1>1, <1>2, <1>3, <1>4 DEF Next

\* TupleInv is an invariant.
LEMMA TupleInvAlways == Spec => []TupleInv
<1> QED
  BY TupleInvInit, TupleInvNext, PTL DEF Spec

-----------------------------------------------------------------------------
(* Theorems                                                                *)

\* The tuple and all its parts are bytes, whatever the values and the number
\* of columns (BuildBinaryTuple).
THEOREM TupleTypes == Spec => []TypeOK
BY TupleInvAlways, TypesFollow, PTL

\* For rows of any number of columns and values of any length, the offset
\* table delimits the elements without gap or overlap and its entries are
\* read back whole, in whichever of the three widths the header announces
\* (BuildBinaryTuple, NewTupleFromByteArrayWithMetadata).
THEOREM TupleOffsets == Spec => []OffsetsDelimitElements
BY TupleInvAlways, OffsetsFollow, PTL

\* Zero length means NULL and nothing else does, for every type of column and
\* every value the user can pass (appendBinaryTupleValue).
THEOREM TupleNulls == Spec => []OnlyNullIsEmpty
BY TupleInvAlways, EmptyFollows, PTL

\* Every decimal, of any magnitude and sign, is written in the shortest
\* two's-complement form (twosComplementBytes).
THEOREM TupleDecimals == Spec => []DecimalsAreMinimal
BY TupleInvAlways, MinimalFollows, PTL

\* A number that is accepted for an integer column fits it and is written
\* whole, for every number of every type and each width of integer, the
\* Dropped ones aside (putBinaryTupleInt, toInt64).
THEOREM TupleIntegersKept == Spec => []NoIntegerIsTruncated
BY TupleInvAlways, IntegersFollow, PTL

\* A row of any number of columns is read back with the same values, for every
\* value of every type: every number through every width, every decimal, every
\* date and time of a column of every precision, every string; of the values
\* that are not left out exactly the exceptional ones are not
\* (appendBinaryTupleValue against GetValue and rows.Next).
THEOREM TupleReadsBack == Spec => []ReadsBackTheSame
<1>1. Init => ReadsBackTheSame
  BY DEF Init, ReadsBackTheSame
<1> QED
  BY <1>1, TupleInvAlways, ReadsBackNext, PTL DEF Spec
=============================================================================
