----------------------------- MODULE ByteString -----------------------------
(***************************************************************************)
(* Byte strings and the integers they stand for, with bytes of ByteBits     *)
(* bits.  The code has 8; a smaller number keeps every boundary (a byte's   *)
(* sign bit, one byte more, the widths 1, 2, 4 and 8) within TLC's reach.   *)
(***************************************************************************)
EXTENDS Numeral

CONSTANT ByteBits

\* Dates have 24 bits and times 48: whole bytes.
ASSUME ByteBitsAssumption == ByteBits \in 2..24 /\ 24 % ByteBits = 0

Byte == Power(2, ByteBits)             \* 0x100
SignBit == Power(2, ByteBits - 1)      \* 0x80
Bytes == 0..(Byte - 1)

\* The range of a signed integer of w bytes.
Fits(v, w) == -(Power(Byte, w) \div 2) <= v /\ v < Power(Byte, w) \div 2

\* binary.LittleEndian.Put...: the low w bytes, two's complement.
LittleEndian(v, w) == Digits(v, Byte, w)

\* big.Int.SetBytes: big-endian, unsigned.
Unsigned(s) == Value(s, Byte)

\* A big-endian two's-complement number.
Signed(s) == SignedValue(s, Byte)

\* Uuid.Flip: the two halves, each from its last byte to its first.
Flip(s) == Reversed(SubSeq(s, 1, 8)) \o Reversed(SubSeq(s, 9, 16))

\* big.Int.Bytes of n >= 0: big-endian, without leading zeros, empty for 0.
BigBytes(n) == AllDigits(n, Byte)

\* big.Int.BitLen of n >= 0.
BitLen(n) == Width(n, 2)

\* binary.LittleEndian, from bits to bytes and back.
ToBytes(bits) == Pack(bits, ByteBits)
ToBits(bytes) == Unpack(bytes, ByteBits)
=============================================================================
