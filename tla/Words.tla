-------------------------------- MODULE Words --------------------------------
(***************************************************************************)
(* Machine words as numbers: fixed width, two's complement, bit patterns.  *)
(* A word is four bytes of ByteBits bits; in the code ByteBits is 8.       *)
(***************************************************************************)
EXTENDS Integers, FiniteSetsExt

CONSTANT ByteBits

ASSUME ByteBitsOK == ByteBits \in 1 .. 8

WordBits == 4 * ByteBits
Byte == 0 .. 2^ByteBits - 1
Word == 0 .. 2^WordBits - 1

\* Conversion to Word: unsigned arithmetic wraps.
Wrap(i) == i % 2^WordBits

\* Conversion of a word to a signed integer of the same width.
Signed(x) == IF x >= 2^(WordBits - 1) THEN x - 2^WordBits ELSE x

\* The positions of the ones among the n low bits of integer i.
Bits(i, n) == {k \in 0 .. n - 1 : (i \div 2^k) % 2 = 1}

\* The number whose ones are at the positions S.
Number(S) == MapThenSumSet(LAMBDA k : 2^k, S)

And(x, y) == Number(Bits(x, WordBits) \cap Bits(y, WordBits))
Or(x, y) == Number(Bits(x, WordBits) \cup Bits(y, WordBits))
Xor(x, y) ==
    LET X == Bits(x, WordBits)
        Y == Bits(y, WordBits)
    IN  Number((X \ Y) \cup (Y \ X))

\* n bytes from address a of memory m, the lowest first.
LittleEndian(m, a, n) ==
    MapThenSumSet(LAMBDA k : m[a + k] * 2^(ByteBits * k), 0 .. n - 1)

\* Byte k of a word.
ByteOf(x, k) == (x \div 2^(ByteBits * k)) % 2^ByteBits
=============================================================================
