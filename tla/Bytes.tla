-------------------------------- MODULE Bytes --------------------------------
(* Bytes and bits of the frames: little-endian integers and single flags.    *)
EXTENDS Integers

Byte == 0..255

\* The bits of n that are worth `bit` (a power of two) and the next, as an integer below `range`.
BitField(n, bit, range) == (n \div bit) % range

\* Whether bit `bit` of n is set, and a flag as that bit.
Bit(n, bit) == BitField(n, bit, 2) = 1
Flag(set, bit) == IF set THEN bit ELSE 0

\* The i-th byte of n's little-endian encoding; the integers two and four bytes encode.
LeByte(n, i) == BitField(n, 256 ^ (i - 1), 256)
FromLe16(low, high) == low + 256 * high
FromLe32(b1, b2, b3, b4) == FromLe16(b1, b2) + 65536 * FromLe16(b3, b4)
=============================================================================
