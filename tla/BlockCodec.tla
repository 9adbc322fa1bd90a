----------------------------- MODULE BlockCodec ------------------------------
(***************************************************************************)
(* The frames and the checksum of SDO block transfer, core/src/sdo/        *)
(* block.rs: a frame is the sequence of its eight bytes.  The side that    *)
(* has the data sends frames of specifier CS_6 and segments, the other     *)
(* frames of specifier CS_5, in a download and in an upload alike.         *)
(***************************************************************************)
EXTENDS Bytes, Sequences, SequencesExt

CONSTANT MaxBlksize  \* MAX_BLKSIZE (127)

ASSUME BlockCodecAssumption == MaxBlksize \in 1..127

SEGMENT_DATA_MAX == 7
CS_6 == 192
CS_5 == 160
CRC_SUPPORTED == 4
SIZE_INDICATED == 2
LAST_SEGMENT == 128
SUBCMD_END == 1
SUBCMD_RESPONSE == 2
SUBCMD_START == 3

Specifier(p) == BitField(p[1], 32, 8) * 32
Subcommand(p) == p[1] % 4

-----------------------------------------------------------------------------
(* crc16: the remainder of the data by x^16 + x^12 + x^5 + 1, bit by bit.  *)

Word == 0..65535

\* n with the bit that is worth `bit` inverted.
Flip(n, bit) == IF Bit(n, bit) THEN n - bit ELSE n + bit

\* One shift of the register: the polynomial is 1 + 32 + 4096.
ShiftCrc(crc) ==
    IF Bit(crc, 32768) THEN Flip(Flip(Flip((2 * crc) % 65536, 1), 32), 4096) ELSE 2 * crc

\* A byte is added to the high byte of the register.
AddByte(crc, byte) ==
    FoldLeft(LAMBDA sum, bit : IF Bit(byte, bit) THEN Flip(sum, 256 * bit) ELSE sum,
             crc, <<1, 2, 4, 8, 16, 32, 64, 128>>)

Crc16(data) ==
    LET shift[k \in 0..8, crc \in Word] ==
            IF k = 0 THEN crc ELSE shift[k - 1, ShiftCrc(crc)]
        after[i \in 0..Len(data), crc \in Word] ==
            IF i = Len(data) THEN crc
            ELSE after[i + 1, shift[8, AddByte(crc, data[i + 1])]]
    IN  after[0, 0]

-----------------------------------------------------------------------------
(* Initiates: the size goes from the side with the data, the block size to *)
(* it.  NoSize stands for a size of None.                                  *)

NoSize == -1

EncodeInitiateWithSize(addr, size, crc) ==
    LET n == IF size = NoSize THEN 0 ELSE size IN
    <<CS_6 + Flag(crc, CRC_SUPPORTED) + Flag(size # NoSize, SIZE_INDICATED),
      LeByte(addr[1], 1), LeByte(addr[1], 2), addr[2],
      LeByte(n, 1), LeByte(n, 2), LeByte(n, 3), LeByte(n, 4)>>

\* decode_initiate_with_size succeeds: bit 1 is the size flag here, so bit 0
\* alone tells an initiate from an end.
IsInitiateWithSize(p) == Specifier(p) = CS_6 /\ ~Bit(p[1], SUBCMD_END)
SizeOf(p) ==
    IF Bit(p[1], SIZE_INDICATED) THEN FromLe32(p[5], p[6], p[7], p[8]) ELSE NoSize

EncodeInitiateWithBlksize(addr, blksize, crc) ==
    <<CS_5 + Flag(crc, CRC_SUPPORTED),
      LeByte(addr[1], 1), LeByte(addr[1], 2), addr[2], blksize, 0, 0, 0>>

\* decode_initiate_with_blksize succeeds: it takes any block size.
IsInitiateWithBlksize(p) == Specifier(p) = CS_5 /\ Subcommand(p) = 0
BlksizeOf(p) == p[5]

AddressOf(p) == <<FromLe16(p[2], p[3]), p[4]>>
CrcSupport(p) == Bit(p[1], CRC_SUPPORTED)

EncodeUploadStart == <<CS_5 + SUBCMD_START, 0, 0, 0, 0, 0, 0, 0>>
IsUploadStart(p) == Specifier(p) = CS_5 /\ Subcommand(p) = SUBCMD_START

-----------------------------------------------------------------------------
(* Segments, their responses and the end                                   *)

\* encode_sub_segment succeeds; a shorter segment is filled up with zeros.
SubSegmentOK(seqno, data) ==
    seqno \in 1..MaxBlksize /\ Len(data) \in 1..SEGMENT_DATA_MAX
EncodeSubSegment(seqno, data, last) ==
    [i \in 1..8 |-> IF i = 1 THEN seqno + Flag(last, LAST_SEGMENT)
                    ELSE IF i - 1 <= Len(data) THEN data[i - 1] ELSE 0]

\* decode_sub_segment: any frame is a segment.
Seqno(p) == p[1] % 128
IsLast(p) == Bit(p[1], LAST_SEGMENT)
SegmentData(p) == SubSeq(p, 2, SEGMENT_DATA_MAX + 1)

EncodeSubResponse(ackseq, blksize) ==
    <<CS_5 + SUBCMD_RESPONSE, ackseq, blksize, 0, 0, 0, 0, 0>>
IsSubResponse(p) == Specifier(p) = CS_5 /\ Subcommand(p) = SUBCMD_RESPONSE
NextBlksize(p) == p[3]

EncodeEnd(unused, crc) ==
    <<CS_6 + (unused % 8) * 4 + SUBCMD_END, LeByte(crc, 1), LeByte(crc, 2), 0, 0, 0, 0, 0>>
IsEnd(p) == Specifier(p) = CS_6 /\ Subcommand(p) = SUBCMD_END
UnusedOf(p) == BitField(p[1], 4, 8)
CrcOf(p) == FromLe16(p[2], p[3])

EncodeEndResponse == <<CS_5 + SUBCMD_END, 0, 0, 0, 0, 0, 0, 0>>
IsEndResponse(p) == Specifier(p) = CS_5 /\ Subcommand(p) = SUBCMD_END
=============================================================================
