------------------------- MODULE BlockTransferProofs -------------------------
(***************************************************************************)
(* Block transfer for all data, block sizes, capacities and losses: the    *)
(* writer never panics, a confirmation means acceptance, a receiver        *)
(* overflows only on data that does not fit it, what it accepts on a bus   *)
(* without losses is the data sent, and on any other bus segments of it in *)
(* their order, which a checksum that tells them apart makes the data.     *)
(***************************************************************************)
EXTENDS BlockTransfer, SequenceTheorems, FiniteSetTheorems, TLAPS

-----------------------------------------------------------------------------
(* The frames                                                              *)

\* Frames the receiver sends: the block sizes in them are legal.
Replies ==
    {p \in Frames : /\ IsInitiateWithBlksize(p) => BlksizeOf(p) \in Grants
                    /\ IsSubResponse(p) => NextBlksize(p) \in Grants}

\* End frames; nothing is known here of the value of a checksum.
Ends == {EncodeEnd(u, c) : u \in 0..7, c \in {0} \cup {Crc16(d) : d \in Payloads}}

LEMMA LeBytes ==
    ASSUME NEW n \in Int, NEW i \in {1, 2, 3, 4}
    PROVE  LeByte(n, i) \in Byte
BY DEF LeByte, BitField, Byte

LEMMA EndFrames ==
    ASSUME NEW p \in Ends
    PROVE  /\ Specifier(p) = CS_6
           /\ ~IsInitiateWithSize(p)
           /\ IsEnd(p)
           /\ UnusedOf(p) \in 0..7
<1>1. PICK u \in 0..7, c \in {0} \cup {Crc16(d) : d \in Payloads} : p = EncodeEnd(u, c)
  BY DEF Ends
<1>2. p[1] = 192 + (u % 8) * 4 + 1
  BY <1>1 DEF EncodeEnd, CS_6, SUBCMD_END
<1>3. u % 8 = u
  BY Z3
<1>4. p[1] = 193 + 4 * u
  BY <1>2, <1>3
<1>5. /\ (p[1] \div 32) % 8 = 6
      /\ p[1] % 4 = 1
      /\ (p[1] \div 1) % 2 = 1
      /\ (p[1] \div 4) % 8 \in 0..7
  BY <1>4
<1>6. QED
  BY <1>5
     DEF Specifier, Subcommand, BitField, Bit, IsInitiateWithSize, IsEnd, UnusedOf,
         CS_6, SUBCMD_END

LEMMA EightBytes ==
    ASSUME NEW b1 \in Byte, NEW b2 \in Byte, NEW b3 \in Byte, NEW b4 \in Byte,
           NEW b5 \in Byte, NEW b6 \in Byte, NEW b7 \in Byte, NEW b8 \in Byte
    PROVE  <<b1, b2, b3, b4, b5, b6, b7, b8>> \in Frames
BY DEF Frames

LEMMA SizeInitiates ==
    ASSUME NEW size \in Nat, NEW crc \in BOOLEAN
    PROVE  /\ EncodeInitiateWithSize(Addr, size, crc) \in Frames
           /\ IsInitiateWithSize(EncodeInitiateWithSize(Addr, size, crc))
<1> DEFINE p == EncodeInitiateWithSize(Addr, size, crc)
<1>1. size # NoSize
  BY DEF NoSize
<1>2. p[1] \in {194, 198}
  BY <1>1 DEF EncodeInitiateWithSize, Flag, CS_6, CRC_SUPPORTED, SIZE_INDICATED
<1>3. Addr[1] \in Int /\ Addr[2] \in Byte
  BY BlockTransferAssumption
<1>4. /\ LeByte(Addr[1], 1) \in Byte /\ LeByte(Addr[1], 2) \in Byte
      /\ LeByte(size, 1) \in Byte /\ LeByte(size, 2) \in Byte
      /\ LeByte(size, 3) \in Byte /\ LeByte(size, 4) \in Byte
  BY <1>3, LeBytes
<1>5. p = <<p[1], LeByte(Addr[1], 1), LeByte(Addr[1], 2), Addr[2],
           LeByte(size, 1), LeByte(size, 2), LeByte(size, 3), LeByte(size, 4)>>
  BY <1>1 DEF EncodeInitiateWithSize
<1>6. p[1] \in Byte
  BY <1>2 DEF Byte
<1> HIDE DEF p
<1>7. <<p[1], LeByte(Addr[1], 1), LeByte(Addr[1], 2), Addr[2],
        LeByte(size, 1), LeByte(size, 2), LeByte(size, 3), LeByte(size, 4)>> \in Frames
  BY <1>3, <1>4, <1>6, EightBytes
<1>8. IsInitiateWithSize(p)
  BY <1>2 DEF IsInitiateWithSize, Specifier, BitField, Bit, CS_6, SUBCMD_END
<1>9. p \in Frames
  BY <1>5, <1>7, Zenon
<1>10. QED
  BY <1>8, <1>9 DEF p

LEMMA BlksizeInitiates ==
    ASSUME NEW addr \in Int \X Byte, NEW g \in Grants, NEW crc \in BOOLEAN
    PROVE  /\ EncodeInitiateWithBlksize(addr, g, crc) \in Replies
           /\ IsInitiateWithBlksize(EncodeInitiateWithBlksize(addr, g, crc))
           /\ ~IsEndResponse(EncodeInitiateWithBlksize(addr, g, crc))
<1> DEFINE p == EncodeInitiateWithBlksize(addr, g, crc)
<1>1. p[1] \in {160, 164} /\ p[5] = g
  BY DEF EncodeInitiateWithBlksize, Flag, CS_5, CRC_SUPPORTED
<1>2. g \in Byte
  BY BlockTransferAssumption, BlockCodecAssumption DEF Byte
<1>3. \A n \in Int : LeByte(n, 1) \in Byte /\ LeByte(n, 2) \in Byte
  BY DEF LeByte, BitField, Byte
<1>4. p \in Frames
  <2>1. p = <<p[1], LeByte(addr[1], 1), LeByte(addr[1], 2), addr[2], g, 0, 0, 0>>
    BY DEF EncodeInitiateWithBlksize
  <2>2. p[1] \in Byte /\ 0 \in Byte
    BY <1>1 DEF Byte
  <2>3. LeByte(addr[1], 1) \in Byte /\ LeByte(addr[1], 2) \in Byte /\ addr[2] \in Byte
    BY <1>3
  <2> HIDE DEF p
  <2>4. <<p[1], LeByte(addr[1], 1), LeByte(addr[1], 2), addr[2], g, 0, 0, 0>> \in Frames
    BY <1>2, <2>2, <2>3, EightBytes
  <2>5. QED
    BY <2>1, <2>4, Zenon
<1>5. Specifier(p) = CS_5 /\ Subcommand(p) = 0
  BY <1>1 DEF Specifier, Subcommand, BitField, CS_5
<1>6. QED
  BY <1>1, <1>4, <1>5
     DEF Replies, IsInitiateWithBlksize, BlksizeOf, IsSubResponse, IsEndResponse,
         SUBCMD_RESPONSE, SUBCMD_END

LEMMA UploadStarts ==
    /\ EncodeUploadStart \in Replies
    /\ IsUploadStart(EncodeUploadStart)
    /\ ~IsInitiateWithBlksize(EncodeUploadStart)
    /\ ~IsEndResponse(EncodeUploadStart)
<1> DEFINE p == EncodeUploadStart
<1>1. p \in Frames /\ p[1] = 163
  BY DEF EncodeUploadStart, CS_5, SUBCMD_START, Frames, Byte
<1>2. Specifier(p) = CS_5 /\ Subcommand(p) = 3
  BY <1>1 DEF Specifier, Subcommand, BitField, CS_5
<1>3. QED
  BY <1>1, <1>2
     DEF Replies, IsUploadStart, IsInitiateWithBlksize, IsSubResponse, IsEndResponse,
         SUBCMD_RESPONSE, SUBCMD_END, SUBCMD_START

LEMMA SubResponses ==
    ASSUME NEW seqno \in Byte, NEW g \in Grants
    PROVE  /\ EncodeSubResponse(seqno, g) \in Replies
           /\ ~IsInitiateWithBlksize(EncodeSubResponse(seqno, g))
           /\ ~IsEndResponse(EncodeSubResponse(seqno, g))
<1> DEFINE p == EncodeSubResponse(seqno, g)
<1>1. p[1] = 162 /\ p[3] = g
  BY DEF EncodeSubResponse, CS_5, SUBCMD_RESPONSE
<1>2. g \in Byte
  BY BlockTransferAssumption, BlockCodecAssumption DEF Byte
<1>3. p \in Frames
  BY <1>1, <1>2 DEF EncodeSubResponse, Frames, Byte, CS_5, SUBCMD_RESPONSE
<1>4. Specifier(p) = CS_5 /\ Subcommand(p) = 2
  BY <1>1 DEF Specifier, Subcommand, BitField, CS_5
<1>5. QED
  BY <1>1, <1>3, <1>4
     DEF Replies, IsInitiateWithBlksize, IsSubResponse, NextBlksize, IsEndResponse,
         SUBCMD_RESPONSE, SUBCMD_END

LEMMA EndResponses ==
    /\ EncodeEndResponse \in Replies
    /\ ~IsInitiateWithBlksize(EncodeEndResponse)
<1> DEFINE p == EncodeEndResponse
<1>1. p \in Frames /\ p[1] = 161
  BY DEF EncodeEndResponse, CS_5, SUBCMD_END, Frames, Byte
<1>2. Specifier(p) = CS_5 /\ Subcommand(p) = 1
  BY <1>1 DEF Specifier, Subcommand, BitField, CS_5
<1>3. QED
  BY <1>1, <1>2 DEF Replies, IsInitiateWithBlksize, IsSubResponse, SUBCMD_RESPONSE

LEMMA Segments ==
    ASSUME NEW seqno \in 1..MaxBlksize, NEW chunk \in Seq(Byte), NEW last \in BOOLEAN
    PROVE  /\ EncodeSubSegment(seqno, chunk, last) \in Frames
           /\ seqno < 64 => Specifier(EncodeSubSegment(seqno, chunk, last)) # CS_6
<1> DEFINE p == EncodeSubSegment(seqno, chunk, last)
<1>1. seqno \in 1..127
  BY BlockCodecAssumption
<1>2. p[1] = seqno + Flag(last, LAST_SEGMENT)
  BY DEF EncodeSubSegment
<1>3. p[1] \in Byte /\ (seqno < 64 => p[1] \in 1..191)
  BY <1>1, <1>2 DEF Flag, LAST_SEGMENT, Byte
<1>4. \A i \in 2..8 : p[i] \in Byte
  <2> SUFFICES ASSUME NEW i \in 2..8 PROVE p[i] \in Byte
    OBVIOUS
  <2>1. i - 1 <= Len(chunk) => chunk[i - 1] \in Byte
    OBVIOUS
  <2>2. p[i] = IF i - 1 <= Len(chunk) THEN chunk[i - 1] ELSE 0
    BY DEF EncodeSubSegment
  <2>3. QED
    BY <2>1, <2>2 DEF Byte
<1>5. p \in Frames
  <2>1. p = [i \in 1..8 |-> p[i]]
    BY DEF EncodeSubSegment
  <2>2. \A i \in 1..8 : p[i] \in Byte
    BY <1>3, <1>4
  <2>3. QED
    BY <2>1, <2>2 DEF Frames
<1>6. ASSUME seqno < 64 PROVE Specifier(p) # CS_6
  <2>1. PICK b \in 1..191 : p[1] = b
    BY <1>3, <1>6
  <2>2. ((b \div 32) % 8) * 32 # 192
    OBVIOUS
  <2>3. Specifier(p) = ((b \div 32) % 8) * 32
    BY <2>1 DEF Specifier, BitField
  <2>4. QED
    BY <2>2, <2>3 DEF CS_6
<1>7. QED
  BY <1>5, <1>6

-----------------------------------------------------------------------------
(* Sequences                                                               *)

LEMMA Taken ==
    ASSUME NEW S, NEW q \in Seq(S), q # <<>>
    PROVE  /\ Head(q) = q[1] /\ Head(q) \in S
           /\ Tail(q) \in Seq(S) /\ Len(Tail(q)) = Len(q) - 1
           /\ Len(q) \in Nat /\ Len(q) >= 1
           /\ \A i \in 1..Len(Tail(q)) : Tail(q)[i] = q[i + 1]
OBVIOUS

LEMMA LastTaken ==
    ASSUME NEW S, NEW q \in Seq(S), Len(q) = 1
    PROVE  Tail(q) = <<>>
<1>1. Tail(q) \in Seq(S) /\ Len(Tail(q)) = Len(q) - 1
  OBVIOUS
<1>2. Len(Tail(q)) = 0
  BY <1>1
<1>3. \A t \in Seq(S) : Len(t) = 0 => t = <<>>
  BY EmptySeq
<1>4. QED
  BY <1>1, <1>2, <1>3, Zenon

LEMMA Put ==
    ASSUME NEW S, NEW q \in Seq(S), NEW e \in S
    PROVE  /\ Append(q, e) \in Seq(S)
           /\ Len(q) \in Nat /\ Len(Append(q, e)) = Len(q) + 1
           /\ Append(q, e)[Len(q) + 1] = e
           /\ \A i \in 1..Len(q) : Append(q, e)[i] = q[i]
OBVIOUS

LEMMA Joined ==
    ASSUME NEW S, NEW q \in Seq(S), NEW r \in Seq(S)
    PROVE  Len(q \o r) = Len(q) + Len(r)
OBVIOUS

LEMMA Cut ==
    ASSUME NEW S, NEW q \in Seq(S), NEW m \in 0..Len(q), NEW n \in m..Len(q)
    PROVE  SubSeq(q, m + 1, n) \in Seq(S) /\ Len(SubSeq(q, m + 1, n)) = n - m
OBVIOUS

LEMMA JoinedBytes ==
    ASSUME NEW S, NEW q \in Seq(S), NEW r \in Seq(S)
    PROVE  /\ \A i \in 1..Len(q) : (q \o r)[i] = q[i]
           /\ \A j \in 1..Len(r) : (q \o r)[Len(q) + j] = r[j]
OBVIOUS

LEMMA CutBytes ==
    ASSUME NEW S, NEW q \in Seq(S), NEW m \in 0..Len(q), NEW n \in m..Len(q),
           NEW j \in 1..(n - m)
    PROVE  SubSeq(q, m + 1, n)[j] = q[m + j]
OBVIOUS

\* The bytes BlockWriter::next_segment cuts off are in the data.
LEMMA Chunks ==
    ASSUME data \in Seq(Byte), writer.pos \in 0..Len(data), ~IsDone
    PROVE  /\ Take \in 1..SEGMENT_DATA_MAX
           /\ writer.pos + Take \in 0..Len(data)
           /\ Chunk \in Seq(Byte)
           /\ Len(Chunk) = Take
           /\ Take = SEGMENT_DATA_MAX \/ writer.pos + Take = Len(data)
<1>1. Len(data) \in Nat
  OBVIOUS
<1>2. Remaining \in 1..Len(data)
  BY <1>1 DEF Remaining, IsDone
<1>3. /\ Take \in 1..7
      /\ writer.pos + Take \in 0..Len(data)
      /\ Take = 7 \/ writer.pos + Take = Len(data)
  BY <1>1, <1>2 DEF Take, Remaining, SEGMENT_DATA_MAX
<1> HIDE DEF Take
<1>4. Chunk \in Seq(Byte) /\ Len(Chunk) = Take
  BY <1>1, <1>3, Cut DEF Chunk
<1>5. QED
  BY <1>3, <1>4 DEF SEGMENT_DATA_MAX

-----------------------------------------------------------------------------
(* The types of a transfer                                                 *)

WriterTyped ==
    /\ direction \in {"download", "upload"}
    /\ data \in Payloads
    /\ crcs \in BOOLEAN \X BOOLEAN
    /\ writer \in [pos : 0..Len(data), seqno : 1..(MaxBlksize + 1), blksize : {0} \cup Grants]
    /\ sender \in SenderPhase \ {"panicked"}

ReceiverTyped ==
    /\ buf \in Seq(Byte)
    /\ done \in BOOLEAN
    /\ receiver \in ReceiverPhase

BusTyped ==
    /\ toReceiver \in Seq(Frames \cup Ends)
    /\ toSender \in Seq(Replies)

Typed == WriterTyped /\ ReceiverTyped /\ BusTyped

LEMMA DataTyped ==
    ASSUME Typed
    PROVE  data \in Seq(Byte) /\ Len(data) \in Nat
BY BlockTransferAssumption DEF Typed, WriterTyped

LEMMA TypedInit == Init => Typed
<1> SUFFICES ASSUME Init PROVE Typed
  OBVIOUS
<1>1. data \in Seq(Byte)
  BY BlockTransferAssumption DEF Init
<1>2. WriterTyped
  BY <1>1, BlockCodecAssumption DEF Init, WriterTyped, SenderPhase
<1>3. \A S : <<>> \in Seq(S)
  OBVIOUS
<1>4. ReceiverTyped /\ BusTyped
  BY <1>3 DEF Init, ReceiverTyped, ReceiverPhase, BusTyped
<1>5. QED
  BY <1>2, <1>4 DEF Typed

\* Whoever takes the oldest frame leaves a queue of such frames.
LEMMA TakenTyped ==
    ASSUME Typed
    PROVE  /\ ReceiverTakes => /\ toReceiver' \in Seq(Frames \cup Ends)
                               /\ Head(toReceiver) \in Frames \cup Ends
           /\ SenderTakes => toSender' \in Seq(Replies) /\ Head(toSender) \in Replies
BY Taken DEF Typed, BusTyped, ReceiverTakes, SenderTakes

LEMMA StartsTyped ==
    ASSUME Typed, StartDownload \/ StartUpload
    PROVE  Typed'
<1>1. CASE StartDownload
  <2>1. EncodeInitiateWithSize(Addr, Len(data), crcs[1]) \in Frames
    BY DataTyped, SizeInitiates DEF Typed, WriterTyped
  <2>2. BusTyped'
    BY <1>1, <2>1, Put DEF StartDownload, ToReceiver, Typed, BusTyped
  <2>3. WriterTyped' /\ ReceiverTyped'
    BY <1>1 DEF StartDownload, Typed, WriterTyped, ReceiverTyped, receiverVars, SenderPhase
  <2>4. QED
    BY <2>2, <2>3 DEF Typed
<1>2. CASE StartUpload
  <2>1. granted' \in Grants
    BY <1>2 DEF StartUpload
  <2>2. Addr \in Int \X Byte
    BY BlockTransferAssumption
  <2>3. EncodeInitiateWithBlksize(Addr, granted', crcs[2]) \in Replies
    BY <2>1, <2>2, BlksizeInitiates DEF Typed, WriterTyped
  <2>4. BusTyped'
    BY <1>2, <2>3, Put DEF StartUpload, ToSender, Typed, BusTyped
  <2>5. WriterTyped'
    BY <1>2 DEF StartUpload, Typed, WriterTyped, writerVars
  <2>6. ReceiverTyped'
    <3>1. buf' = <<>> /\ done' = FALSE /\ receiver' = "opening"
      BY <1>2 DEF StartUpload, NewReceiver
    <3>2. <<>> \in Seq(Byte)
      OBVIOUS
    <3>3. QED
      BY <3>1, <3>2 DEF ReceiverTyped, ReceiverPhase
  <2>7. QED
    BY <2>4, <2>5, <2>6 DEF Typed
<1>3. QED
  BY <1>1, <1>2

LEMMA InitiatesTyped ==
    ASSUME Typed,
           OnDownloadInitiateResponse \/ OnUploadInitiate \/ OnUploadStart
    PROVE  Typed'
<1>1. ASSUME SenderTakes, IsInitiateWithBlksize(Head(toSender))
      PROVE  New(BlksizeOf(Head(toSender))) \in
                [pos : 0..Len(data), seqno : 1..(MaxBlksize + 1), blksize : {0} \cup Grants]
  <2>1. BlksizeOf(Head(toSender)) \in Grants
    BY <1>1, TakenTyped DEF Replies
  <2>2. QED
    BY <2>1, DataTyped, BlockCodecAssumption DEF New
<1>2. CASE OnDownloadInitiateResponse
  BY <1>1, <1>2, TakenTyped
     DEF OnDownloadInitiateResponse, Typed, WriterTyped, ReceiverTyped, BusTyped,
         receiverVars, SenderPhase
<1>3. CASE OnUploadInitiate
  <2>1. EncodeInitiateWithSize(Addr, Len(data), crcs[1]) \in Frames
    BY DataTyped, SizeInitiates DEF Typed, WriterTyped
  <2>2. BusTyped'
    BY <1>3, <2>1, Put, TakenTyped DEF OnUploadInitiate, ToReceiver, Typed, BusTyped
  <2>3. WriterTyped' /\ ReceiverTyped'
    BY <1>1, <1>3
       DEF OnUploadInitiate, Typed, WriterTyped, ReceiverTyped, receiverVars, SenderPhase
  <2>4. QED
    BY <2>2, <2>3 DEF Typed
<1>4. CASE OnUploadStart
  BY <1>4, TakenTyped
     DEF OnUploadStart, Typed, WriterTyped, ReceiverTyped, BusTyped, receiverVars, SenderPhase
<1>5. QED
  BY <1>2, <1>3, <1>4

\* The expect of next_segment holds: the block size bounds the number, and a
\* writer that is not done has at least one byte left.
LEMMA SegmentInRange ==
    ASSUME Typed, ~IsDone, ~SubBlockFull
    PROVE  /\ writer.seqno \in 1..MaxBlksize
           /\ writer.seqno <= writer.blksize
           /\ SubSegmentOK(writer.seqno, Chunk)
<1>1. data \in Seq(Byte) /\ writer.pos \in 0..Len(data)
  BY DataTyped DEF Typed, WriterTyped
<1>2. writer.blksize \in 0..MaxBlksize /\ writer.seqno \in 1..(MaxBlksize + 1)
  <2>1. writer.blksize \in {0} \cup Grants /\ writer.seqno \in 1..(MaxBlksize + 1)
    BY DEF Typed, WriterTyped
  <2>2. \A g \in Grants : g \in 0..MaxBlksize
    BY BlockTransferAssumption, BlockCodecAssumption
  <2>3. 0 \in 0..MaxBlksize
    BY BlockCodecAssumption
  <2>4. QED
    BY <2>1, <2>2, <2>3
<1>3. writer.seqno <= writer.blksize /\ writer.seqno \in 1..MaxBlksize
  BY <1>2, BlockCodecAssumption DEF SubBlockFull
<1>4. Len(Chunk) \in 1..SEGMENT_DATA_MAX
  BY <1>1, Chunks
<1>5. QED
  BY <1>3, <1>4 DEF SubSegmentOK

LEMMA NextSegmentTyped ==
    ASSUME Typed, NextSegment
    PROVE  Typed'
<1> DEFINE frame == EncodeSubSegment(writer.seqno, Chunk, Remaining <= SEGMENT_DATA_MAX)
<1>1. /\ writer.seqno \in 1..MaxBlksize
      /\ SubSegmentOK(writer.seqno, Chunk)
  BY SegmentInRange DEF NextSegment
<1>2. data \in Seq(Byte) /\ writer.pos \in 0..Len(data) /\ ~IsDone
  BY DataTyped DEF NextSegment, Typed, WriterTyped
<1>3. Chunk \in Seq(Byte) /\ writer.pos + Take \in 0..Len(data)
  BY <1>2, Chunks
<1>4. frame \in Frames
  <2>1. (Remaining <= SEGMENT_DATA_MAX) \in BOOLEAN
    BY <1>2 DEF Remaining, SEGMENT_DATA_MAX
  <2>2. QED
    BY <1>1, <1>3, <2>1, Segments
<1> HIDE DEF frame
<1>5. /\ toReceiver' = Append(toReceiver, frame)
      /\ writer' = [writer EXCEPT !.pos = @ + Take, !.seqno = @ + 1]
      /\ UNCHANGED <<sender, direction, data, crcs, receiverVars, toSender>>
  BY <1>1 DEF NextSegment, ToReceiver, frame
<1>6. BusTyped'
  BY <1>4, <1>5, Put DEF Typed, BusTyped
<1>7. writer.seqno + 1 \in 1..(MaxBlksize + 1)
  BY <1>1, BlockCodecAssumption
<1>8. WriterTyped'
  BY <1>3, <1>5, <1>7 DEF Typed, WriterTyped
<1>9. ReceiverTyped'
  BY <1>5 DEF Typed, ReceiverTyped, receiverVars
<1>10. QED
  BY <1>6, <1>8, <1>9 DEF Typed

\* end_frame declares at most seven unused bytes.
LEMMA EndFrameTyped ==
    ASSUME Typed
    PROVE  EncodeEnd(Unused, IF Verify THEN Crc16(data) ELSE 0) \in Ends
<1>1. Len(data) % SEGMENT_DATA_MAX \in 0..6
  BY DataTyped DEF SEGMENT_DATA_MAX
<1>2. Unused \in 0..7
  BY <1>1 DEF Unused, SEGMENT_DATA_MAX
<1>3. data \in Payloads
  BY DEF Typed, WriterTyped
<1>4. QED
  BY <1>2, <1>3 DEF Ends

LEMMA EndSubBlockTyped ==
    ASSUME Typed, EndSubBlock
    PROVE  Typed'
<1> DEFINE frame == EncodeEnd(Unused, IF Verify THEN Crc16(data) ELSE 0)
<1>1. frame \in Frames \cup Ends
  BY EndFrameTyped
<1> HIDE DEF frame
<1>2. toReceiver' = Append(toReceiver, frame) \/ toReceiver' = toReceiver
  BY DEF EndSubBlock, ToReceiver, frame
<1>3. sender' \in {"ending", "waiting"}
  BY DEF EndSubBlock
<1>4. UNCHANGED <<direction, data, crcs, writer, receiverVars, toSender>>
  BY DEF EndSubBlock
<1>5. BusTyped'
  BY <1>1, <1>2, <1>4, Put DEF Typed, BusTyped
<1>6. WriterTyped' /\ ReceiverTyped'
  BY <1>3, <1>4 DEF Typed, WriterTyped, ReceiverTyped, receiverVars, SenderPhase
<1>7. QED
  BY <1>5, <1>6 DEF Typed

LEMMA ResponsesTyped ==
    ASSUME Typed, OnSubResponse \/ OnEndResponse
    PROVE  Typed'
<1>1. SenderTakes /\ UNCHANGED <<direction, data, crcs, receiverVars, toReceiver>>
  BY DEF OnSubResponse, OnEndResponse
<1>2. BusTyped' /\ ReceiverTyped'
  BY <1>1, TakenTyped DEF Typed, BusTyped, ReceiverTyped, receiverVars
<1>3. CASE OnSubResponse
  <2>1. NextBlksize(Head(toSender)) \in Grants
    BY <1>1, <1>3, TakenTyped DEF OnSubResponse, Replies
  <2>2. StartSubBlock(NextBlksize(Head(toSender))) \in
           [pos : 0..Len(data), seqno : 1..(MaxBlksize + 1), blksize : {0} \cup Grants]
    <3>1. 1 \in 1..(MaxBlksize + 1)
      BY BlockCodecAssumption
    <3>2. QED
      BY <2>1, <3>1 DEF StartSubBlock, Typed, WriterTyped
  <2>3. /\ writer' = StartSubBlock(NextBlksize(Head(toSender))) \/ writer' = writer
        /\ sender' = "streaming" \/ sender' = sender
    BY <1>3 DEF OnSubResponse
  <2>4. WriterTyped'
    BY <1>1, <2>2, <2>3 DEF Typed, WriterTyped, SenderPhase
  <2>5. QED
    BY <1>2, <2>4 DEF Typed
<1>4. CASE OnEndResponse
  <2>1. WriterTyped'
    BY <1>1, <1>4 DEF OnEndResponse, Typed, WriterTyped, SenderPhase
  <2>2. QED
    BY <1>2, <2>1 DEF Typed
<1>5. QED
  BY <1>3, <1>4

LEMMA Addresses ==
    ASSUME NEW p \in Frames
    PROVE  AddressOf(p) \in Int \X Byte
<1>1. p[2] \in Byte /\ p[3] \in Byte /\ p[4] \in Byte
  BY DEF Frames
<1>2. \A low, high \in Byte : FromLe16(low, high) \in Int
  BY DEF FromLe16, Byte
<1>3. QED
  BY <1>1, <1>2 DEF AddressOf

LEMMA AnswersTyped ==
    ASSUME Typed, OnUploadInitiateResponse \/ OnDownloadInitiate
    PROVE  Typed'
<1>1. WriterTyped'
  BY DEF OnUploadInitiateResponse, OnDownloadInitiate, Typed, WriterTyped, writerVars
<1>2. ReceiverTakes
  BY DEF OnUploadInitiateResponse, OnDownloadInitiate
<1>3. CASE OnUploadInitiateResponse
  <2>1. toSender' = Append(toSender, EncodeUploadStart) \/ toSender' = toSender
    BY <1>3 DEF OnUploadInitiateResponse, ToSender
  <2>2. BusTyped'
    BY <1>2, <2>1, TakenTyped, UploadStarts, Put DEF Typed, BusTyped
  <2>3. ReceiverTyped'
    BY <1>3 DEF OnUploadInitiateResponse, Typed, ReceiverTyped, ReceiverPhase
  <2>4. QED
    BY <1>1, <2>2, <2>3 DEF Typed
<1>4. CASE OnDownloadInitiate
  <2>1. Head(toReceiver) \in Frames
    BY <1>2, <1>4, TakenTyped, EndFrames DEF OnDownloadInitiate
  <2>2. AddressOf(Head(toReceiver)) \in Int \X Byte
    BY <2>1, Addresses
  <2>3. granted' \in Grants /\ crcs[2] \in BOOLEAN
    BY <1>4 DEF OnDownloadInitiate, Typed, WriterTyped
  <2>4. EncodeInitiateWithBlksize(AddressOf(Head(toReceiver)), granted', crcs[2]) \in Replies
    BY <2>2, <2>3, BlksizeInitiates
  <2>5. BusTyped'
    BY <1>2, <1>4, <2>4, TakenTyped, Put DEF OnDownloadInitiate, ToSender, Typed, BusTyped
  <2>6. buf' = <<>> /\ done' = FALSE /\ receiver' = "receiving"
    BY <1>4 DEF OnDownloadInitiate, NewReceiver
  <2>7. ReceiverTyped'
    <3>1. <<>> \in Seq(Byte)
      OBVIOUS
    <3>2. QED
      BY <2>6, <3>1 DEF ReceiverTyped, ReceiverPhase
  <2>8. QED
    BY <1>1, <2>5, <2>7 DEF Typed
<1>5. QED
  BY <1>3, <1>4

\* A segment of the bus has seven bytes for the buffer.
LEMMA SegmentBytes ==
    ASSUME NEW p \in Frames
    PROVE  /\ SegmentData(p) \in Seq(Byte) /\ Len(SegmentData(p)) = 7
           /\ Seqno(p) \in Byte /\ IsLast(p) \in BOOLEAN
<1>1. \A i \in 2..8 : p[i] \in Byte
  BY DEF Frames
<1>2. SegmentData(p) \in Seq(Byte) /\ Len(SegmentData(p)) = 7
  <2>1. SegmentData(p) = SubSeq(p, 2, 8)
    BY DEF SegmentData, SEGMENT_DATA_MAX
  <2>2. QED
    BY <1>1, <2>1, SubSeqProperties
<1>3. Seqno(p) \in Byte
  BY DEF Frames, Seqno, Byte
<1>4. IsLast(p) \in BOOLEAN
  BY DEF IsLast, Bit
<1>5. QED
  BY <1>2, <1>3, <1>4

LEMMA OnSegmentTyped ==
    ASSUME Typed, OnSegment
    PROVE  Typed'
<1> DEFINE p == Head(toReceiver)
<1>1. p \in Frames
  BY TakenTyped, EndFrames DEF OnSegment
<1>2. SegmentData(p) \in Seq(Byte) /\ Seqno(p) \in Byte /\ IsLast(p) \in BOOLEAN
  BY <1>1, SegmentBytes
<1>3. WriterTyped'
  BY DEF OnSegment, Typed, WriterTyped, writerVars
<1>4. ReceiverTakes /\ Push(p)
  BY DEF OnSegment
<1>5. \/ toSender' = toSender
      \/ granted' \in Grants /\ toSender' = Append(toSender, EncodeSubResponse(Seqno(p), granted'))
  BY DEF OnSegment, ToSender
<1> HIDE DEF p
<1>6. \A g \in Grants : EncodeSubResponse(Seqno(p), g) \in Replies
  BY <1>2, SubResponses
<1>7. BusTyped'
  BY <1>4, <1>5, <1>6, TakenTyped, Put DEF Typed, BusTyped
<1>8. ReceiverTyped'
  <2>1. buf \in Seq(Byte) /\ done \in BOOLEAN /\ receiver \in ReceiverPhase
    BY DEF Typed, ReceiverTyped
  <2>2. buf \o SegmentData(p) \in Seq(Byte)
    BY <1>2, <2>1
  <2>3. buf' \in Seq(Byte) /\ done' \in BOOLEAN
    BY <1>2, <1>4, <2>1, <2>2 DEF Push
  <2>4. receiver' \in ReceiverPhase
    BY <1>4, <2>1 DEF Push, ReceiverPhase
  <2>5. QED
    BY <2>3, <2>4 DEF ReceiverTyped
<1>9. QED
  BY <1>3, <1>7, <1>8 DEF Typed

LEMMA UnusedBytes ==
    ASSUME NEW p \in Frames \cup Ends
    PROVE  UnusedOf(p) \in 0..7
<1>1. CASE p \in Frames
  BY <1>1 DEF Frames, UnusedOf, BitField, Byte
<1>2. QED
  BY <1>1, EndFrames

LEMMA OnEndTyped ==
    ASSUME Typed, OnEnd
    PROVE  Typed'
<1> DEFINE p == Head(toReceiver)
<1>1. UnusedOf(p) \in 0..7
  BY TakenTyped, UnusedBytes DEF OnEnd
<1>2. WriterTyped'
  BY DEF OnEnd, Typed, WriterTyped, writerVars
<1>3. /\ ReceiverTakes
      /\ buf' = IF UnusedOf(p) <= Len(buf) THEN Trimmed(p) ELSE buf
      /\ receiver' \in {"accepted", "refused"}
      /\ toSender' = Append(toSender, EncodeEndResponse) \/ toSender' = toSender
      /\ UNCHANGED done
  BY DEF OnEnd, ToSender
<1> HIDE DEF p
<1>4. BusTyped'
  BY <1>3, TakenTyped, EndResponses, Put DEF Typed, BusTyped
<1>5. buf' \in Seq(Byte)
  <2>1. buf \in Seq(Byte) /\ Len(buf) \in Nat
    BY DEF Typed, ReceiverTyped
  <2>2. UnusedOf(p) <= Len(buf) => SubSeq(buf, 0 + 1, Len(buf) - UnusedOf(p)) \in Seq(Byte)
    BY <1>1, <2>1, Cut
  <2>3. QED
    BY <1>3, <2>1, <2>2 DEF Trimmed
<1>6. ReceiverTyped'
  BY <1>3, <1>5 DEF Typed, ReceiverTyped, ReceiverPhase
<1>7. QED
  BY <1>2, <1>4, <1>6 DEF Typed

LEMMA QuietStepsTyped ==
    ASSUME Typed, Discard \/ GiveUp \/ Lose \/ UNCHANGED vars
    PROVE  Typed'
<1>1. CASE Discard
  BY <1>1, TakenTyped
     DEF Discard, Typed, WriterTyped, ReceiverTyped, BusTyped, writerVars, receiverVars
<1>2. CASE GiveUp
  BY <1>2
     DEF GiveUp, Typed, WriterTyped, ReceiverTyped, BusTyped, busVars, SenderPhase,
         ReceiverPhase
<1>3. CASE Lose
  BY <1>3, TakenTyped
     DEF Lose, Typed, WriterTyped, ReceiverTyped, BusTyped, writerVars, receiverVars
<1>4. CASE UNCHANGED vars
  BY <1>4
     DEF vars, Typed, WriterTyped, ReceiverTyped, BusTyped, writerVars, receiverVars, busVars
<1>5. QED
  BY <1>1, <1>2, <1>3, <1>4

LEMMA TypedStep == Typed /\ [Next]_vars => Typed'
BY StartsTyped, InitiatesTyped, NextSegmentTyped, EndSubBlockTyped, ResponsesTyped,
   AnswersTyped, OnSegmentTyped, OnEndTyped, QuietStepsTyped
   DEF Next, SenderStep, ReceiverStep

LEMMA AlwaysTyped == Spec => []Typed
BY TypedInit, TypedStep, PTL DEF Spec

\* Whatever legal block sizes the peer grants and whatever frames are lost, the
\* expect in BlockWriter::next_segment holds.
THEOREM WriterNeverPanics == Spec => []NeverPanics
<1>1. Typed => NeverPanics
  BY DEF Typed, WriterTyped, NeverPanics
<1>2. QED
  BY <1>1, AlwaysTyped, PTL

-----------------------------------------------------------------------------
(* The protocol, for block sizes by which the driver can tell a last       *)
(* segment from an initiate and from an end                                *)

SmallGrants == \A g \in Grants : g < 64

IsSegment(p) == Specifier(p) # CS_6
OnlySegments(q) == \A i \in 1..Len(q) : IsSegment(q[i])
SegmentsThenEnd(q) ==
    \A i \in 1..Len(q) : IsSegment(q[i]) \/ (i = Len(q) /\ q[i] \in Ends)

NoInitiates(q) == \A i \in 1..Len(q) : ~IsInitiateWithBlksize(q[i])
Confirms(q) == \E i \in 1..Len(q) : IsEndResponse(q[i])

\* How many segments such a queue has.
SegmentCount(q) == IF q # <<>> /\ q[Len(q)] \in Ends THEN Len(q) - 1 ELSE Len(q)

\* The client of a download, or the receiver of an upload, has got an answer.
Streams ==
    IF direction = "download"
    THEN sender \in {"streaming", "waiting", "ending", "ok"}
    ELSE receiver \in {"receiving", "accepted", "refused", "overflow"}

\* From then on the segments come in order and the end comes last; the bytes
\* received and under way are at most those the writer has cut off.
StreamInv ==
    /\ sender \in {"opening", "streaming", "waiting", "ending", "ok"}
    /\ NoInitiates(toSender)
    /\ SegmentsThenEnd(toReceiver)
    /\ sender \in {"opening", "streaming", "waiting"} => OnlySegments(toReceiver)
    /\ sender = "opening" => toReceiver = <<>>
    /\ receiver = "receiving" => Len(buf) + 7 * SegmentCount(toReceiver) <= Padded(writer.pos)

\* Before, there is one frame under way at most, an initiate of either side.
OpeningInv ==
    /\ sender # "streaming"
    /\ \/ Drained
       \/ /\ direction = "download" /\ sender = "opening"
          /\ toSender = <<>>
          /\ Len(toReceiver) = 1 /\ IsInitiateWithSize(toReceiver[1])
       \/ /\ direction = "download" /\ sender = "opening"
          /\ toReceiver = <<>>
          /\ Len(toSender) = 1 /\ IsInitiateWithBlksize(toSender[1])
          /\ buf = <<>>
       \/ /\ direction = "upload" /\ receiver = "opening"
          /\ toReceiver = <<>>
          /\ Len(toSender) = 1 /\ IsInitiateWithBlksize(toSender[1])
          /\ buf = <<>>
       \/ /\ direction = "upload" /\ receiver = "opening" /\ sender = "opening"
          /\ toSender = <<>>
          /\ Len(toReceiver) = 1 /\ IsInitiateWithSize(toReceiver[1])
          /\ buf = <<>> /\ writer.pos = 0

\* A confirmation under way or received is that of a receiver that accepted.
Confirmed == sender = "ok" \/ Confirms(toSender) => receiver = "accepted"

\* Segments are cut at multiples of seven bytes.
Aligned == writer.pos = Len(data) \/ writer.pos % 7 = 0

ProtocolInv ==
    /\ IF Streams THEN StreamInv ELSE OpeningInv
    /\ Confirmed
    /\ Aligned
    /\ OverflowIsDeserved

-----------------------------------------------------------------------------
(* Queues of segments                                                      *)

LEMMA EmptyQueue ==
    /\ OnlySegments(<<>>)
    /\ SegmentsThenEnd(<<>>)
    /\ SegmentCount(<<>>) = 0
BY DEF OnlySegments, SegmentsThenEnd, SegmentCount

\* An end is no segment, a segment no initiate.
LEMMA KindsOfFrames ==
    ASSUME NEW p \in Frames \cup Ends
    PROVE  /\ p \in Ends => ~IsSegment(p) /\ ~IsInitiateWithSize(p)
           /\ IsSegment(p) => ~IsInitiateWithSize(p) /\ ~IsEnd(p)
           /\ IsInitiateWithSize(p) => ~IsEnd(p)
<1>1. ASSUME p \in Frames, IsInitiateWithSize(p) PROVE ~IsEnd(p)
  <2>1. p[1] \in Byte
    BY <1>1 DEF Frames
  <2>2. PICK b \in Byte : b = p[1]
    BY <2>1
  <2>3. b % 4 = 1 => (b \div 1) % 2 = 1
    BY DEF Byte
  <2>4. (b \div 1) % 2 # 1
    BY <1>1, <2>2 DEF IsInitiateWithSize, Bit, BitField, SUBCMD_END
  <2>5. QED
    BY <2>2, <2>3, <2>4 DEF IsEnd, Subcommand, SUBCMD_END
<1>2. QED
  BY <1>1, EndFrames DEF IsSegment, IsInitiateWithSize, IsEnd

LEMMA QueueTaken ==
    ASSUME NEW q \in Seq(Frames \cup Ends), q # <<>>, SegmentsThenEnd(q)
    PROVE  /\ SegmentsThenEnd(Tail(q))
           /\ OnlySegments(q) => OnlySegments(Tail(q))
           /\ ~IsInitiateWithSize(Head(q))
           /\ ~IsSegment(Head(q)) => Tail(q) = <<>>
           /\ SegmentCount(q) \in Nat /\ SegmentCount(Tail(q)) \in Nat
           /\ SegmentCount(Tail(q)) <= SegmentCount(q)
           /\ IsSegment(Head(q)) => SegmentCount(Tail(q)) = SegmentCount(q) - 1
<1>1. /\ Head(q) = q[1]
      /\ Tail(q) \in Seq(Frames \cup Ends) /\ Len(Tail(q)) = Len(q) - 1
      /\ Len(q) \in Nat /\ Len(q) >= 1
      /\ \A i \in 1..Len(Tail(q)) : Tail(q)[i] = q[i + 1]
  BY Taken
<1> DEFINE t == Tail(q)
<1> HIDE DEF t
<1>2. /\ t \in Seq(Frames \cup Ends) /\ Len(t) = Len(q) - 1
      /\ \A i \in 1..Len(t) : t[i] = q[i + 1] /\ i + 1 \in 1..Len(q)
      /\ t # <<>> <=> Len(t) # 0
  BY <1>1 DEF t
<1>3. SegmentsThenEnd(t)
  <2> SUFFICES ASSUME NEW i \in 1..Len(t)
               PROVE  IsSegment(t[i]) \/ (i = Len(t) /\ t[i] \in Ends)
    BY DEF SegmentsThenEnd
  <2>1. t[i] = q[i + 1] /\ i + 1 \in 1..Len(q)
    BY <1>2
  <2>2. IsSegment(q[i + 1]) \/ (i + 1 = Len(q) /\ q[i + 1] \in Ends)
    BY <2>1 DEF SegmentsThenEnd
  <2>3. i + 1 = Len(q) => i = Len(t)
    <3>1. Len(t) = Len(q) - 1 /\ Len(q) \in Nat
      BY <1>1, <1>2
    <3>2. QED
      BY <3>1
  <2>4. QED
    BY <2>1, <2>2, <2>3
<1>4. OnlySegments(q) => OnlySegments(t)
  BY <1>1, <1>2 DEF OnlySegments
<1>5. /\ IsSegment(q[1]) \/ (Len(q) = 1 /\ q[1] \in Ends)
      /\ q[1] \in Frames \cup Ends
  <2>1. 1 \in 1..Len(q) /\ q[1] \in Frames \cup Ends
    BY <1>1
  <2>2. IsSegment(q[1]) \/ (1 = Len(q) /\ q[1] \in Ends)
    BY <2>1 DEF SegmentsThenEnd
  <2>3. QED
    BY <2>1, <2>2
<1>6. ~IsInitiateWithSize(q[1])
  BY <1>5, KindsOfFrames
<1>7. ~IsSegment(q[1]) => Len(t) = 0
  BY <1>1, <1>2, <1>5
<1>8. Len(q) = 1 \/ (Len(t) >= 1 /\ t[Len(t)] = q[Len(q)])
  BY <1>1, <1>2
<1>9. IsSegment(q[1]) => q[1] \notin Ends
  BY KindsOfFrames
<1>10. /\ SegmentCount(q) \in Nat /\ SegmentCount(t) \in Nat
       /\ SegmentCount(t) <= SegmentCount(q)
       /\ IsSegment(q[1]) => SegmentCount(t) = SegmentCount(q) - 1
  BY <1>1, <1>2, <1>5, <1>8, <1>9 DEF SegmentCount
<1>11. QED
  BY <1>1, <1>2, <1>3, <1>4, <1>6, <1>7, <1>10 DEF t

LEMMA QueuePut ==
    ASSUME NEW q \in Seq(Frames \cup Ends), OnlySegments(q), NEW p \in Frames \cup Ends
    PROVE  /\ SegmentCount(q) = Len(q)
           /\ IsSegment(p) => /\ OnlySegments(Append(q, p))
                              /\ SegmentCount(Append(q, p)) = Len(q) + 1
           /\ p \in Ends => SegmentCount(Append(q, p)) = Len(q)
           /\ IsSegment(p) \/ p \in Ends => SegmentsThenEnd(Append(q, p))
<1> DEFINE a == Append(q, p)
<1> HIDE DEF a
<1>1. /\ a \in Seq(Frames \cup Ends) /\ Len(q) \in Nat /\ Len(a) = Len(q) + 1
      /\ a[Len(a)] = p /\ a # <<>>
      /\ \A i \in 1..Len(q) : a[i] = q[i]
  BY Put DEF a
<1>2. SegmentCount(q) = Len(q)
  <2>1. q # <<>> => Len(q) \in 1..Len(q) /\ q[Len(q)] \in Frames \cup Ends
    OBVIOUS
  <2>2. q # <<>> => q[Len(q)] \notin Ends
    BY <2>1, KindsOfFrames DEF OnlySegments
  <2>3. QED
    BY <2>2 DEF SegmentCount
<1>3. \A i \in 1..Len(a) : IsSegment(a[i]) \/ (i = Len(a) /\ a[i] = p)
  BY <1>1 DEF OnlySegments
<1>4. IsSegment(p) => OnlySegments(a) /\ SegmentCount(a) = Len(q) + 1
  BY <1>1, <1>3, KindsOfFrames DEF OnlySegments, SegmentCount
<1>5. p \in Ends => SegmentCount(a) = Len(q)
  BY <1>1 DEF SegmentCount
<1>6. IsSegment(p) \/ p \in Ends => SegmentsThenEnd(a)
  BY <1>1, <1>3 DEF SegmentsThenEnd
<1>7. QED
  BY <1>2, <1>4, <1>5, <1>6 DEF a

\* The length of data filled up to whole segments.
LEMMA PaddedLength ==
    /\ \A n \in Nat : Padded(n) \in Nat
    /\ \A m, n \in Nat : m <= n => Padded(m) <= Padded(n)
    /\ Padded(0) = 0
    /\ \A n \in Nat : n % 7 = 0 => Padded(n) = n
    /\ \A m, n \in Nat : m % 7 = 0 /\ n \in (m + 1)..(m + 7) => Padded(n) = m + 7
BY DEF Padded, SEGMENT_DATA_MAX

LEMMA RepliesTaken ==
    ASSUME NEW q \in Seq(Replies), q # <<>>
    PROVE  /\ NoInitiates(q) => NoInitiates(Tail(q)) /\ ~IsInitiateWithBlksize(Head(q))
           /\ Confirms(Tail(q)) => Confirms(q)
           /\ IsEndResponse(Head(q)) => Confirms(q)
           /\ Len(q) = 1 => Tail(q) = <<>>
<1>1. /\ Head(q) = q[1] /\ 1 \in 1..Len(q)
      /\ \A i \in 1..Len(Tail(q)) : Tail(q)[i] = q[i + 1] /\ i + 1 \in 1..Len(q)
  OBVIOUS
<1>2. NoInitiates(q) => NoInitiates(Tail(q)) /\ ~IsInitiateWithBlksize(Head(q))
  BY <1>1 DEF NoInitiates
<1>3. Confirms(Tail(q)) => Confirms(q)
  BY <1>1 DEF Confirms
<1>4. IsEndResponse(Head(q)) => Confirms(q)
  BY <1>1 DEF Confirms
<1>5. Len(q) = 1 => Tail(q) = <<>>
  BY LastTaken
<1>6. QED
  BY <1>2, <1>3, <1>4, <1>5

LEMMA RepliesPut ==
    ASSUME NEW q \in Seq(Replies), NEW p \in Replies
    PROVE  /\ NoInitiates(q) /\ ~IsInitiateWithBlksize(p) => NoInitiates(Append(q, p))
           /\ Confirms(Append(q, p)) => Confirms(q) \/ IsEndResponse(p)
<1>1. \A i \in 1..Len(Append(q, p)) :
          \/ i \in 1..Len(q) /\ Append(q, p)[i] = q[i]
          \/ Append(q, p)[i] = p
  BY Put
<1>2. NoInitiates(q) /\ ~IsInitiateWithBlksize(p) => NoInitiates(Append(q, p))
  BY <1>1 DEF NoInitiates
<1>3. Confirms(Append(q, p)) => Confirms(q) \/ IsEndResponse(p)
  BY <1>1 DEF Confirms
<1>4. QED
  BY <1>2, <1>3

LEMMA NoReplies == NoInitiates(<<>>) /\ ~Confirms(<<>>)
BY DEF NoInitiates, Confirms

\* A frame put into an empty queue is the only one.
LEMMA Single ==
    ASSUME NEW S, NEW e \in S
    PROVE  Len(Append(<<>>, e)) = 1 /\ Append(<<>>, e)[1] = e
<1>1. <<>> \in Seq(S)
  OBVIOUS
<1>2. QED
  BY <1>1, Put

LEMMA KindsOfReplies ==
    ASSUME NEW p
    PROVE  /\ IsInitiateWithBlksize(p) => ~IsUploadStart(p) /\ ~IsSubResponse(p)
           /\ IsInitiateWithBlksize(p) => ~IsEndResponse(p)
           /\ IsUploadStart(p) \/ IsSubResponse(p) => ~IsEndResponse(p)
BY DEF IsInitiateWithBlksize, IsUploadStart, IsSubResponse, IsEndResponse,
       SUBCMD_START, SUBCMD_RESPONSE, SUBCMD_END

-----------------------------------------------------------------------------
(* The protocol invariant                                                  *)

LEMMA ProtocolInit == Init => ProtocolInv
<1> SUFFICES ASSUME Init PROVE ProtocolInv
  OBVIOUS
<1>1. ~Streams /\ OpeningInv
  BY DEF Init, Streams, OpeningInv, Drained
<1>2. Confirmed /\ Aligned /\ OverflowIsDeserved
  BY NoReplies DEF Init, Confirmed, Aligned, OverflowIsDeserved
<1>3. QED
  BY <1>1, <1>2 DEF ProtocolInv

\* The client opens a transfer only with nothing under way.
LEMMA StartsInProtocol ==
    ASSUME Typed, ProtocolInv, StartDownload \/ StartUpload
    PROVE  ProtocolInv'
<1>1. CASE StartDownload
  <2> DEFINE frame == EncodeInitiateWithSize(Addr, Len(data), crcs[1])
  <2>1. ~Streams /\ Drained
    BY <1>1 DEF StartDownload, ProtocolInv, Streams, OpeningInv
  <2>2. frame \in Frames /\ IsInitiateWithSize(frame)
    BY DataTyped, SizeInitiates DEF Typed, WriterTyped
  <2> HIDE DEF frame
  <2>3. /\ direction' = "download" /\ sender' = "opening"
        /\ toReceiver' = Append(<<>>, frame) /\ toSender' = <<>>
        /\ UNCHANGED <<data, writer, receiver>>
    BY <1>1, <2>1 DEF StartDownload, ToReceiver, Drained, receiverVars, frame
  <2>4. Len(toReceiver') = 1 /\ IsInitiateWithSize(toReceiver'[1])
    BY <2>2, <2>3, Single
  <2>5. ~Streams' /\ OpeningInv'
    BY <2>3, <2>4 DEF Streams, OpeningInv
  <2>6. Confirmed' /\ Aligned' /\ OverflowIsDeserved'
    BY <2>3, NoReplies DEF ProtocolInv, Confirmed, Aligned, OverflowIsDeserved
  <2>7. QED
    BY <2>5, <2>6 DEF ProtocolInv
<1>2. CASE StartUpload
  <2> DEFINE frame == EncodeInitiateWithBlksize(Addr, granted', crcs[2])
  <2>1. ~Streams /\ Drained /\ sender # "streaming"
    BY <1>2 DEF StartUpload, ProtocolInv, Streams, OpeningInv
  <2>2. frame \in Replies /\ IsInitiateWithBlksize(frame)
    <3>1. granted' \in Grants /\ Addr \in Int \X Byte /\ crcs[2] \in BOOLEAN
      BY <1>2, BlockTransferAssumption DEF StartUpload, Typed, WriterTyped
    <3>2. QED
      BY <3>1, BlksizeInitiates
  <2> HIDE DEF frame
  <2>3. /\ direction' = "upload" /\ receiver' = "opening" /\ buf' = <<>>
        /\ toReceiver' = <<>> /\ toSender' = Append(<<>>, frame)
        /\ UNCHANGED <<data, writer, sender>>
    BY <1>2, <2>1 DEF StartUpload, NewReceiver, ToSender, Drained, writerVars, frame
  <2>4. Len(toSender') = 1 /\ IsInitiateWithBlksize(toSender'[1])
    BY <2>2, <2>3, Single
  <2>5. ~Streams' /\ OpeningInv'
    BY <2>1, <2>3, <2>4 DEF Streams, OpeningInv
  <2>6. ~Confirms(toSender')
    <3>1. <<>> \in Seq(Replies)
      OBVIOUS
    <3>2. QED
      BY <2>2, <2>3, <3>1, RepliesPut, NoReplies, KindsOfReplies
  <2>7. sender # "ok"
    BY <1>2 DEF StartUpload, ProtocolInv, Confirmed
  <2>8. Confirmed' /\ Aligned' /\ OverflowIsDeserved'
    BY <2>3, <2>6, <2>7 DEF ProtocolInv, Confirmed, Aligned, OverflowIsDeserved
  <2>9. QED
    BY <2>5, <2>8 DEF ProtocolInv
<1>3. QED
  BY <1>1, <1>2

LEMMA InitiateResponseInProtocol ==
    ASSUME Typed, ProtocolInv, OnDownloadInitiateResponse
    PROVE  ProtocolInv'
<1>1. /\ ~Streams /\ buf = <<>> /\ toReceiver = <<>>
      /\ Len(toSender) = 1 /\ IsInitiateWithBlksize(toSender[1])
  BY DEF OnDownloadInitiateResponse, SenderTakes, ProtocolInv, Streams, OpeningInv, Drained
<1>2. Head(toSender) = toSender[1] /\ Tail(toSender) = <<>>
  BY <1>1, Taken, RepliesTaken DEF OnDownloadInitiateResponse, SenderTakes, Typed, BusTyped
<1>3. /\ direction' = "download" /\ sender' = "streaming" /\ writer'.pos = 0
      /\ toSender' = <<>> /\ toReceiver' = <<>> /\ buf' = <<>>
      /\ UNCHANGED <<data, receiver>>
  BY <1>1, <1>2 DEF OnDownloadInitiateResponse, SenderTakes, New, receiverVars
<1>4. Streams' /\ StreamInv'
  <2>1. Len(buf') + 7 * SegmentCount(toReceiver') = 0 /\ Padded(writer'.pos) = 0
    BY <1>3, EmptyQueue, PaddedLength
  <2>2. QED
    BY <1>3, <2>1, EmptyQueue, NoReplies DEF Streams, StreamInv
<1>5. Confirmed' /\ Aligned' /\ OverflowIsDeserved'
  BY <1>3, NoReplies DEF ProtocolInv, Confirmed, Aligned, OverflowIsDeserved
<1>6. QED
  BY <1>4, <1>5 DEF ProtocolInv

LEMMA UploadInitiateInProtocol ==
    ASSUME Typed, ProtocolInv, OnUploadInitiate
    PROVE  ProtocolInv'
<1> DEFINE frame == EncodeInitiateWithSize(Addr, Len(data), crcs[1])
<1>1. frame \in Frames /\ IsInitiateWithSize(frame)
  BY DataTyped, SizeInitiates DEF Typed, WriterTyped
<1> HIDE DEF frame
<1>2. /\ direction = "upload" /\ SenderTakes /\ IsInitiateWithBlksize(Head(toSender))
      /\ direction' = "upload" /\ sender' = "opening" /\ writer'.pos = 0
      /\ toReceiver' = Append(toReceiver, frame)
      /\ UNCHANGED <<data, buf, receiver>>
  BY DEF OnUploadInitiate, New, ToReceiver, receiverVars, frame
<1>3. ~Streams
  BY <1>2, RepliesTaken DEF SenderTakes, Typed, BusTyped, ProtocolInv, StreamInv
<1>4. receiver = "opening" /\ toReceiver = <<>> /\ Len(toSender) = 1 /\ buf = <<>>
  BY <1>2, <1>3 DEF SenderTakes, ProtocolInv, OpeningInv, Drained
<1>5. toSender' = <<>>
  BY <1>2, <1>4, RepliesTaken DEF SenderTakes, Typed, BusTyped
<1>6. Len(toReceiver') = 1 /\ IsInitiateWithSize(toReceiver'[1])
  BY <1>1, <1>2, <1>4, Single
<1>7. ~Streams' /\ OpeningInv'
  BY <1>2, <1>4, <1>5, <1>6 DEF Streams, OpeningInv
<1>8. Confirmed' /\ Aligned' /\ OverflowIsDeserved'
  BY <1>2, <1>5, NoReplies DEF ProtocolInv, Confirmed, Aligned, OverflowIsDeserved
<1>9. QED
  BY <1>7, <1>8 DEF ProtocolInv

\* Replies that are no initiates come in a stream only.
LEMMA RepliesOfStream ==
    ASSUME Typed, ProtocolInv, SenderTakes,
           \/ IsUploadStart(Head(toSender)) /\ direction = "upload"
           \/ IsSubResponse(Head(toSender)) /\ sender \in {"waiting", "ending"}
           \/ IsEndResponse(Head(toSender)) /\ sender = "ending"
    PROVE  Streams
<1>1. SUFFICES ASSUME ~Streams PROVE FALSE
  OBVIOUS
<1>2. OpeningInv /\ toSender # <<>> /\ direction \in {"download", "upload"}
  BY <1>1 DEF ProtocolInv, SenderTakes, Typed, WriterTyped
<1>3. direction = "upload"
  BY <1>1, <1>2 DEF Streams
<1>4. IsInitiateWithBlksize(toSender[1])
  BY <1>2, <1>3 DEF OpeningInv, Drained
<1>5. Head(toSender) = toSender[1]
  BY <1>2, Taken DEF Typed, BusTyped
<1>6. QED
  BY <1>4, <1>5, KindsOfReplies

LEMMA ResponsesInProtocol ==
    ASSUME Typed, ProtocolInv, OnUploadStart \/ OnSubResponse \/ OnEndResponse
    PROVE  ProtocolInv'
<1>1. /\ SenderTakes /\ writer'.pos = writer.pos
      /\ UNCHANGED <<direction, data, buf, receiver, toReceiver>>
      /\ sender' = sender \/ sender' \in {"streaming", "ok"}
      /\ sender \in {"opening", "waiting", "ending"}
      /\ sender' = "streaming" => sender \in {"opening", "waiting"}
      /\ sender' = "opening" => sender = "opening"
      /\ sender' = "waiting" => sender = "waiting"
      /\ sender' = "ok" => IsEndResponse(Head(toSender))
      /\ direction = "download" => sender # "opening"
  BY DEF OnUploadStart, OnSubResponse, OnEndResponse, StartSubBlock, receiverVars,
         Typed, WriterTyped
<1>2. Streams
  BY RepliesOfStream DEF OnUploadStart, OnSubResponse, OnEndResponse
<1>3. StreamInv
  BY <1>2 DEF ProtocolInv
<1>4. /\ NoInitiates(toSender')
      /\ Confirms(toSender') => Confirms(toSender)
      /\ IsEndResponse(Head(toSender)) => Confirms(toSender)
  BY <1>1, <1>3, RepliesTaken DEF SenderTakes, StreamInv, Typed, BusTyped
<1>5. Streams' /\ StreamInv'
  BY <1>1, <1>2, <1>3, <1>4 DEF Streams, StreamInv
<1>6. Confirmed' /\ Aligned' /\ OverflowIsDeserved'
  BY <1>1, <1>4 DEF ProtocolInv, Confirmed, Aligned, OverflowIsDeserved
<1>7. QED
  BY <1>5, <1>6 DEF ProtocolInv

\* The stream goes on: nothing but toReceiver, the position and the sender's
\* phase changes, and it changes as the stream demands.
LEMMA StreamGrows ==
    ASSUME Typed, ProtocolInv, sender = "streaming",
           UNCHANGED <<direction, data, receiverVars, toSender>>,
           sender' \in {"streaming", "waiting", "ending"},
           SegmentsThenEnd(toReceiver'),
           sender' # "ending" => OnlySegments(toReceiver'),
           7 * SegmentCount(toReceiver') - 7 * SegmentCount(toReceiver) <=
               Padded(writer'.pos) - Padded(writer.pos),
           SegmentCount(toReceiver) \in Nat, SegmentCount(toReceiver') \in Nat,
           Padded(writer.pos) \in Nat, Padded(writer'.pos) \in Nat,
           Aligned'
    PROVE  ProtocolInv'
<1>1. Streams /\ StreamInv
  BY DEF ProtocolInv, OpeningInv
<1>2. UNCHANGED <<buf, receiver>> /\ Len(buf) \in Nat
  BY DEF receiverVars, Typed, ReceiverTyped
<1>3. Streams'
  BY <1>1, <1>2 DEF Streams
<1>4. receiver = "receiving" => Len(buf) + 7 * SegmentCount(toReceiver') <= Padded(writer'.pos)
  BY <1>1, <1>2 DEF StreamInv
<1>5. StreamInv'
  BY <1>1, <1>2, <1>4 DEF StreamInv
<1>6. Confirmed' /\ OverflowIsDeserved'
  BY <1>2 DEF ProtocolInv, Confirmed, OverflowIsDeserved
<1>7. QED
  BY <1>3, <1>5, <1>6 DEF ProtocolInv

\* The segment that next_segment puts on the bus.
SentSegment == EncodeSubSegment(writer.seqno, Chunk, Remaining <= SEGMENT_DATA_MAX)

LEMMA SegmentPut ==
    ASSUME SmallGrants, Typed, ProtocolInv, NextSegment
    PROVE  /\ sender = "streaming" /\ ~IsDone
           /\ Len(data) \in Nat /\ writer.pos \in 0..Len(data) /\ writer.pos % 7 = 0
           /\ Take \in 1..7 /\ writer.pos + Take \in 0..Len(data)
           /\ Take = 7 \/ writer.pos + Take = Len(data)
           /\ SentSegment \in Frames /\ IsSegment(SentSegment)
           /\ toReceiver' = Append(toReceiver, SentSegment)
           /\ writer'.pos = writer.pos + Take
           /\ Padded(writer.pos) = writer.pos /\ Padded(writer'.pos) = writer.pos + 7
           /\ UNCHANGED <<sender, direction, data, receiverVars, toSender>>
           /\ OnlySegments(toReceiver) /\ toReceiver \in Seq(Frames \cup Ends)
<1>1. /\ sender = "streaming" /\ ~IsDone /\ ~SubBlockFull
      /\ data \in Seq(Byte) /\ Len(data) \in Nat /\ writer.pos \in 0..Len(data)
  BY DataTyped DEF NextSegment, Typed, WriterTyped
<1>2. /\ SubSegmentOK(writer.seqno, Chunk)
      /\ writer.seqno \in 1..MaxBlksize /\ writer.seqno <= writer.blksize
  BY <1>1, SegmentInRange
<1>3. writer.seqno < 64
  <2>1. writer.blksize \in {0} \cup Grants
    BY DEF Typed, WriterTyped
  <2>2. \A g \in Grants : g \in Nat
    BY BlockTransferAssumption
  <2>3. writer.blksize \in Nat /\ writer.blksize < 64
    BY <2>1, <2>2 DEF SmallGrants
  <2>4. QED
    BY <1>2, <2>3
<1>4. SentSegment \in Frames /\ IsSegment(SentSegment)
  <2>1. (Remaining <= SEGMENT_DATA_MAX) \in BOOLEAN
    BY <1>1 DEF Remaining, SEGMENT_DATA_MAX
  <2>2. Chunk \in Seq(Byte)
    BY <1>1, Chunks
  <2>3. QED
    BY <1>2, <1>3, <2>1, <2>2, Segments DEF IsSegment, SentSegment
<1>5. /\ Take \in 1..7 /\ writer.pos + Take \in 0..Len(data)
      /\ Take = 7 \/ writer.pos + Take = Len(data)
  BY <1>1, Chunks DEF SEGMENT_DATA_MAX
<1>6. /\ toReceiver' = Append(toReceiver, SentSegment)
      /\ writer'.pos = writer.pos + Take
      /\ UNCHANGED <<sender, direction, data, receiverVars, toSender>>
  BY <1>2 DEF NextSegment, ToReceiver, Typed, WriterTyped, SentSegment
<1>7. OnlySegments(toReceiver) /\ toReceiver \in Seq(Frames \cup Ends)
  BY <1>1 DEF ProtocolInv, OpeningInv, StreamInv, Typed, BusTyped
<1>8. writer.pos % 7 = 0
  BY <1>1 DEF ProtocolInv, Aligned, IsDone
<1>9. Padded(writer.pos) = writer.pos /\ Padded(writer'.pos) = writer.pos + 7
  <2>1. /\ writer.pos \in Nat /\ writer.pos + Take \in Nat
        /\ writer.pos + Take \in (writer.pos + 1)..(writer.pos + 7)
    BY <1>1, <1>5
  <2>2. QED
    BY <1>6, <1>8, <2>1, PaddedLength
<1>10. QED
  BY <1>1, <1>4, <1>5, <1>6, <1>7, <1>8, <1>9

LEMMA NextSegmentInProtocol ==
    ASSUME SmallGrants, Typed, ProtocolInv, NextSegment
    PROVE  ProtocolInv'
<1>1. /\ SentSegment \in Frames /\ IsSegment(SentSegment)
      /\ toReceiver' = Append(toReceiver, SentSegment)
      /\ OnlySegments(toReceiver) /\ toReceiver \in Seq(Frames \cup Ends)
  BY SegmentPut
<1>2. /\ writer.pos \in Nat /\ writer.pos % 7 = 0
      /\ Take = 7 \/ writer.pos + Take = Len(data)
      /\ Padded(writer.pos) = writer.pos /\ Padded(writer'.pos) = writer.pos + 7
      /\ writer'.pos = writer.pos + Take
  BY SegmentPut
<1>3. /\ sender = "streaming"
      /\ UNCHANGED <<sender, direction, data, receiverVars, toSender>>
  BY SegmentPut
<1>4. /\ SegmentCount(toReceiver) \in Nat
      /\ SegmentCount(toReceiver') = SegmentCount(toReceiver) + 1
      /\ OnlySegments(toReceiver') /\ SegmentsThenEnd(toReceiver')
  BY <1>1, QueuePut
<1>5. Aligned'
  <2>1. (writer.pos + 7) % 7 = 0
    BY <1>2
  <2>2. QED
    BY <1>2, <1>3, <2>1 DEF Aligned
<1>6. /\ SegmentCount(toReceiver') \in Nat
      /\ Padded(writer.pos) \in Nat /\ Padded(writer'.pos) \in Nat
      /\ 7 * SegmentCount(toReceiver') - 7 * SegmentCount(toReceiver) <=
             Padded(writer'.pos) - Padded(writer.pos)
  BY <1>2, <1>4
<1>7. QED
  BY <1>3, <1>4, <1>5, <1>6, StreamGrows

LEMMA EndSubBlockInProtocol ==
    ASSUME Typed, ProtocolInv, EndSubBlock
    PROVE  ProtocolInv'
<1> DEFINE frame == EncodeEnd(Unused, IF Verify THEN Crc16(data) ELSE 0)
<1>1. frame \in Ends
  BY EndFrameTyped
<1> HIDE DEF frame
<1>2. /\ sender = "streaming"
      /\ UNCHANGED <<direction, data, writer, receiverVars, toSender>>
      /\ \/ sender' = "ending" /\ toReceiver' = Append(toReceiver, frame)
         \/ sender' = "waiting" /\ toReceiver' = toReceiver
  BY DEF EndSubBlock, ToReceiver, frame
<1>3. OnlySegments(toReceiver) /\ SegmentsThenEnd(toReceiver) /\ toReceiver \in Seq(Frames \cup Ends)
  BY <1>2 DEF ProtocolInv, OpeningInv, StreamInv, Typed, BusTyped
<1>4. /\ SegmentCount(toReceiver) = Len(toReceiver)
      /\ SegmentCount(Append(toReceiver, frame)) = Len(toReceiver)
      /\ SegmentsThenEnd(Append(toReceiver, frame))
  BY <1>1, <1>3, QueuePut
<1>5. Padded(writer.pos) \in Nat
  BY DataTyped, PaddedLength DEF Typed, WriterTyped
<1>6. Aligned'
  BY <1>2 DEF ProtocolInv, Aligned
<1>7. /\ SegmentCount(toReceiver) \in Nat
      /\ SegmentCount(toReceiver') = SegmentCount(toReceiver)
  <2>1. Len(toReceiver) \in Nat
    BY <1>3
  <2>2. toReceiver' = Append(toReceiver, frame) \/ toReceiver' = toReceiver
    BY <1>2
  <2>3. SegmentCount(toReceiver') = Len(toReceiver)
    BY <1>4, <2>2, Zenon
  <2>4. QED
    BY <1>4, <2>1, <2>3, Zenon
<1>8. /\ SegmentsThenEnd(toReceiver')
      /\ sender' # "ending" => OnlySegments(toReceiver')
      /\ sender' \in {"streaming", "waiting", "ending"}
  BY <1>2, <1>3, <1>4
<1>9. Padded(writer'.pos) = Padded(writer.pos)
  BY <1>2
<1>10. /\ UNCHANGED <<direction, data, receiverVars, toSender>>
       /\ SegmentCount(toReceiver') \in Nat /\ Padded(writer'.pos) \in Nat
       /\ 7 * SegmentCount(toReceiver') - 7 * SegmentCount(toReceiver) <=
              Padded(writer'.pos) - Padded(writer.pos)
  BY <1>2, <1>5, <1>7, <1>9
<1>11. QED
  BY <1>2, <1>5, <1>6, <1>7, <1>8, <1>10, StreamGrows

LEMMA OpeningAnswersInProtocol ==
    ASSUME Typed, ProtocolInv, OnUploadInitiateResponse \/ OnDownloadInitiate
    PROVE  ProtocolInv'
<1>1. CASE OnUploadInitiateResponse
  <2>1. ~Streams /\ toReceiver # <<>>
    BY <1>1 DEF OnUploadInitiateResponse, ReceiverTakes, Streams
  <2>2. /\ sender = "opening" /\ toSender = <<>> /\ buf = <<>>
        /\ Len(toReceiver) = 1 /\ IsInitiateWithSize(toReceiver[1])
    BY <1>1, <2>1 DEF OnUploadInitiateResponse, ProtocolInv, OpeningInv, Drained
  <2>3. Head(toReceiver) = toReceiver[1] /\ Tail(toReceiver) = <<>>
    BY <2>1, <2>2, Taken, LastTaken DEF Typed, BusTyped
  <2>4. /\ direction' = "upload" /\ receiver' = "receiving" /\ sender' = "opening" /\ buf' = <<>>
        /\ toReceiver' = <<>> /\ toSender' = Append(<<>>, EncodeUploadStart)
        /\ UNCHANGED <<data, writer>>
    BY <1>1, <2>2, <2>3
       DEF OnUploadInitiateResponse, ReceiverTakes, ToSender, writerVars
  <2>5. NoInitiates(toSender') /\ ~Confirms(toSender')
    <3>1. <<>> \in Seq(Replies)
      OBVIOUS
    <3>2. QED
      BY <2>4, <3>1, RepliesPut, NoReplies, UploadStarts
  <2>6. Len(buf') + 7 * SegmentCount(toReceiver') <= Padded(writer'.pos)
    <3>1. Padded(writer'.pos) \in Nat
      BY <2>4, DataTyped, PaddedLength DEF Typed, WriterTyped
    <3>2. QED
      BY <2>4, <3>1, EmptyQueue
  <2>7. Streams' /\ StreamInv'
    BY <2>4, <2>5, <2>6, EmptyQueue DEF Streams, StreamInv
  <2>8. Confirmed' /\ Aligned' /\ OverflowIsDeserved'
    BY <2>4, <2>5 DEF ProtocolInv, Confirmed, Aligned, OverflowIsDeserved
  <2>9. QED
    BY <2>7, <2>8 DEF ProtocolInv
<1>2. CASE OnDownloadInitiate
  <2> DEFINE frame == EncodeInitiateWithBlksize(AddressOf(Head(toReceiver)), granted', crcs[2])
  <2>1. direction = "download" /\ toReceiver # <<>> /\ IsInitiateWithSize(Head(toReceiver))
    BY <1>2 DEF OnDownloadInitiate, ReceiverTakes
  <2>2. ~Streams
    BY <2>1, QueueTaken DEF ProtocolInv, StreamInv, Typed, BusTyped
  <2>3. sender = "opening" /\ toSender = <<>> /\ Len(toReceiver) = 1
    BY <2>1, <2>2 DEF ProtocolInv, OpeningInv, Drained
  <2>4. frame \in Replies /\ IsInitiateWithBlksize(frame) /\ ~IsEndResponse(frame)
    <3>1. Head(toReceiver) \in Frames
      BY <2>1, Taken, EndFrames DEF Typed, BusTyped
    <3>2. AddressOf(Head(toReceiver)) \in Int \X Byte
      BY <3>1, Addresses
    <3>3. granted' \in Grants /\ crcs[2] \in BOOLEAN
      BY <1>2 DEF OnDownloadInitiate, Typed, WriterTyped
    <3>4. QED
      BY <3>2, <3>3, BlksizeInitiates
  <2> HIDE DEF frame
  <2>5. Tail(toReceiver) = <<>>
    BY <2>1, <2>3, LastTaken DEF Typed, BusTyped
  <2>6. /\ direction' = "download" /\ receiver' = "receiving" /\ sender' = "opening" /\ buf' = <<>>
        /\ toReceiver' = <<>> /\ toSender' = Append(<<>>, frame)
        /\ UNCHANGED <<data, writer>>
    BY <1>2, <2>3, <2>5
       DEF OnDownloadInitiate, NewReceiver, ReceiverTakes, ToSender, writerVars, frame
  <2>7. Len(toSender') = 1 /\ IsInitiateWithBlksize(toSender'[1])
    BY <2>4, <2>6, Single
  <2>8. ~Streams' /\ OpeningInv'
    BY <2>6, <2>7 DEF Streams, OpeningInv
  <2>9. ~Confirms(toSender')
    <3>1. <<>> \in Seq(Replies)
      OBVIOUS
    <3>2. QED
      BY <2>4, <2>6, <3>1, RepliesPut, NoReplies
  <2>10. Confirmed' /\ Aligned' /\ OverflowIsDeserved'
    BY <2>6, <2>9 DEF ProtocolInv, Confirmed, Aligned, OverflowIsDeserved
  <2>11. QED
    BY <2>8, <2>10 DEF ProtocolInv
<1>3. QED
  BY <1>1, <1>2

\* Every byte under way has been cut off the data: a receiver without room for
\* a segment could not hold the data filled up either.
LEMMA OnSegmentInProtocol ==
    ASSUME Typed, ProtocolInv, OnSegment
    PROVE  ProtocolInv'
<1> DEFINE p == Head(toReceiver)
<1>1. /\ receiver = "receiving" /\ toReceiver # <<>> /\ toReceiver' = Tail(toReceiver)
      /\ IsSegment(p) /\ Push(p)
      /\ UNCHANGED <<direction, data, writer, sender>>
      /\ \/ toSender' = toSender
         \/ granted' \in Grants /\ toSender' = Append(toSender, EncodeSubResponse(Seqno(p), granted'))
  BY DEF OnSegment, ReceiverTakes, IsSegment, ToSender, writerVars
<1>2. p = toReceiver[1] /\ p \in Frames
  BY <1>1, Taken, KindsOfFrames DEF Typed, BusTyped
<1>3. /\ SegmentData(p) \in Seq(Byte) /\ Len(SegmentData(p)) = 7 /\ Seqno(p) \in Byte
  BY <1>2, SegmentBytes
<1> HIDE DEF p
<1>4. Streams
  <2>1. SUFFICES ASSUME ~Streams PROVE FALSE
    OBVIOUS
  <2>2. OpeningInv /\ direction = "download"
    BY <1>1, <2>1 DEF ProtocolInv, Streams, Typed, WriterTyped
  <2>3. IsInitiateWithSize(p)
    BY <1>1, <1>2, <2>2 DEF OpeningInv, Drained
  <2>4. QED
    BY <1>1, <2>3 DEF IsSegment, IsInitiateWithSize
<1>5. StreamInv /\ SegmentsThenEnd(toReceiver) /\ toReceiver \in Seq(Frames \cup Ends)
  BY <1>4 DEF ProtocolInv, StreamInv, Typed, BusTyped
<1>6. /\ SegmentsThenEnd(toReceiver')
      /\ OnlySegments(toReceiver) => OnlySegments(toReceiver')
      /\ SegmentCount(toReceiver) \in Nat /\ SegmentCount(toReceiver') \in Nat
      /\ SegmentCount(toReceiver') = SegmentCount(toReceiver) - 1
  BY <1>1, <1>5, QueueTaken DEF p
<1>7. buf \in Seq(Byte) /\ Len(buf) \in Nat
  BY DEF Typed, ReceiverTyped
<1>8. Len(buf) + 7 * SegmentCount(toReceiver) <= Padded(writer.pos)
  BY <1>1, <1>5 DEF StreamInv
<1>9. /\ Padded(writer.pos) \in Nat /\ Padded(Len(data)) \in Nat
      /\ Padded(writer.pos) <= Padded(Len(data))
  <2>1. writer.pos \in Nat /\ Len(data) \in Nat /\ writer.pos <= Len(data)
    BY DataTyped DEF Typed, WriterTyped
  <2>2. QED
    BY <2>1, PaddedLength
<1>10. \/ receiver' = "receiving" /\ Len(buf') = Len(buf) + 7
       \/ receiver' = "refused"
       \/ receiver' = "overflow" /\ Len(buf) + 7 > Capacity
  <2>1. Len(buf \o SegmentData(p)) = Len(buf) + 7
    BY <1>3, <1>7, Joined
  <2>2. QED
    BY <1>1, <2>1 DEF Push, Refused, Overflows, SEGMENT_DATA_MAX
<1>11. OverflowIsDeserved'
  <2>1. receiver' = "overflow" => Len(buf) + 7 > Capacity
    BY <1>10
  <2>2. Len(buf) + 7 <= Padded(Len(data))
    BY <1>6, <1>7, <1>8, <1>9
  <2>3. Capacity \in Nat
    BY BlockTransferAssumption
  <2>4. receiver' = "overflow" => Padded(Len(data)) > Capacity
    BY <1>7, <1>9, <2>1, <2>2, <2>3
  <2>5. QED
    BY <1>1, <2>4 DEF OverflowIsDeserved
<1>12. NoInitiates(toSender') /\ ~Confirms(toSender')
  <2>1. NoInitiates(toSender) /\ ~Confirms(toSender) /\ toSender \in Seq(Replies)
    BY <1>1, <1>5 DEF StreamInv, ProtocolInv, Confirmed, Typed, BusTyped
  <2>2. QED
    BY <1>1, <1>3, <2>1, SubResponses, RepliesPut
<1>13. Streams'
  BY <1>1, <1>4, <1>10 DEF Streams
<1>14. StreamInv'
  <2>1. receiver' = "receiving" =>
            Len(buf') + 7 * SegmentCount(toReceiver') <= Padded(writer'.pos)
    <3>1. PICK bytes \in Nat, now \in Nat, sent \in Nat :
             bytes = Len(buf) /\ now = SegmentCount(toReceiver) /\ sent = Padded(writer.pos)
      BY <1>6, <1>7, <1>9
    <3>2. bytes + 7 * now <= sent
      BY <1>8, <3>1
    <3>3. SegmentCount(toReceiver') = now - 1 /\ Padded(writer'.pos) = sent
      BY <1>1, <1>6, <3>1
    <3>4. receiver' = "receiving" => Len(buf') = bytes + 7
      BY <1>10, <3>1
    <3>5. (bytes + 7) + 7 * (now - 1) <= sent
      BY <3>2
    <3>6. QED
      BY <3>3, <3>4, <3>5, Zenon
  <2>2. sender # "opening"
    BY <1>1, <1>5 DEF StreamInv
  <2>3. QED
    BY <1>1, <1>5, <1>6, <1>12, <2>1, <2>2 DEF StreamInv
<1>15. Confirmed' /\ Aligned'
  BY <1>1, <1>12 DEF ProtocolInv, Confirmed, Aligned
<1>16. QED
  BY <1>11, <1>13, <1>14, <1>15 DEF ProtocolInv

\* The end is the last frame, and only a receiver that accepts confirms it.
LEMMA OnEndInProtocol ==
    ASSUME Typed, ProtocolInv, OnEnd
    PROVE  ProtocolInv'
<1> DEFINE p == Head(toReceiver)
<1>1. /\ receiver = "receiving" /\ toReceiver # <<>> /\ toReceiver' = Tail(toReceiver)
      /\ IsEnd(p)
      /\ UNCHANGED <<direction, data, writer, sender>>
      /\ \/ receiver' = "accepted" /\ toSender' = Append(toSender, EncodeEndResponse)
         \/ receiver' = "refused" /\ toSender' = toSender
  BY DEF OnEnd, ReceiverTakes, ToSender, writerVars
<1>2. p = toReceiver[1] /\ p \in Frames \cup Ends
  BY <1>1, Taken DEF Typed, BusTyped
<1>3. ~IsInitiateWithSize(p) /\ ~IsSegment(p)
  BY <1>1, <1>2, KindsOfFrames DEF IsSegment, IsEnd
<1> HIDE DEF p
<1>4. Streams
  <2>1. SUFFICES ASSUME ~Streams PROVE FALSE
    OBVIOUS
  <2>2. OpeningInv /\ direction = "download"
    BY <1>1, <2>1 DEF ProtocolInv, Streams, Typed, WriterTyped
  <2>3. IsInitiateWithSize(p)
    BY <1>1, <1>2, <2>2 DEF OpeningInv, Drained
  <2>4. QED
    BY <1>3, <2>3
<1>5. StreamInv /\ SegmentsThenEnd(toReceiver) /\ toReceiver \in Seq(Frames \cup Ends)
  BY <1>4 DEF ProtocolInv, StreamInv, Typed, BusTyped
<1>6. toReceiver' = <<>>
  BY <1>1, <1>3, <1>5, QueueTaken DEF p
<1>7. /\ NoInitiates(toSender')
      /\ Confirms(toSender') => receiver' = "accepted"
  <2>1. NoInitiates(toSender) /\ ~Confirms(toSender) /\ toSender \in Seq(Replies)
    BY <1>1, <1>5 DEF StreamInv, ProtocolInv, Confirmed, Typed, BusTyped
  <2>2. QED
    BY <1>1, <2>1, EndResponses, RepliesPut
<1>8. Streams'
  BY <1>1, <1>4 DEF Streams
<1>9. StreamInv'
  BY <1>1, <1>5, <1>6, <1>7, EmptyQueue DEF StreamInv
<1>10. Confirmed' /\ Aligned' /\ OverflowIsDeserved'
  BY <1>1, <1>7 DEF ProtocolInv, Confirmed, Aligned, OverflowIsDeserved
<1>11. QED
  BY <1>8, <1>9, <1>10 DEF ProtocolInv

\* A frame of the receiver's queue goes, unheeded or lost.
LEMMA DroppedInProtocol ==
    ASSUME Typed, ProtocolInv, ReceiverTakes,
           UNCHANGED <<direction, data, writer, sender, buf, receiver, toSender>>,
           Streams \/ Drained'
    PROVE  ProtocolInv'
<1>1. toReceiver # <<>> /\ toReceiver' = Tail(toReceiver) /\ toReceiver \in Seq(Frames \cup Ends)
  BY DEF ReceiverTakes, Typed, BusTyped
<1>2. CASE Streams
  <2>1. StreamInv
    BY <1>2 DEF ProtocolInv
  <2>2. /\ SegmentsThenEnd(toReceiver')
        /\ OnlySegments(toReceiver) => OnlySegments(toReceiver')
        /\ SegmentCount(toReceiver) \in Nat /\ SegmentCount(toReceiver') \in Nat
        /\ SegmentCount(toReceiver') <= SegmentCount(toReceiver)
    BY <1>1, <2>1, QueueTaken DEF StreamInv
  <2>3. receiver = "receiving" =>
            Len(buf) + 7 * SegmentCount(toReceiver') <= Padded(writer.pos)
    <3>1. Len(buf) \in Nat /\ Padded(writer.pos) \in Nat
      BY DataTyped, PaddedLength DEF Typed, WriterTyped, ReceiverTyped
    <3>2. QED
      BY <2>1, <2>2, <3>1 DEF StreamInv
  <2>4. sender # "opening"
    BY <1>1, <2>1 DEF StreamInv
  <2>5. Streams' /\ StreamInv'
    BY <1>2, <2>1, <2>2, <2>3, <2>4 DEF Streams, StreamInv
  <2>6. QED
    BY <2>5 DEF ProtocolInv, Confirmed, Aligned, OverflowIsDeserved
<1>3. CASE ~Streams
  <2>1. ~Streams' /\ OpeningInv'
    BY <1>3 DEF Streams, ProtocolInv, OpeningInv
  <2>2. QED
    BY <2>1 DEF ProtocolInv, Confirmed, Aligned, OverflowIsDeserved
<1>4. QED
  BY <1>2, <1>3

LEMMA LossInProtocol ==
    ASSUME Typed, ProtocolInv, Discard \/ Lose
    PROVE  ProtocolInv'
<1>1. CASE Discard
  <2>1. /\ ReceiverTakes
        /\ UNCHANGED <<direction, data, writer, sender, buf, receiver, toSender>>
    BY <1>1 DEF Discard, writerVars, receiverVars
  <2>2. Streams
    <3>1. SUFFICES ASSUME ~Streams PROVE FALSE
      OBVIOUS
    <3>2. OpeningInv /\ receiver # "opening" /\ toReceiver # <<>>
      BY <1>1, <3>1 DEF ProtocolInv, Discard, ReceiverTakes
    <3>3. direction = "download" /\ IsInitiateWithSize(toReceiver[1])
      BY <3>2 DEF OpeningInv, Drained
    <3>4. Head(toReceiver) = toReceiver[1]
      BY <3>2, Taken DEF Typed, BusTyped
    <3>5. QED
      BY <1>1, <3>3, <3>4 DEF Discard
  <2>3. QED
    BY <2>1, <2>2, DroppedInProtocol
<1>2. ASSUME Lose, ReceiverTakes, UNCHANGED toSender PROVE ProtocolInv'
  <2>1. UNCHANGED <<direction, data, writer, sender, buf, receiver, toSender>>
    BY <1>2 DEF Lose, writerVars, receiverVars
  <2>2. Streams \/ Drained'
    <3>1. SUFFICES ASSUME ~Streams PROVE Drained'
      OBVIOUS
    <3>2. toSender = <<>> /\ Len(toReceiver) = 1
      BY <1>2, <3>1 DEF ProtocolInv, OpeningInv, Drained, ReceiverTakes
    <3>3. Tail(toReceiver) = <<>>
      BY <3>2, LastTaken DEF Typed, BusTyped
    <3>4. QED
      BY <1>2, <3>2, <3>3 DEF ReceiverTakes, Drained
  <2>3. QED
    BY <1>2, <2>1, <2>2, DroppedInProtocol
<1>3. ASSUME Lose, SenderTakes, UNCHANGED toReceiver PROVE ProtocolInv'
  <2>1. UNCHANGED <<direction, data, writer, sender, buf, receiver, toReceiver>>
    BY <1>3 DEF Lose, writerVars, receiverVars
  <2>2. /\ toSender # <<>> /\ toSender' = Tail(toSender) /\ toSender \in Seq(Replies)
        /\ NoInitiates(toSender) => NoInitiates(toSender')
        /\ Confirms(toSender') => Confirms(toSender)
    BY <1>3, RepliesTaken DEF SenderTakes, Typed, BusTyped
  <2>3. Confirmed' /\ Aligned' /\ OverflowIsDeserved'
    BY <2>1, <2>2 DEF ProtocolInv, Confirmed, Aligned, OverflowIsDeserved
  <2>4. CASE Streams
    <3>1. StreamInv /\ NoInitiates(toSender')
      BY <2>2, <2>4 DEF ProtocolInv, StreamInv
    <3>2. Streams' /\ StreamInv'
      BY <2>1, <2>4, <3>1 DEF Streams, StreamInv
    <3>3. QED
      BY <2>3, <3>2 DEF ProtocolInv
  <2>5. CASE ~Streams
    <3>1. OpeningInv /\ toReceiver = <<>> /\ Len(toSender) = 1
      BY <2>2, <2>5 DEF ProtocolInv, OpeningInv, Drained
    <3>2. toSender' = <<>>
      BY <2>2, <3>1, LastTaken
    <3>3. ~Streams' /\ OpeningInv'
      BY <2>1, <2>5, <3>1, <3>2 DEF Streams, OpeningInv, Drained
    <3>4. QED
      BY <2>3, <3>3 DEF ProtocolInv
  <2>6. QED
    BY <2>4, <2>5
<1>4. QED
  BY <1>1, <1>2, <1>3 DEF Lose

LEMMA GiveUpInProtocol ==
    ASSUME Typed, ProtocolInv, GiveUp \/ UNCHANGED vars
    PROVE  ProtocolInv'
<1>1. CASE GiveUp
  <2>1. /\ toReceiver' = <<>> /\ toSender' = <<>>
        /\ UNCHANGED <<direction, data, writer>>
        /\ \/ direction = "download" /\ sender' = "failed" /\ receiver' = receiver
           \/ /\ direction = "upload" /\ receiver' = "failed"
              /\ sender # "streaming" /\ sender' = sender /\ receiver # "accepted"
    BY <1>1 DEF GiveUp, Drained, busVars
  <2>2. ~Streams' /\ OpeningInv'
    BY <2>1 DEF Streams, OpeningInv, Drained
  <2>3. Confirmed' /\ Aligned' /\ OverflowIsDeserved'
    BY <2>1, NoReplies DEF ProtocolInv, Confirmed, Aligned, OverflowIsDeserved
  <2>4. QED
    BY <2>2, <2>3 DEF ProtocolInv
<1>2. CASE UNCHANGED vars
  BY <1>2
     DEF vars, writerVars, receiverVars, busVars, ProtocolInv, Streams, StreamInv,
         OpeningInv, Drained, Confirmed, Aligned, OverflowIsDeserved
<1>3. QED
  BY <1>1, <1>2

LEMMA ProtocolStep ==
    ASSUME SmallGrants, Typed, ProtocolInv, [Next]_vars
    PROVE  ProtocolInv'
BY StartsInProtocol, InitiateResponseInProtocol, UploadInitiateInProtocol,
   ResponsesInProtocol, NextSegmentInProtocol, EndSubBlockInProtocol,
   OpeningAnswersInProtocol, OnSegmentInProtocol, OnEndInProtocol, LossInProtocol,
   GiveUpInProtocol
   DEF Next, SenderStep, ReceiverStep

LEMMA AlwaysInProtocol ==
    ASSUME SmallGrants
    PROVE  Spec => []ProtocolInv
<1>1. Typed /\ ProtocolInv /\ [Next]_vars => ProtocolInv'
  BY ProtocolStep
<1>2. QED
  BY <1>1, ProtocolInit, AlwaysTyped, PTL DEF Spec

\* A sender that was confirmed has a receiver that accepted its data, whatever
\* frames are lost and however often a transfer is started again, if the driver
\* can tell segments from initiates and ends by their first byte.
THEOREM ConfirmationsAreEarned ==
    ASSUME SmallGrants
    PROVE  Spec => []ConfirmedIsAccepted
<1>1. ProtocolInv => ConfirmedIsAccepted
  BY DEF ProtocolInv, Confirmed, ConfirmedIsAccepted
<1>2. QED
  BY <1>1, AlwaysInProtocol, PTL

\* A receiver overflows only on data that, filled up to whole segments, exceeds
\* its capacity, in a repeated transfer too.
THEOREM OverflowsAreDeserved ==
    ASSUME SmallGrants
    PROVE  Spec => []OverflowIsDeserved
<1>1. ProtocolInv => OverflowIsDeserved
  BY DEF ProtocolInv
<1>2. QED
  BY <1>1, AlwaysInProtocol, PTL

-----------------------------------------------------------------------------
(* The bytes, on a bus that has lost nothing                               *)

\* The bytes received, those in the segments under way after them, and what an end
\* declares are those of the data up to the writer's position.
Intact ==
    /\ Len(buf) + 7 * SegmentCount(toReceiver) = Padded(writer.pos)
    /\ \A i \in 1..Len(buf) : buf[i] = Filled(data, i)
    /\ \A k \in 1..SegmentCount(toReceiver), j \in 1..7 :
          toReceiver[k][j + 1] = Filled(data, Len(buf) + 7 * (k - 1) + j)
    /\ \A k \in 1..Len(toReceiver) :
          toReceiver[k] \in Ends => IsDone /\ UnusedOf(toReceiver[k]) = Unused

ContentInv ==
    /\ lost \in Nat
    /\ lost = 0 /\ Streams /\ receiver = "receiving" => Intact
    /\ AcceptedIsSent

Receives == Streams /\ receiver = "receiving"

LEMMA ContentInit == Init => ContentInv
BY DEF Init, ContentInv, Streams, AcceptedIsSent

\* The end declares as unused what was filled up.
LEMMA UnusedIsFilled ==
    ASSUME Typed, data # <<>>
    PROVE  Padded(Len(data)) - Unused = Len(data)
<1>1. PICK n \in Nat : n = Len(data)
  BY DataTyped
<1>2. data \in Seq(Byte)
  BY DataTyped
<1>3. n # 0
  BY <1>1, <1>2
<1>4. Unused = 7 - (IF n % 7 = 0 THEN 7 ELSE n % 7)
  BY <1>1 DEF Unused, SEGMENT_DATA_MAX
<1>5. Padded(n) = 7 * ((n + 6) \div 7)
  BY DEF Padded, SEGMENT_DATA_MAX
<1>6. 7 * ((n + 6) \div 7) - (7 - (IF n % 7 = 0 THEN 7 ELSE n % 7)) = n
  BY <1>3
<1>7. QED
  BY <1>1, <1>4, <1>5, <1>6

LEMMA EndDeclares ==
    ASSUME Typed
    PROVE  UnusedOf(EncodeEnd(Unused, IF Verify THEN Crc16(data) ELSE 0)) = Unused
<1>1. PICK c : c = IF Verify THEN Crc16(data) ELSE 0
  OBVIOUS
<1>2. Unused \in 0..7
  <2>1. Len(data) % SEGMENT_DATA_MAX \in 0..6
    BY DataTyped DEF SEGMENT_DATA_MAX
  <2>2. QED
    BY <2>1 DEF Unused, SEGMENT_DATA_MAX
<1>3. PICK u \in 0..7 : u = Unused
  BY <1>2
<1>4. EncodeEnd(u, c)[1] = 192 + (u % 8) * 4 + 1
  BY DEF EncodeEnd, CS_6, SUBCMD_END
<1>5. ((192 + (u % 8) * 4 + 1) \div 4) % 8 = u
  BY Z3
<1>6. UnusedOf(EncodeEnd(u, c)) = u
  BY <1>4, <1>5 DEF UnusedOf, BitField
<1>7. QED
  BY <1>1, <1>3, <1>6

\* The bytes of a segment cut off at the writer's position.
LEMMA SegmentCarries ==
    ASSUME Typed, ~IsDone, NEW last \in BOOLEAN, NEW j \in 1..7
    PROVE  EncodeSubSegment(writer.seqno, Chunk, last)[j + 1] = Filled(data, writer.pos + j)
<1>1. /\ data \in Seq(Byte) /\ Len(data) \in Nat /\ writer.pos \in 0..Len(data)
      /\ writer.pos \in Nat
  BY DataTyped DEF Typed, WriterTyped
<1>2. /\ Take \in 1..7 /\ writer.pos + Take \in 0..Len(data) /\ Len(Chunk) = Take
      /\ Take = 7 \/ writer.pos + Take = Len(data)
  BY <1>1, Chunks DEF SEGMENT_DATA_MAX
<1>3. EncodeSubSegment(writer.seqno, Chunk, last)[j + 1] =
          IF j <= Take THEN Chunk[j] ELSE 0
  <2>1. j + 1 \in 1..8 /\ j + 1 # 1 /\ j + 1 - 1 = j
    OBVIOUS
  <2>2. EncodeSubSegment(writer.seqno, Chunk, last)[j + 1] =
            IF j + 1 - 1 <= Len(Chunk) THEN Chunk[j + 1 - 1] ELSE 0
    BY <2>1 DEF EncodeSubSegment
  <2>3. QED
    BY <1>2, <2>1, <2>2
<1>4. CASE j <= Take
  <2>1. Chunk[j] = data[writer.pos + j]
    <3>1. PICK m \in Nat, n \in Nat : m = writer.pos /\ n = writer.pos + Take
      BY <1>1, <1>2
    <3>2. m \in 0..Len(data) /\ n \in m..Len(data) /\ j \in 1..(n - m)
      BY <1>1, <1>2, <1>4, <3>1
    <3>3. SubSeq(data, m + 1, n)[j] = data[m + j]
      BY <1>1, <3>1, <3>2, CutBytes
    <3>4. QED
      BY <3>1, <3>3 DEF Chunk
  <2>2. writer.pos + j <= Len(data)
    BY <1>1, <1>2, <1>4
  <2>3. QED
    BY <1>3, <1>4, <2>1, <2>2 DEF Filled
<1>5. CASE ~(j <= Take)
  <2>1. ~(writer.pos + j <= Len(data))
    BY <1>1, <1>2, <1>5
  <2>2. QED
    BY <1>3, <1>5, <2>1 DEF Filled
<1>6. QED
  BY <1>4, <1>5

\* A segment joins those under way.
LEMMA NextSegmentIntact ==
    ASSUME SmallGrants, Typed, ProtocolInv, NextSegment, Intact
    PROVE  Intact'
<1> DEFINE q == toReceiver
<1>1. /\ SentSegment \in Frames /\ IsSegment(SentSegment)
      /\ q' = Append(q, SentSegment)
      /\ OnlySegments(q) /\ q \in Seq(Frames \cup Ends)
  BY SegmentPut
<1>2. /\ ~IsDone /\ Len(data) \in Nat /\ writer.pos \in Nat
      /\ Padded(writer.pos) = writer.pos /\ Padded(writer'.pos) = writer.pos + 7
      /\ UNCHANGED <<data, buf>>
  BY SegmentPut DEF receiverVars
<1>3. /\ SegmentCount(q) = Len(q) /\ SegmentCount(q') = Len(q) + 1 /\ Len(q) \in Nat
      /\ OnlySegments(q') /\ q' \in Seq(Frames \cup Ends)
  BY <1>1, QueuePut, Put
<1>4. Len(buf) \in Nat /\ Len(buf) + 7 * Len(q) = writer.pos
  BY <1>2, <1>3 DEF Intact, Typed, ReceiverTyped
<1>5. Len(buf') + 7 * SegmentCount(q') = Padded(writer'.pos)
  BY <1>2, <1>3, <1>4
<1>6. \A i \in 1..Len(buf') : buf'[i] = Filled(data', i)
  BY <1>2 DEF Intact
<1>7. ASSUME NEW k \in 1..(Len(q) + 1), NEW j \in 1..7
      PROVE  q'[k][j + 1] = Filled(data, Len(buf) + 7 * (k - 1) + j)
  <2>1. CASE k \in 1..Len(q)
    <3>1. q'[k] = q[k]
      BY <1>1, <2>1, Put
    <3>2. QED
      BY <1>3, <2>1, <3>1 DEF Intact
  <2>2. CASE k = Len(q) + 1
    <3>1. q'[k] = SentSegment
      BY <1>1, <2>2, Put
    <3>2. SentSegment[j + 1] = Filled(data, writer.pos + j)
      <4>1. (Remaining <= SEGMENT_DATA_MAX) \in BOOLEAN
        BY <1>2 DEF Remaining, SEGMENT_DATA_MAX
      <4>2. QED
        BY <1>2, <4>1, SegmentCarries DEF SentSegment
    <3>3. Len(buf) + 7 * (k - 1) = writer.pos
      BY <1>3, <1>4, <2>2
    <3>4. QED
      BY <3>1, <3>2, <3>3
  <2>3. QED
    BY <1>3, <2>1, <2>2
<1>8. \A k \in 1..SegmentCount(q'), j \in 1..7 :
         q'[k][j + 1] = Filled(data', Len(buf') + 7 * (k - 1) + j)
  BY <1>2, <1>3, <1>7
<1>9. \A k \in 1..Len(q') : q'[k] \notin Ends
  BY <1>3, KindsOfFrames DEF OnlySegments
<1>10. QED
  BY <1>5, <1>6, <1>8, <1>9 DEF Intact

\* The end joins them once the writer is done.
LEMMA EndSubBlockIntact ==
    ASSUME Typed, ProtocolInv, EndSubBlock, Receives, Intact
    PROVE  Intact'
<1> DEFINE frame == EncodeEnd(Unused, IF Verify THEN Crc16(data) ELSE 0)
<1>1. frame \in Ends /\ UnusedOf(frame) = Unused
  BY EndFrameTyped, EndDeclares
<1> HIDE DEF frame
<1>2. /\ sender = "streaming"
      /\ UNCHANGED <<data, writer, buf>>
      /\ \/ IsDone /\ toReceiver' = Append(toReceiver, frame)
         \/ toReceiver' = toReceiver
  BY DEF EndSubBlock, ToReceiver, receiverVars, frame
<1>3. CASE toReceiver' = toReceiver
  BY <1>2, <1>3 DEF Intact, IsDone, Unused
<1>4. CASE IsDone /\ toReceiver' = Append(toReceiver, frame)
  <2>1. OnlySegments(toReceiver) /\ toReceiver \in Seq(Frames \cup Ends)
    BY <1>2 DEF ProtocolInv, OpeningInv, StreamInv, Typed, BusTyped
  <2>2. /\ SegmentCount(toReceiver) = Len(toReceiver) /\ Len(toReceiver) \in Nat
        /\ SegmentCount(toReceiver') = Len(toReceiver)
        /\ Len(toReceiver') = Len(toReceiver) + 1
        /\ toReceiver'[Len(toReceiver) + 1] = frame
        /\ \A k \in 1..Len(toReceiver) : toReceiver'[k] = toReceiver[k]
    BY <1>1, <1>4, <2>1, QueuePut, Put
  <2>3. Len(buf') + 7 * SegmentCount(toReceiver') = Padded(writer'.pos)
    BY <1>2, <2>2 DEF Intact
  <2>4. \A i \in 1..Len(buf') : buf'[i] = Filled(data', i)
    BY <1>2 DEF Intact
  <2>5. \A k \in 1..SegmentCount(toReceiver'), j \in 1..7 :
           toReceiver'[k][j + 1] = Filled(data', Len(buf') + 7 * (k - 1) + j)
    BY <1>2, <2>2 DEF Intact
  <2>6. IsDone' /\ Unused' = Unused
    BY <1>2, <1>4 DEF IsDone, Unused
  <2>7. ASSUME NEW k \in 1..Len(toReceiver'), toReceiver'[k] \in Ends
        PROVE  UnusedOf(toReceiver'[k]) = Unused
    <3>1. CASE k = Len(toReceiver) + 1
      BY <1>1, <2>2, <3>1
    <3>2. CASE k \in 1..Len(toReceiver)
      BY <2>2, <2>7, <3>2 DEF Intact
    <3>3. QED
      BY <2>2, <3>1, <3>2
  <2>8. QED
    BY <2>3, <2>4, <2>5, <2>6, <2>7 DEF Intact
<1>5. QED
  BY <1>2, <1>3, <1>4

\* The receiver takes a whole segment.
LEMMA OnSegmentIntact ==
    ASSUME Typed, ProtocolInv, OnSegment, Receives, Intact, receiver' = "receiving"
    PROVE  Intact'
<1> DEFINE p == Head(toReceiver)
           q == toReceiver
           s == SegmentData(p)
<1>1. /\ receiver = "receiving" /\ toReceiver # <<>> /\ toReceiver' = Tail(toReceiver)
      /\ IsSegment(p) /\ buf' = buf \o s
      /\ UNCHANGED <<data, writer>>
  BY DEF OnSegment, ReceiverTakes, IsSegment, Push, writerVars
<1>2. p = q[1] /\ p \in Frames
  BY <1>1, Taken, KindsOfFrames DEF Typed, BusTyped
<1>3. SegmentsThenEnd(q) /\ q \in Seq(Frames \cup Ends)
  BY DEF Receives, ProtocolInv, StreamInv, Typed, BusTyped
<1>4. /\ SegmentCount(q) \in Nat /\ SegmentCount(q') \in Nat
      /\ SegmentCount(q') = SegmentCount(q) - 1
  BY <1>1, <1>3, QueueTaken
<1>5. /\ Len(q) \in Nat /\ Len(q') = Len(q) - 1
      /\ \A k \in 1..Len(q') : q'[k] = q[k + 1]
  BY <1>1, <1>3, Taken
<1>6. SegmentCount(q') <= Len(q')
  <2>1. q' \in Seq(Frames \cup Ends)
    BY <1>1, <1>3, Taken
  <2>2. QED
    BY <2>1 DEF SegmentCount
<1>7. /\ buf \in Seq(Byte) /\ Len(buf) \in Nat /\ s \in Seq(Byte) /\ Len(s) = 7
      /\ \A j \in 1..7 : s[j] = p[j + 1]
  <2>1. s = SubSeq(p, 2, 8)
    BY DEF SegmentData, SEGMENT_DATA_MAX
  <2>2. \A j \in 1..7 : SubSeq(p, 2, 8)[j] = p[j + 1]
    BY <1>2 DEF Frames
  <2>3. QED
    BY <1>2, <2>1, <2>2, SegmentBytes DEF Typed, ReceiverTyped
<1> HIDE DEF s, p
<1>8. /\ Len(buf') = Len(buf) + 7
      /\ \A i \in 1..Len(buf) : buf'[i] = buf[i]
      /\ \A j \in 1..7 : buf'[Len(buf) + j] = s[j]
  <2>1. Len(buf \o s) = Len(buf) + 7
    <3>1. Len(buf \o s) = Len(buf) + Len(s)
      <4>1. buf \in Seq(Byte) /\ s \in Seq(Byte)
        BY <1>7
      <4>2. QED
        BY <4>1, Joined
    <3>2. QED
      BY <1>7, <3>1
  <2>2. /\ \A i \in 1..Len(buf) : (buf \o s)[i] = buf[i]
        /\ \A j \in 1..7 : (buf \o s)[Len(buf) + j] = s[j]
    <3>1. buf \in Seq(Byte) /\ s \in Seq(Byte)
      BY <1>7
    <3>2. /\ \A i \in 1..Len(buf) : (buf \o s)[i] = buf[i]
          /\ \A j \in 1..Len(s) : (buf \o s)[Len(buf) + j] = s[j]
      BY <3>1, JoinedBytes
    <3>3. Len(s) = 7
      BY <1>7
    <3>4. QED
      BY <3>2, <3>3, Zenon
  <2>3. QED
    BY <1>1, <2>1, <2>2
<1>9. Len(buf') + 7 * SegmentCount(q') = Padded(writer'.pos)
  BY <1>1, <1>4, <1>7, <1>8 DEF Intact
<1>10. ASSUME NEW i \in 1..Len(buf')
       PROVE  buf'[i] = Filled(data', i)
  <2>1. CASE i \in 1..Len(buf)
    BY <1>1, <1>8, <2>1 DEF Intact
  <2>2. CASE i \notin 1..Len(buf)
    <3>1. PICK j \in 1..7 : i = Len(buf) + j
      <4>1. PICK n \in Nat : n = Len(buf)
        BY <1>7
      <4>2. i \in 1..(n + 7) /\ i \notin 1..n
        BY <1>8, <2>2, <4>1
      <4>3. i - n \in 1..7 /\ i = n + (i - n)
        BY <4>1, <4>2
      <4>4. QED
        BY <4>1, <4>3
    <3>2. 1 \in 1..SegmentCount(q)
      BY <1>4
    <3>3. q[1][j + 1] = Filled(data, Len(buf) + 7 * (1 - 1) + j)
      BY <3>2 DEF Intact
    <3>4. Len(buf) + 7 * (1 - 1) + j = i
      BY <1>7, <3>1
    <3>5. QED
      BY <1>1, <1>2, <1>7, <1>8, <3>1, <3>3, <3>4
  <2>3. QED
    BY <2>1, <2>2
<1>11. ASSUME NEW k \in 1..SegmentCount(q'), NEW j \in 1..7
       PROVE  q'[k][j + 1] = Filled(data', Len(buf') + 7 * (k - 1) + j)
  <2>1. k \in 1..Len(q') /\ k + 1 \in 1..SegmentCount(q)
    BY <1>4, <1>5, <1>6
  <2>2. PICK m \in 1..SegmentCount(q) : m = k + 1 /\ q'[k] = q[m]
    BY <1>5, <2>1
  <2>3. q[m][j + 1] = Filled(data, Len(buf) + 7 * (m - 1) + j)
    BY DEF Intact
  <2>4. Len(buf) + 7 * (m - 1) + j = Len(buf') + 7 * (k - 1) + j
    BY <1>7, <1>8, <2>2
  <2>5. QED
    BY <1>1, <2>2, <2>3, <2>4
<1>12. ASSUME NEW k \in 1..Len(q'), q'[k] \in Ends
       PROVE  IsDone' /\ UnusedOf(q'[k]) = Unused'
  <2>1. k + 1 \in 1..Len(q) /\ q'[k] = q[k + 1]
    BY <1>5
  <2>2. IsDone /\ UnusedOf(q[k + 1]) = Unused
    BY <1>12, <2>1 DEF Intact
  <2>3. QED
    BY <1>1, <2>1, <2>2 DEF IsDone, Unused
<1>13. QED
  BY <1>9, <1>10, <1>11, <1>12 DEF Intact

\* An end that finish accepts declares exactly what was filled up.
LEMMA OnEndIntact ==
    ASSUME Typed, ProtocolInv, OnEnd, Receives, Intact, receiver' = "accepted"
    PROVE  buf' = data'
<1> DEFINE p == Head(toReceiver)
           q == toReceiver
<1>1. /\ toReceiver # <<>> /\ IsEnd(p) /\ FinishOK(p)
      /\ buf' = IF UnusedOf(p) <= Len(buf) THEN Trimmed(p) ELSE buf
      /\ UNCHANGED data
  BY DEF OnEnd, ReceiverTakes, writerVars
<1>2. p = q[1] /\ p \in Frames \cup Ends /\ 1 \in 1..Len(q) /\ Len(q) \in Nat
  BY <1>1, Taken DEF Typed, BusTyped
<1>3. SegmentsThenEnd(q)
  BY DEF Receives, ProtocolInv, StreamInv
<1>4. 1 = Len(q) /\ p \in Ends
  <2>1. ~IsSegment(p)
    BY <1>1, <1>2, KindsOfFrames
  <2>2. QED
    BY <1>2, <1>3, <2>1 DEF SegmentsThenEnd
<1>5. IsDone /\ UnusedOf(p) = Unused
  BY <1>2, <1>4 DEF Intact
<1>6. SegmentCount(q) = 0
  <2>1. q # <<>> /\ q[Len(q)] \in Ends
    BY <1>1, <1>2, <1>4
  <2>2. QED
    BY <1>4, <2>1 DEF SegmentCount
<1> HIDE DEF p
<1>7. /\ data \in Seq(Byte) /\ Len(data) \in Nat /\ buf \in Seq(Byte) /\ Len(buf) \in Nat
      /\ writer.pos \in 0..Len(data)
  BY DataTyped DEF Typed, ReceiverTyped, WriterTyped
<1>8. Len(buf) = Padded(Len(data))
  <2>1. writer.pos = Len(data)
    BY <1>5, <1>7 DEF IsDone
  <2>2. QED
    BY <1>6, <1>7, <2>1 DEF Intact
<1>9. Unused <= Len(buf)
  BY <1>1, <1>5 DEF FinishOK
<1>10. data # <<>>
  <2>1. SUFFICES ASSUME data = <<>> PROVE FALSE
    OBVIOUS
  <2>2. Len(data) = 0 /\ Unused = 7
    BY <2>1 DEF Unused, SEGMENT_DATA_MAX
  <2>3. QED
    BY <1>8, <1>9, <2>2, PaddedLength
<1>11. Len(buf) - Unused = Len(data) /\ Len(data) <= Len(buf)
  <2>1. Unused \in Nat
    BY <1>4, <1>5, EndFrames
  <2>2. QED
    BY <1>7, <1>8, <1>10, <2>1, UnusedIsFilled
<1>12. buf' = SubSeq(buf, 1, Len(data))
  BY <1>1, <1>5, <1>9, <1>11 DEF Trimmed
<1>13. \A i \in 1..Len(data) : buf[i] = data[i]
  <2>1. \A i \in 1..Len(data) : i \in 1..Len(buf) /\ i <= Len(data)
    BY <1>7, <1>11
  <2>2. QED
    BY <2>1 DEF Intact, Filled
<1>14. SubSeq(buf, 1, Len(data)) = data
  <2>1. /\ SubSeq(buf, 1, Len(data)) \in Seq(Byte)
        /\ Len(SubSeq(buf, 1, Len(data))) = Len(data)
        /\ \A i \in 1..Len(data) : SubSeq(buf, 1, Len(data))[i] = buf[i]
    BY <1>7, <1>11
  <2>2. QED
    BY <1>7, <1>13, <2>1, SeqEqual
<1>15. QED
  BY <1>1, <1>12, <1>14

LEMMA SendingKeepsContent ==
    ASSUME SmallGrants, Typed, ProtocolInv, ContentInv, NextSegment \/ EndSubBlock
    PROVE  ContentInv'
<1>1. UNCHANGED <<direction, data, receiver, buf, lost>>
  BY DEF NextSegment, EndSubBlock, receiverVars
<1>2. AcceptedIsSent' /\ lost' \in Nat
  BY <1>1 DEF ContentInv, AcceptedIsSent
<1>3. Streams
  BY DEF NextSegment, EndSubBlock, ProtocolInv, OpeningInv
<1>4. ASSUME lost' = 0, receiver' = "receiving"
      PROVE  Intact'
  BY <1>1, <1>3, <1>4, NextSegmentIntact, EndSubBlockIntact DEF ContentInv, Receives
<1>5. QED
  BY <1>2, <1>4 DEF ContentInv

\* A transfer starts: the client has no answer yet, or has got it now.
LEMMA OpeningsKeepContent ==
    ASSUME Typed, ProtocolInv, ContentInv,
           \/ StartDownload \/ OnDownloadInitiateResponse \/ OnUploadInitiate
           \/ StartUpload \/ OnUploadInitiateResponse \/ OnDownloadInitiate
    PROVE  ContentInv'
<1>1. UNCHANGED <<lost, data>> /\ lost' \in Nat
  BY DEF StartDownload, OnDownloadInitiateResponse, OnUploadInitiate, StartUpload,
         OnUploadInitiateResponse, OnDownloadInitiate, writerVars, ContentInv
<1>2. AcceptedIsSent'
  <2>1. receiver' = "accepted" => receiver = "accepted" /\ buf' = buf
    BY DEF StartDownload, OnDownloadInitiateResponse, OnUploadInitiate, StartUpload,
           OnUploadInitiateResponse, OnDownloadInitiate, receiverVars
  <2>2. QED
    BY <1>1, <2>1 DEF ContentInv, AcceptedIsSent
<1>3. ~Streams' \/ Intact'
  <2>1. CASE OnDownloadInitiateResponse
    <3>1. buf = <<>> /\ toReceiver = <<>>
      BY <2>1 DEF OnDownloadInitiateResponse, SenderTakes, ProtocolInv, Streams, OpeningInv,
                  Drained
    <3>2. direction = "download" /\ UNCHANGED <<direction, buf, toReceiver>>
      BY <2>1 DEF OnDownloadInitiateResponse, receiverVars
    <3>3. sender' = "failed" \/ writer'.pos = 0
      BY <2>1 DEF OnDownloadInitiateResponse, New
    <3>4. writer'.pos = 0 => Intact'
      BY <3>1, <3>2, EmptyQueue, PaddedLength DEF Intact
    <3>5. QED
      BY <3>2, <3>3, <3>4 DEF Streams
  <2>2. CASE OnUploadInitiateResponse
    <3>1. ~Streams /\ toReceiver # <<>> /\ direction = "upload"
      BY <2>2 DEF OnUploadInitiateResponse, ReceiverTakes, Streams
    <3>2. buf = <<>> /\ Len(toReceiver) = 1 /\ writer.pos = 0
      BY <2>2, <3>1 DEF OnUploadInitiateResponse, ProtocolInv, OpeningInv, Drained
    <3>3. toReceiver' = <<>>
      BY <2>2, <3>1, <3>2, LastTaken DEF OnUploadInitiateResponse, ReceiverTakes, Typed, BusTyped
    <3>4. buf' = <<>> /\ writer'.pos = 0
      BY <2>2, <3>2 DEF OnUploadInitiateResponse, writerVars
    <3>5. QED
      BY <3>3, <3>4, EmptyQueue, PaddedLength DEF Intact
  <2>3. CASE OnUploadInitiate
    <3>1. direction = "upload" /\ SenderTakes /\ IsInitiateWithBlksize(Head(toSender))
      BY <2>3 DEF OnUploadInitiate
    <3>2. ~Streams
      BY <3>1, RepliesTaken DEF SenderTakes, Typed, BusTyped, ProtocolInv, StreamInv
    <3>3. QED
      BY <2>3, <3>2 DEF OnUploadInitiate, Streams, receiverVars
  <2>4. CASE OnDownloadInitiate
    <3>1. direction = "download" /\ toReceiver # <<>> /\ IsInitiateWithSize(Head(toReceiver))
      BY <2>4 DEF OnDownloadInitiate, ReceiverTakes
    <3>2. ~Streams
      BY <3>1, QueueTaken DEF ProtocolInv, StreamInv, Typed, BusTyped
    <3>3. QED
      BY <2>4, <3>1, <3>2 DEF OnDownloadInitiate, Streams, writerVars
  <2>5. CASE StartDownload \/ StartUpload
    BY <2>5 DEF StartDownload, StartUpload, Streams, writerVars
  <2>6. QED
    BY <2>1, <2>2, <2>3, <2>4, <2>5
<1>4. QED
  BY <1>1, <1>2, <1>3 DEF ContentInv

LEMMA ReceivingKeepsContent ==
    ASSUME Typed, ProtocolInv, ContentInv, OnSegment \/ OnEnd
    PROVE  ContentInv'
<1>1. receiver = "receiving" /\ UNCHANGED lost /\ UNCHANGED <<direction, data, sender>>
  BY DEF OnSegment, OnEnd, writerVars
<1>2. Streams
  <2>1. SUFFICES ASSUME ~Streams PROVE FALSE
    OBVIOUS
  <2>2. OpeningInv /\ direction = "download" /\ toReceiver # <<>>
    BY <1>1, <2>1 DEF ProtocolInv, Streams, Typed, WriterTyped, OnSegment, OnEnd, ReceiverTakes
  <2>3. IsInitiateWithSize(Head(toReceiver)) /\ Head(toReceiver) \in Frames \cup Ends
    BY <1>1, <2>2, Taken DEF OpeningInv, Drained, Typed, BusTyped
  <2>4. QED
    BY <2>3, KindsOfFrames DEF OnSegment, OnEnd, IsSegment
<1>3. lost = 0 => Intact
  BY <1>1, <1>2 DEF ContentInv
<1>4. lost' = 0 /\ receiver' = "receiving" => Intact'
  <2>1. OnEnd => receiver' # "receiving"
    BY DEF OnEnd
  <2>2. QED
    BY <1>1, <1>2, <1>3, <2>1, OnSegmentIntact DEF Receives
<1>5. AcceptedIsSent'
  <2>1. OnSegment => receiver' # "accepted"
    BY <1>1 DEF OnSegment, Push
  <2>2. QED
    BY <1>1, <1>2, <1>3, <2>1, OnEndIntact DEF Receives, AcceptedIsSent
<1>6. lost' \in Nat
  BY <1>1 DEF ContentInv
<1>7. QED
  BY <1>4, <1>5, <1>6 DEF ContentInv

LEMMA OtherStepsKeepContent ==
    ASSUME Typed, ProtocolInv, ContentInv,
           \/ OnUploadStart \/ OnSubResponse \/ OnEndResponse
           \/ Discard \/ GiveUp \/ Lose \/ UNCHANGED vars
    PROVE  ContentInv'
<1>1. CASE OnUploadStart \/ OnSubResponse \/ OnEndResponse
  <2>1. /\ writer'.pos = writer.pos
        /\ UNCHANGED <<direction, data, buf, receiver, toReceiver, lost>>
    BY <1>1 DEF OnUploadStart, OnSubResponse, OnEndResponse, StartSubBlock, receiverVars,
                Typed, WriterTyped
  <2>2. Streams
    BY <1>1, RepliesOfStream DEF OnUploadStart, OnSubResponse, OnEndResponse
  <2>3. Intact => Intact'
    BY <2>1 DEF Intact, IsDone, Unused
  <2>4. QED
    BY <2>1, <2>2, <2>3 DEF ContentInv, AcceptedIsSent
<1>2. CASE Discard
  BY <1>2 DEF Discard, ContentInv, AcceptedIsSent, writerVars, receiverVars
<1>3. CASE GiveUp
  <2>1. UNCHANGED <<data, buf, lost>> /\ ~Streams'
    BY <1>3 DEF GiveUp, Streams
  <2>2. receiver' = "accepted" => receiver = "accepted"
    BY <1>3 DEF GiveUp
  <2>3. QED
    BY <2>1, <2>2 DEF ContentInv, AcceptedIsSent
<1>4. CASE Lose
  <2>1. lost' = lost + 1
    BY <1>4 DEF Lose
  <2>2. lost' \in Nat /\ lost' # 0
    BY <2>1 DEF ContentInv
  <2>3. QED
    BY <2>2 DEF ContentInv, AcceptedIsSent
<1>5. CASE UNCHANGED vars
  BY <1>5
     DEF vars, writerVars, receiverVars, busVars, ContentInv, AcceptedIsSent, Streams, Intact,
         IsDone, Unused
<1>6. QED
  BY <1>1, <1>2, <1>3, <1>4, <1>5

LEMMA ContentStep ==
    ASSUME SmallGrants, Typed, ProtocolInv, ContentInv, [Next]_vars
    PROVE  ContentInv'
BY SendingKeepsContent, OpeningsKeepContent, ReceivingKeepsContent, OtherStepsKeepContent
   DEF Next, SenderStep, ReceiverStep

\* Data accepted on a bus that has lost nothing is the data sent, to the byte: the
\* lengths that both sides compute of the last segment agree, for data of every length
\* and whatever block sizes below 64 are granted.
THEOREM LosslessTransfersAreExact ==
    ASSUME SmallGrants
    PROVE  Spec => []AcceptedIsSent
<1>1. Typed /\ ProtocolInv /\ ContentInv /\ [Next]_vars => ContentInv'
  BY ContentStep
<1>2. ContentInv => AcceptedIsSent
  BY DEF ContentInv
<1>3. QED
  BY <1>1, <1>2, ContentInit, AlwaysTyped, AlwaysInProtocol, PTL DEF Spec

-----------------------------------------------------------------------------
(* The bytes, on a bus that loses segments                                 *)

\* The first m segments numbered by f are in b, the n others at the head of q, and all
\* have been cut off before position pos.
Picks(f, m, n, b, q, d, pos) ==
    /\ m \in Nat /\ n \in Nat /\ Len(b) = 7 * m
    /\ \A a \in 1..(m + n) : f[a] \in Nat
    /\ \A a, c \in 1..(m + n) : a < c => f[a] < f[c]
    /\ \A a \in 1..(m + n) : 7 * f[a] < pos
    /\ \A i \in 1..(7 * m) : b[i] = Filled(d, At(f, i))
    /\ \A k \in 1..n, j \in 1..7 : q[k][j + 1] = Filled(d, 7 * f[m + k] + j)

\* The queue r is q without its first frame, as far as its segments go.
Shifted(r, q, n) == \A k \in 1..(n - 1) : r[k] = q[k + 1]

\* The buffer c is b and the bytes of the segment p after it.
Extended(c, b, p) ==
    /\ Len(c) = Len(b) + 7
    /\ \A i \in 1..Len(b) : c[i] = b[i]
    /\ \A j \in 1..7 : c[Len(b) + j] = p[j + 1]

\* The segment of a byte.
LEMMA SegmentOfByte ==
    ASSUME NEW m \in Nat, NEW i \in 1..(7 * m)
    PROVE  ((i - 1) \div 7) + 1 \in 1..m
OBVIOUS

\* Numbers that agree on m segments place their bytes alike.
Agree(f, g, m) == \A a \in 1..m : f[a] = g[a]

LEMMA SamePlaces ==
    ASSUME NEW m \in Nat, NEW f, NEW g, Agree(f, g, m), NEW i \in 1..(7 * m)
    PROVE  At(f, i) = At(g, i)
<1>1. PICK a : a = ((i - 1) \div 7) + 1
  OBVIOUS
<1>2. a \in 1..m
  BY <1>1, SegmentOfByte
<1>3. f[a] = g[a]
  BY <1>2 DEF Agree
<1>4. QED
  BY <1>1, <1>3 DEF At

\* A segment is cut off.
LEMMA PickPut ==
    ASSUME NEW f, NEW m, NEW n, NEW b, NEW q, NEW d, NEW pos \in Nat,
           Picks(f, m, n, b, q, d, pos), pos % 7 = 0,
           NEW r, \A k \in 1..n : r[k] = q[k],
           \A j \in 1..7 : r[n + 1][j + 1] = Filled(d, pos + j),
           NEW after \in Nat, pos < after
    PROVE  \E g : Picks(g, m, n + 1, b, r, d, after)
<1>1. /\ m \in Nat /\ n \in Nat /\ m + n \in Nat /\ m + (n + 1) = (m + n) + 1
      /\ \A a \in 1..(m + n) : f[a] \in Nat
      /\ \A a, c \in 1..(m + n) : a < c => f[a] < f[c]
      /\ \A a \in 1..(m + n) : 7 * f[a] < pos
  <2>1. m \in Nat /\ n \in Nat
    BY DEF Picks
  <2>2. m + n \in Nat /\ m + (n + 1) = (m + n) + 1
    BY <2>1
  <2>3. QED
    BY <2>1, <2>2, Zenon DEF Picks
<1>2. PICK s \in Nat : 7 * s = pos
  <2>1. pos \div 7 \in Nat /\ 7 * (pos \div 7) = pos
    OBVIOUS
  <2>2. QED
    BY <2>1
<1>3. PICK g : g = [a \in 1..(m + (n + 1)) |-> IF a <= m + n THEN f[a] ELSE s]
  OBVIOUS
<1>4. \A a \in 1..(m + (n + 1)) :
         \/ a \in 1..(m + n) /\ g[a] = f[a]
         \/ a = m + n + 1 /\ g[a] = s
  <2> SUFFICES ASSUME NEW a \in 1..(m + (n + 1))
               PROVE  \/ a \in 1..(m + n) /\ g[a] = f[a]
                      \/ a = m + n + 1 /\ g[a] = s
    OBVIOUS
  <2>1. g[a] = IF a <= m + n THEN f[a] ELSE s
    BY <1>3
  <2>2. CASE a <= m + n
    BY <1>1, <2>1, <2>2
  <2>3. CASE ~(a <= m + n)
    BY <1>1, <2>1, <2>3
  <2>4. QED
    BY <2>2, <2>3
<1>5. \A a \in 1..(m + n) : a \in 1..(m + (n + 1)) /\ g[a] = f[a]
  BY <1>1, <1>3
<1>6. \A a \in 1..(m + (n + 1)) : g[a] \in Nat
  BY <1>1, <1>4
<1>7. ASSUME NEW a \in 1..(m + n) PROVE f[a] < s
  <2>1. PICK x \in Nat : x = f[a]
    BY <1>1
  <2>2. 7 * x < 7 * s
    BY <1>1, <1>2, <2>1
  <2>3. QED
    BY <2>1, <2>2
<1>8. ASSUME NEW a \in 1..(m + (n + 1)), NEW c \in 1..(m + (n + 1)), a < c
      PROVE  g[a] < g[c]
  <2>1. a \in 1..(m + n) /\ g[a] = f[a]
    BY <1>1, <1>4, <1>8
  <2>2. CASE c \in 1..(m + n) /\ g[c] = f[c]
    BY <1>1, <1>8, <2>1, <2>2
  <2>3. CASE g[c] = s
    BY <1>7, <2>1, <2>3
  <2>4. QED
    BY <1>4, <2>2, <2>3
<1>9. ASSUME NEW a \in 1..(m + (n + 1)) PROVE 7 * g[a] < after
  <2>1. CASE a \in 1..(m + n) /\ g[a] = f[a]
    <3>1. PICK x \in Nat : x = f[a]
      BY <1>1, <2>1
    <3>2. 7 * x < pos
      BY <1>1, <2>1, <3>1
    <3>3. 7 * x < after
      BY <3>2
    <3>4. QED
      BY <2>1, <3>1, <3>3
  <2>2. CASE g[a] = s
    BY <1>2, <2>2
  <2>3. QED
    BY <1>4, <2>1, <2>2
<1>10. ASSUME NEW i \in 1..(7 * m) PROVE b[i] = Filled(d, At(g, i))
  <2>1. Agree(f, g, m)
    <3>1. \A a \in 1..m : a \in 1..(m + n)
      BY <1>1
    <3>2. QED
      BY <1>5, <3>1, Zenon DEF Agree
  <2>2. At(f, i) = At(g, i)
    BY <1>1, <2>1, SamePlaces
  <2>3. QED
    BY <2>2 DEF Picks
<1>11. ASSUME NEW k \in 1..(n + 1), NEW j \in 1..7
       PROVE  r[k][j + 1] = Filled(d, 7 * g[m + k] + j)
  <2>1. CASE k \in 1..n
    <3>1. m + k \in 1..(m + n)
      BY <1>1, <2>1
    <3>2. g[m + k] = f[m + k]
      BY <1>5, <3>1
    <3>3. q[k][j + 1] = Filled(d, 7 * f[m + k] + j)
      BY <2>1 DEF Picks
    <3>4. QED
      BY <2>1, <3>2, <3>3
  <2>2. CASE k = n + 1
    <3>1. m + k \in 1..(m + (n + 1)) /\ m + k = m + n + 1
      BY <1>1, <2>2
    <3>2. g[m + k] = s
      BY <1>1, <1>3, <3>1
    <3>3. QED
      BY <1>2, <2>2, <3>2
  <2>3. QED
    BY <1>1, <2>1, <2>2
<1>12. Picks(g, m, n + 1, b, r, d, after)
  <2>1. Len(b) = 7 * m /\ n + 1 \in Nat
    BY <1>1 DEF Picks
  <2>2. QED
    BY <1>1, <1>6, <1>8, <1>9, <1>10, <1>11, <2>1 DEF Picks
<1>13. QED
  BY <1>12

\* A segment under way is received.
LEMMA PickPush ==
    ASSUME NEW f, NEW m, NEW n, NEW b, NEW q, NEW d, NEW pos,
           Picks(f, m, n, b, q, d, pos), n # 0,
           NEW c, Extended(c, b, q[1]), NEW r, Shifted(r, q, n)
    PROVE  Picks(f, m + 1, n - 1, c, r, d, pos)
<1>1. /\ m \in Nat /\ n \in Nat /\ Len(b) = 7 * m /\ n - 1 \in Nat /\ m + 1 \in Nat
      /\ (m + 1) + (n - 1) = m + n
  BY DEF Picks
<1>2. ASSUME NEW i \in 1..(7 * (m + 1)) PROVE c[i] = Filled(d, At(f, i))
  <2>1. CASE i \in 1..(7 * m)
    BY <1>1, <2>1 DEF Picks, Extended
  <2>2. CASE i \notin 1..(7 * m)
    <3>1. PICK j \in 1..7 : i = 7 * m + j
      <4>1. i - 7 * m \in 1..7 /\ i = 7 * m + (i - 7 * m)
        BY <1>1, <2>2
      <4>2. QED
        BY <4>1
    <3>2. (i - 1) \div 7 = m /\ (i - 1) % 7 = j - 1
      BY <1>1, <3>1
    <3>3. PICK w : w = f[m + 1]
      OBVIOUS
    <3>4. w \in Nat
      <4>1. m + 1 \in 1..(m + n)
        <5>1. n >= 1
          BY <1>1
        <5>2. QED
          BY <1>1, <5>1
      <4>2. QED
        BY <3>3, <4>1 DEF Picks
    <3>5. At(f, i) = 7 * w + j
      <4>1. At(f, i) = 7 * w + (j - 1) + 1
        BY <3>2, <3>3 DEF At
      <4>2. 7 * w + (j - 1) + 1 = 7 * w + j
        BY <3>4
      <4>3. QED
        BY <4>1, <4>2, Zenon
    <3>6. q[1][j + 1] = Filled(d, 7 * w + j)
      <4>1. 1 \in 1..n
        BY <1>1
      <4>2. QED
        BY <3>3, <4>1 DEF Picks
    <3>7. c[i] = q[1][j + 1]
      BY <1>1, <3>1 DEF Extended
    <3>8. QED
      BY <3>5, <3>6, <3>7
  <2>3. QED
    BY <2>1, <2>2
<1>3. ASSUME NEW k \in 1..(n - 1), NEW j \in 1..7
      PROVE  r[k][j + 1] = Filled(d, 7 * f[(m + 1) + k] + j)
  <2>1. k + 1 \in 1..n /\ m + (k + 1) = (m + 1) + k
    BY <1>1
  <2>2. q[k + 1][j + 1] = Filled(d, 7 * f[m + (k + 1)] + j)
    BY <2>1 DEF Picks
  <2>3. QED
    BY <2>1, <2>2 DEF Shifted
<1>4. Len(c) = 7 * (m + 1)
  BY <1>1 DEF Extended
<1>5. /\ \A a \in 1..((m + 1) + (n - 1)) : f[a] \in Nat
      /\ \A a, e \in 1..((m + 1) + (n - 1)) : a < e => f[a] < f[e]
      /\ \A a \in 1..((m + 1) + (n - 1)) : 7 * f[a] < pos
  BY <1>1 DEF Picks
<1>6. QED
  BY <1>1, <1>2, <1>3, <1>4, <1>5 DEF Picks

\* A segment under way is lost.
LEMMA PickDrop ==
    ASSUME NEW f, NEW m, NEW n, NEW b, NEW q, NEW d, NEW pos,
           Picks(f, m, n, b, q, d, pos), n # 0,
           NEW r, Shifted(r, q, n)
    PROVE  \E g : Picks(g, m, n - 1, b, r, d, pos)
<1>1. m \in Nat /\ n \in Nat /\ Len(b) = 7 * m /\ n - 1 \in Nat
  BY DEF Picks
<1>2. PICK g : g = [a \in 1..(m + (n - 1)) |-> IF a <= m THEN f[a] ELSE f[a + 1]]
  OBVIOUS
<1>3. \A a \in 1..(m + (n - 1)) :
         /\ a \in 1..(m + n) /\ a + 1 \in 1..(m + n)
         /\ \/ a <= m /\ g[a] = f[a]
            \/ a > m /\ g[a] = f[a + 1]
  BY <1>1, <1>2
<1>4. \A a \in 1..(m + (n - 1)) : g[a] \in Nat
  BY <1>3 DEF Picks
<1>5. \A a, c \in 1..(m + (n - 1)) : a < c => g[a] < g[c]
  <2> SUFFICES ASSUME NEW a \in 1..(m + (n - 1)), NEW c \in 1..(m + (n - 1)), a < c
               PROVE  g[a] < g[c]
    OBVIOUS
  <2>1. \A x, y \in 1..(m + n) : x < y => f[x] < f[y]
    BY DEF Picks
  <2>2. CASE c <= m
    BY <1>1, <1>3, <2>1, <2>2
  <2>3. CASE c > m
    <3>1. g[c] = f[c + 1] /\ c + 1 \in 1..(m + n)
      BY <1>1, <1>3, <2>3
    <3>2. PICK e \in 1..(m + n) : g[a] = f[e] /\ (e = a \/ e = a + 1)
      BY <1>3
    <3>3. e < c + 1
      <4>1. a \in Nat /\ c \in Nat
        BY <1>1
      <4>2. QED
        BY <3>2, <4>1
    <3>4. QED
      BY <2>1, <3>1, <3>2, <3>3
  <2>4. QED
    BY <1>1, <2>2, <2>3
<1>6. \A a \in 1..(m + (n - 1)) : 7 * g[a] < pos
  <2>1. \A x \in 1..(m + n) : 7 * f[x] < pos
    BY DEF Picks
  <2>2. QED
    BY <1>3, <2>1
<1>7. ASSUME NEW i \in 1..(7 * m) PROVE b[i] = Filled(d, At(g, i))
  <2>1. Agree(f, g, m)
    <3>1. \A a \in 1..m : a \in 1..(m + (n - 1)) /\ a <= m
      BY <1>1
    <3>2. QED
      BY <1>2, <3>1 DEF Agree
  <2>2. At(f, i) = At(g, i)
    BY <1>1, <1>7, <2>1, SamePlaces
  <2>3. QED
    BY <2>2 DEF Picks
<1>8. ASSUME NEW k \in 1..(n - 1), NEW j \in 1..7
      PROVE  r[k][j + 1] = Filled(d, 7 * g[m + k] + j)
  <2>1. k + 1 \in 1..n /\ m + k \in 1..(m + (n - 1)) /\ m + k > m /\ m + k + 1 = m + (k + 1)
    BY <1>1
  <2>2. g[m + k] = f[m + (k + 1)]
    <3>1. PICK a \in 1..(m + (n - 1)) : a = m + k /\ a > m /\ a + 1 = m + (k + 1)
      BY <2>1
    <3>2. g[a] = f[a + 1]
      <4>1. ~(a <= m)
        BY <1>1, <3>1
      <4>2. QED
        BY <1>2, <4>1, Zenon
    <3>3. QED
      BY <3>1, <3>2
  <2>3. q[k + 1][j + 1] = Filled(d, 7 * f[m + (k + 1)] + j)
    BY <2>1 DEF Picks
  <2>4. QED
    BY <2>2, <2>3 DEF Shifted
<1>9. Picks(g, m, n - 1, b, r, d, pos)
  BY <1>1, <1>4, <1>5, <1>6, <1>7, <1>8 DEF Picks
<1>10. QED
  BY <1>9

\* The end that a sender sends, and the one whose checksum stands for all of them.
EndFrame == EncodeEnd(Unused, IF Verify THEN Crc16(data) ELSE 0)

EndsTell ==
    \A k \in 1..Len(toReceiver) : toReceiver[k] \in Ends => IsDone /\ toReceiver[k] = EndFrame

\* The bytes received and those under way after them are segments of the data in order.
InOrder ==
    \E f, m : Picks(f, m, SegmentCount(toReceiver), buf, toReceiver, data, writer.pos)

\* What is accepted are such segments, and passed the comparison of the checksums.
Kept ==
    receiver = "accepted" =>
        /\ buf \in Leftovers(data)
        /\ Verify => Crc16(buf) = CrcOf(EncodeEnd(0, Crc16(data)))

PickedInv ==
    /\ Receives => InOrder /\ EndsTell
    /\ Kept

LEMMA PickedInit == Init => PickedInv
BY DEF Init, PickedInv, Kept, Receives, Streams

\* The checksum in an end does not depend on the bytes it declares unused.
LEMMA ChecksumOfEnd ==
    ASSUME NEW u, NEW c
    PROVE  CrcOf(EncodeEnd(u, c)) = CrcOf(EncodeEnd(0, c))
<1>1. \A v : EncodeEnd(v, c)[2] = LeByte(c, 1) /\ EncodeEnd(v, c)[3] = LeByte(c, 2)
  BY DEF EncodeEnd
<1>2. QED
  BY <1>1 DEF CrcOf

\* Without a segment there is nothing to place.
LEMMA NothingPicked ==
    ASSUME NEW q, NEW d, NEW pos
    PROVE  \E f, m : Picks(f, m, 0, <<>>, q, d, pos)
<1>1. Picks(<<>>, 0, 0, <<>>, q, d, pos)
  BY DEF Picks
<1>2. QED
  BY <1>1

\* There are no more segments than cover the data.
LEMMA PickBound ==
    ASSUME NEW f, NEW m \in Nat, NEW t \in Nat,
           \A a \in 1..m : f[a] \in 0..(t - 1),
           \A a, c \in 1..m : a < c => f[a] < f[c]
    PROVE  m <= t
<1>1. SUFFICES ASSUME t < m PROVE FALSE
  OBVIOUS
<1>2. PICK g : g = [a \in 1..m |-> f[a]]
  OBVIOUS
<1>3. g \in [1..m -> 0..(t - 1)] /\ \A a \in 1..m : g[a] = f[a]
  BY <1>2
<1>4. /\ IsFiniteSet(1..m) /\ IsFiniteSet(0..(t - 1))
      /\ Cardinality(1..m) = m /\ Cardinality(0..(t - 1)) = t
  <2>1. IsFiniteSet(1..m) /\ Cardinality(1..m) = IF 1 > m THEN 0 ELSE m - 1 + 1
    BY FS_Interval
  <2>2. /\ IsFiniteSet(0..(t - 1))
        /\ Cardinality(0..(t - 1)) = IF 0 > t - 1 THEN 0 ELSE (t - 1) - 0 + 1
    BY FS_Interval
  <2>3. QED
    BY <2>1, <2>2
<1>5. PICK S, T : S = 1..m /\ T = 0..(t - 1)
  OBVIOUS
<1>6. \E x, y \in S : x # y /\ g[x] = g[y]
  <2>1. IsFiniteSet(S) /\ IsFiniteSet(T) /\ Cardinality(T) < Cardinality(S) /\ g \in [S -> T]
    BY <1>1, <1>3, <1>4, <1>5
  <2>2. QED
    BY <2>1, FS_PigeonHole
<1>7. PICK x \in 1..m, y \in 1..m : x # y /\ f[x] = f[y]
  BY <1>3, <1>5, <1>6
<1>8. f[x] \in Int /\ (x < y \/ y < x)
  BY <1>7
<1>9. QED
  BY <1>7, <1>8

\* Segments of the data in order, cut down by what an end declares unused, are leftovers.
LEMMA PickedAreLeftovers ==
    ASSUME NEW d \in Seq(Byte), NEW b \in Seq(Byte), NEW f, NEW m, NEW q, NEW pos \in 0..Len(d),
           Picks(f, m, 0, b, q, d, pos),
           NEW u \in Nat, u = Padded(Len(d)) - Len(d), u <= Len(b)
    PROVE  SubSeq(b, 1, Len(b) - u) \in Leftovers(d)
<1>1. /\ m \in Nat /\ Len(b) = 7 * m /\ m + 0 = m
      /\ \A a \in 1..m : f[a] \in Nat /\ 7 * f[a] < pos
      /\ \A a, c \in 1..m : a < c => f[a] < f[c]
      /\ \A i \in 1..(7 * m) : b[i] = Filled(d, At(f, i))
  <2>1. m \in Nat /\ Len(b) = 7 * m
    BY DEF Picks
  <2>2. m + 0 = m
    BY <2>1
  <2>3. QED
    BY <2>1, <2>2 DEF Picks
<1>2. PICK t \in Nat : t = SegmentTotal(d) /\ \A x \in Nat : 7 * x < Len(d) => x <= t - 1
  <2>1. PICK n \in Nat : n = Len(d)
    OBVIOUS
  <2>2. Padded(n) = 7 * ((n + 6) \div 7)
    BY DEF Padded, SEGMENT_DATA_MAX
  <2>3. PICK t \in Nat : t = (n + 6) \div 7
    BY <2>1
  <2>4. SegmentTotal(d) = (7 * t) \div 7
    BY <2>1, <2>2, <2>3 DEF SegmentTotal
  <2>5. (7 * t) \div 7 = t
    BY <2>3
  <2>6. \A x \in Nat : 7 * x < n => x <= t - 1
    BY <2>3
  <2>7. QED
    BY <2>1, <2>4, <2>5, <2>6
<1>3. \A a \in 1..m : f[a] \in 0..(t - 1)
  <2> SUFFICES ASSUME NEW a \in 1..m PROVE f[a] \in 0..(t - 1)
    OBVIOUS
  <2>1. PICK x \in Nat : x = f[a] /\ 7 * x < pos
    BY <1>1
  <2>2. 7 * x < Len(d)
    BY <2>1
  <2>3. QED
    BY <1>2, <2>1, <2>2
<1>4. m <= t
  BY <1>1, <1>3, PickBound
<1>5. PICK g : g = [a \in 1..m |-> f[a]]
  OBVIOUS
<1>6. g \in Increasing(m, t) /\ Agree(f, g, m)
  <2>1. \A a \in 1..m : g[a] = f[a]
    BY <1>5
  <2>2. g \in [1..m -> 0..(t - 1)]
    BY <1>3, <1>5
  <2>3. \A a, c \in 1..m : a < c => g[a] < g[c]
    BY <1>1, <2>1
  <2>4. QED
    BY <2>1, <2>2, <2>3 DEF Increasing, Agree
<1>7. SubSeq(b, 1, Len(b) - u) = Left(d, g, m)
  <2>1. PICK n : n = 7 * m - u
    OBVIOUS
  <2>2. n \in 0..(7 * m) /\ n <= Len(b)
    BY <1>1, <2>1
  <2>3. SubSeq(b, 1, n) = [i \in 1..n |-> b[i]]
    BY <1>1, <2>2
  <2>4. \A i \in 1..n : b[i] = Filled(d, At(g, i))
    <3> SUFFICES ASSUME NEW i \in 1..n PROVE b[i] = Filled(d, At(g, i))
      OBVIOUS
    <3>1. i \in 1..(7 * m)
      BY <1>1, <2>2
    <3>2. At(f, i) = At(g, i)
      BY <1>1, <1>6, <3>1, SamePlaces
    <3>3. QED
      BY <1>1, <3>1, <3>2
  <2>5. SubSeq(b, 1, n) = [i \in 1..n |-> Filled(d, At(g, i))]
    BY <2>3, <2>4, Zenon
  <2>6. Left(d, g, m) = [i \in 1..n |-> Filled(d, At(g, i))]
    BY <2>1 DEF Left
  <2>7. QED
    BY <1>1, <2>1, <2>5, <2>6
<1>8. m \in 0..t
  BY <1>1, <1>4
<1>9. Left(d, g, m) \in {Left(d, h, m) : h \in Increasing(m, t)}
  BY <1>6
<1>10. Left(d, g, m) \in UNION {{Left(d, h, k) : h \in Increasing(k, t)} : k \in 0..t}
  BY <1>8, <1>9
<1>11. QED
  BY <1>2, <1>7, <1>10 DEF Leftovers

\* A segment joins those under way.
LEMMA NextSegmentInOrder ==
    ASSUME SmallGrants, Typed, ProtocolInv, NextSegment, InOrder
    PROVE  InOrder' /\ EndsTell'
<1> DEFINE q == toReceiver
<1>1. /\ SentSegment \in Frames /\ IsSegment(SentSegment)
      /\ q' = Append(q, SentSegment)
      /\ OnlySegments(q) /\ q \in Seq(Frames \cup Ends)
  BY SegmentPut
<1>2. /\ ~IsDone /\ Len(data) \in Nat /\ writer.pos \in Nat /\ writer.pos % 7 = 0
      /\ Take \in 1..7 /\ writer'.pos = writer.pos + Take
      /\ UNCHANGED <<data, buf>>
  BY SegmentPut DEF receiverVars
<1>3. /\ SegmentCount(q) = Len(q) /\ SegmentCount(q') = Len(q) + 1 /\ Len(q) \in Nat
      /\ OnlySegments(q') /\ q' \in Seq(Frames \cup Ends)
  BY <1>1, QueuePut, Put
<1>4. PICK f, m : Picks(f, m, SegmentCount(q), buf, q, data, writer.pos)
  BY DEF InOrder
<1>5. PICK n, r, s, pos, after :
         /\ n = Len(q) /\ s = q /\ r = q' /\ pos = writer.pos /\ after = writer'.pos
  OBVIOUS
<1>6. pos \in Nat /\ pos % 7 = 0 /\ after \in Nat /\ pos < after
  BY <1>2, <1>5
<1>7. \A k \in 1..n : r[k] = s[k]
  BY <1>1, <1>5, Put
<1>8. ASSUME NEW j \in 1..7 PROVE r[n + 1][j + 1] = Filled(data, pos + j)
  <2>1. r[n + 1] = SentSegment
    BY <1>1, <1>5, Put
  <2>2. SentSegment[j + 1] = Filled(data, writer.pos + j)
    <3>1. (Remaining <= SEGMENT_DATA_MAX) \in BOOLEAN
      BY <1>2 DEF Remaining, SEGMENT_DATA_MAX
    <3>2. QED
      BY <1>2, <3>1, SegmentCarries DEF SentSegment
  <2>3. QED
    BY <1>5, <2>1, <2>2
<1>9. Picks(f, m, n, buf, s, data, pos)
  BY <1>3, <1>4, <1>5
<1>10. \E g : Picks(g, m, n + 1, buf, r, data, after)
  BY <1>6, <1>7, <1>8, <1>9, PickPut
<1>11. InOrder'
  BY <1>2, <1>3, <1>5, <1>10 DEF InOrder
<1>12. \A k \in 1..Len(q') : q'[k] \notin Ends
  BY <1>3, KindsOfFrames DEF OnlySegments
<1>13. QED
  BY <1>11, <1>12 DEF EndsTell

\* The end joins them once the writer is done.
LEMMA EndSubBlockInOrder ==
    ASSUME Typed, ProtocolInv, EndSubBlock, InOrder, EndsTell
    PROVE  InOrder' /\ EndsTell'
<1>1. EndFrame \in Ends
  BY EndFrameTyped DEF EndFrame
<1>2. /\ sender = "streaming"
      /\ UNCHANGED <<data, writer, buf, crcs>>
      /\ \/ IsDone /\ toReceiver' = Append(toReceiver, EndFrame)
         \/ toReceiver' = toReceiver
  BY DEF EndSubBlock, ToReceiver, receiverVars, EndFrame
<1>3. EndFrame' = EndFrame /\ (IsDone => IsDone')
  BY <1>2 DEF EndFrame, Unused, Verify, IsDone
<1>4. CASE toReceiver' = toReceiver
  BY <1>2, <1>3, <1>4 DEF InOrder, EndsTell
<1>5. CASE IsDone /\ toReceiver' = Append(toReceiver, EndFrame)
  <2>1. OnlySegments(toReceiver) /\ toReceiver \in Seq(Frames \cup Ends)
    BY <1>2 DEF ProtocolInv, OpeningInv, StreamInv, Typed, BusTyped
  <2>2. /\ SegmentCount(toReceiver) = Len(toReceiver) /\ Len(toReceiver) \in Nat
        /\ SegmentCount(toReceiver') = Len(toReceiver)
        /\ Len(toReceiver') = Len(toReceiver) + 1
        /\ toReceiver'[Len(toReceiver) + 1] = EndFrame
        /\ \A k \in 1..Len(toReceiver) : toReceiver'[k] = toReceiver[k]
    BY <1>1, <1>5, <2>1, QueuePut, Put
  <2>3. PICK f, m, n :
           n = Len(toReceiver) /\ Picks(f, m, n, buf, toReceiver, data, writer.pos)
    BY <2>2 DEF InOrder
  <2>4. Picks(f, m, n, buf, toReceiver', data, writer.pos)
    BY <2>2, <2>3 DEF Picks
  <2>5. InOrder'
    BY <1>2, <2>2, <2>3, <2>4 DEF InOrder
  <2>6. ASSUME NEW k \in 1..Len(toReceiver'), toReceiver'[k] \in Ends
        PROVE  IsDone' /\ toReceiver'[k] = EndFrame'
    <3>1. CASE k = Len(toReceiver) + 1
      BY <1>3, <1>5, <2>2, <3>1
    <3>2. CASE k \in 1..Len(toReceiver)
      BY <1>3, <2>2, <2>6, <3>2 DEF EndsTell
    <3>3. QED
      BY <2>2, <3>1, <3>2
  <2>7. QED
    BY <2>5, <2>6 DEF EndsTell
<1>6. QED
  BY <1>2, <1>4, <1>5

\* The first frame under way goes: what ends declare stays true of the others.
LEMMA EndsTellStill ==
    ASSUME Typed, EndsTell, ReceiverTakes, UNCHANGED <<data, writer, crcs>>
    PROVE  EndsTell'
<1>1. toReceiver # <<>> /\ toReceiver' = Tail(toReceiver) /\ toReceiver \in Seq(Frames \cup Ends)
  BY DEF ReceiverTakes, Typed, BusTyped
<1>2. /\ Len(toReceiver) \in Nat /\ Len(toReceiver') = Len(toReceiver) - 1
      /\ \A k \in 1..Len(toReceiver') : toReceiver'[k] = toReceiver[k + 1]
  BY <1>1, Taken
<1>3. EndFrame' = EndFrame /\ (IsDone => IsDone')
  BY DEF EndFrame, Unused, Verify, IsDone
<1>4. \A k \in 1..Len(toReceiver') : k + 1 \in 1..Len(toReceiver)
  BY <1>2
<1>5. QED
  BY <1>2, <1>3, <1>4 DEF EndsTell

\* The receiver takes a whole segment.
LEMMA OnSegmentInOrder ==
    ASSUME Typed, ProtocolInv, OnSegment, Receives, InOrder, EndsTell,
           receiver' = "receiving"
    PROVE  InOrder' /\ EndsTell'
<1> DEFINE p == Head(toReceiver)
           q == toReceiver
           s == SegmentData(p)
<1>1. /\ receiver = "receiving" /\ toReceiver # <<>> /\ toReceiver' = Tail(toReceiver)
      /\ ReceiverTakes /\ IsSegment(p) /\ buf' = buf \o s
      /\ UNCHANGED <<data, writer, crcs>>
  BY DEF OnSegment, ReceiverTakes, IsSegment, Push, writerVars
<1>2. p = q[1] /\ p \in Frames
  BY <1>1, Taken, KindsOfFrames DEF Typed, BusTyped
<1>3. SegmentsThenEnd(q) /\ q \in Seq(Frames \cup Ends)
  BY DEF Receives, ProtocolInv, StreamInv, Typed, BusTyped
<1>4. /\ SegmentCount(q) \in Nat /\ SegmentCount(q') \in Nat
      /\ SegmentCount(q') = SegmentCount(q) - 1
  BY <1>1, <1>3, QueueTaken
<1>5. /\ Len(q) \in Nat /\ Len(q') = Len(q) - 1
      /\ \A k \in 1..Len(q') : q'[k] = q[k + 1]
  BY <1>1, <1>3, Taken
<1>6. SegmentCount(q') <= Len(q')
  <2>1. q' \in Seq(Frames \cup Ends)
    BY <1>1, <1>3, Taken
  <2>2. QED
    BY <2>1 DEF SegmentCount
<1>7. /\ buf \in Seq(Byte) /\ Len(buf) \in Nat /\ s \in Seq(Byte) /\ Len(s) = 7
      /\ \A j \in 1..7 : s[j] = p[j + 1]
  <2>1. s = SubSeq(p, 2, 8)
    BY DEF SegmentData, SEGMENT_DATA_MAX
  <2>2. \A j \in 1..7 : SubSeq(p, 2, 8)[j] = p[j + 1]
    BY <1>2 DEF Frames
  <2>3. QED
    BY <1>2, <2>1, <2>2, SegmentBytes DEF Typed, ReceiverTyped
<1> HIDE DEF s, p
<1>8. /\ Len(buf') = Len(buf) + 7
      /\ \A i \in 1..Len(buf) : buf'[i] = buf[i]
      /\ \A j \in 1..7 : buf'[Len(buf) + j] = q[1][j + 1]
  <2>1. Len(buf \o s) = Len(buf) + Len(s)
    <3>1. buf \in Seq(Byte) /\ s \in Seq(Byte)
      BY <1>7
    <3>2. QED
      BY <3>1, Joined
  <2>2. /\ \A i \in 1..Len(buf) : (buf \o s)[i] = buf[i]
        /\ \A j \in 1..Len(s) : (buf \o s)[Len(buf) + j] = s[j]
    <3>1. buf \in Seq(Byte) /\ s \in Seq(Byte)
      BY <1>7
    <3>2. QED
      BY <3>1, JoinedBytes
  <2>3. Len(s) = 7
    BY <1>7
  <2>4. \A j \in 1..7 : (buf \o s)[Len(buf) + j] = s[j]
    BY <2>2, <2>3, Zenon
  <2>5. QED
    BY <1>1, <1>2, <1>7, <2>1, <2>2, <2>3, <2>4
<1>9. PICK n, r, b, c :
         n = SegmentCount(q) /\ r = q' /\ b = buf /\ c = buf'
  OBVIOUS
<1>10. PICK f, m : Picks(f, m, n, b, q, data, writer.pos)
  BY <1>9 DEF InOrder
<1>11. n # 0 /\ Extended(c, b, q[1]) /\ Shifted(r, q, n)
  <2>1. n # 0 /\ n \in Nat
    BY <1>4, <1>9
  <2>2. ASSUME NEW k \in 1..(n - 1) PROVE r[k] = q[k + 1]
    <3>1. k \in 1..Len(q')
      BY <1>4, <1>5, <1>6, <1>9
    <3>2. QED
      BY <1>5, <1>9, <3>1
  <2>3. Extended(c, b, q[1])
    BY <1>8, <1>9 DEF Extended
  <2>4. QED
    BY <2>1, <2>2, <2>3 DEF Shifted
<1>12. Picks(f, m + 1, n - 1, c, r, data, writer.pos)
  BY <1>10, <1>11, PickPush
<1>13. InOrder'
  BY <1>1, <1>4, <1>9, <1>12 DEF InOrder
<1>14. QED
  BY <1>1, <1>13, EndsTellStill

\* An end that finish accepts declares exactly what was filled up.
LEMMA OnEndKept ==
    ASSUME Typed, ProtocolInv, OnEnd, Receives, InOrder, EndsTell, receiver' = "accepted"
    PROVE  Kept'
<1> DEFINE p == Head(toReceiver)
           q == toReceiver
<1>1. /\ toReceiver # <<>> /\ IsEnd(p) /\ FinishOK(p)
      /\ buf' = IF UnusedOf(p) <= Len(buf) THEN Trimmed(p) ELSE buf
      /\ UNCHANGED <<data, crcs>>
  BY DEF OnEnd, ReceiverTakes, writerVars
<1>2. p = q[1] /\ p \in Frames \cup Ends /\ 1 \in 1..Len(q) /\ Len(q) \in Nat
  BY <1>1, Taken DEF Typed, BusTyped
<1>3. SegmentsThenEnd(q)
  BY DEF Receives, ProtocolInv, StreamInv
<1>4. 1 = Len(q) /\ p \in Ends
  <2>1. ~IsSegment(p)
    BY <1>1, <1>2, KindsOfFrames
  <2>2. QED
    BY <1>2, <1>3, <2>1 DEF SegmentsThenEnd
<1>5. IsDone /\ p = EndFrame
  BY <1>2, <1>4 DEF EndsTell
<1>6. SegmentCount(q) = 0
  <2>1. q # <<>> /\ q[Len(q)] \in Ends
    BY <1>1, <1>2, <1>4
  <2>2. QED
    BY <1>4, <2>1 DEF SegmentCount
<1> HIDE DEF p
<1>7. UnusedOf(p) = Unused /\ Unused \in Nat
  <2>1. UnusedOf(EndFrame) = Unused
    BY EndDeclares DEF EndFrame
  <2>2. UnusedOf(p) \in 0..7
    BY <1>4, EndFrames
  <2>3. QED
    BY <1>5, <2>1, <2>2
<1>8. /\ data \in Seq(Byte) /\ Len(data) \in Nat /\ buf \in Seq(Byte) /\ Len(buf) \in Nat
      /\ writer.pos \in 0..Len(data)
  BY DataTyped DEF Typed, ReceiverTyped, WriterTyped
<1>9. Unused <= Len(buf) /\ buf' = SubSeq(buf, 1, Len(buf) - Unused)
  BY <1>1, <1>7 DEF FinishOK, Trimmed
<1>10. PICK f, m : Picks(f, m, 0, buf, q, data, writer.pos)
  BY <1>6 DEF InOrder
<1>11. data # <<>>
  <2>1. SUFFICES ASSUME data = <<>> PROVE FALSE
    OBVIOUS
  <2>2. Unused = 7 /\ writer.pos = 0
    BY <1>8, <2>1 DEF Unused, SEGMENT_DATA_MAX
  <2>3. m \in Nat /\ Len(buf) = 7 * m /\ m + 0 = m
    BY <1>10 DEF Picks
  <2>4. 1 \in 1..m
    BY <1>9, <2>2, <2>3
  <2>5. f[1] \in Nat /\ 7 * f[1] < 0
    BY <1>10, <2>2, <2>3, <2>4 DEF Picks
  <2>6. QED
    BY <2>5
<1>12. Unused = Padded(Len(data)) - Len(data)
  <2>1. Padded(Len(data)) - Unused = Len(data) /\ Padded(Len(data)) \in Nat
    BY <1>8, <1>11, UnusedIsFilled, PaddedLength
  <2>2. QED
    BY <1>7, <1>8, <2>1
<1>13. SubSeq(buf, 1, Len(buf) - Unused) \in Leftovers(data)
  <2>1. PICK u, pos : u = Unused /\ pos = writer.pos
    OBVIOUS
  <2>2. /\ u \in Nat /\ u = Padded(Len(data)) - Len(data) /\ u <= Len(buf)
        /\ pos \in 0..Len(data) /\ Picks(f, m, 0, buf, q, data, pos)
    BY <1>7, <1>8, <1>9, <1>10, <1>12, <2>1
  <2>3. SubSeq(buf, 1, Len(buf) - u) \in Leftovers(data)
    BY <1>8, <2>2, PickedAreLeftovers
  <2>4. QED
    BY <2>1, <2>3
<1>14. Verify => Crc16(buf') = CrcOf(EncodeEnd(0, Crc16(data)))
  <2>1. Verify => Crc16(Trimmed(p)) = CrcOf(p)
    BY <1>1 DEF FinishOK
  <2>2. buf' = Trimmed(p)
    BY <1>7, <1>9 DEF Trimmed
  <2>3. Verify => EndFrame = EncodeEnd(Unused, Crc16(data))
    BY DEF EndFrame
  <2>4. QED
    BY <1>5, <2>1, <2>2, <2>3, ChecksumOfEnd
<1>15. Verify' = Verify
  BY <1>1 DEF Verify
<1>16. QED
  BY <1>1, <1>9, <1>13, <1>14, <1>15 DEF Kept

LEMMA SendingKeepsOrder ==
    ASSUME SmallGrants, Typed, ProtocolInv, PickedInv, NextSegment \/ EndSubBlock
    PROVE  PickedInv'
<1>1. UNCHANGED <<direction, data, receiver, buf, crcs>>
  BY DEF NextSegment, EndSubBlock, receiverVars
<1>2. Kept'
  BY <1>1 DEF PickedInv, Kept, Verify
<1>3. Streams
  BY DEF NextSegment, EndSubBlock, ProtocolInv, OpeningInv
<1>4. receiver' = "receiving" => InOrder' /\ EndsTell'
  BY <1>1, <1>3, NextSegmentInOrder, EndSubBlockInOrder DEF PickedInv, Receives
<1>5. QED
  BY <1>2, <1>4 DEF PickedInv, Receives

\* Nothing received and nothing under way.
LEMMA FreshInOrder ==
    ASSUME buf' = <<>>, toReceiver' = <<>>
    PROVE  InOrder' /\ EndsTell'
<1>1. SegmentCount(toReceiver') = 0
  BY EmptyQueue
<1>2. \E f, m : Picks(f, m, 0, <<>>, toReceiver', data', writer'.pos)
  BY NothingPicked
<1>3. InOrder'
  BY <1>1, <1>2 DEF InOrder
<1>4. QED
  BY <1>3 DEF EndsTell

\* A transfer starts: the client has no answer yet, or has got it now.
LEMMA OpeningsKeepOrder ==
    ASSUME Typed, ProtocolInv, PickedInv,
           \/ StartDownload \/ OnDownloadInitiateResponse \/ OnUploadInitiate
           \/ StartUpload \/ OnUploadInitiateResponse \/ OnDownloadInitiate
    PROVE  PickedInv'
<1>1. UNCHANGED <<data, crcs>>
  BY DEF StartDownload, OnDownloadInitiateResponse, OnUploadInitiate, StartUpload,
         OnUploadInitiateResponse, OnDownloadInitiate, writerVars
<1>2. Kept'
  <2>1. receiver' = "accepted" => receiver = "accepted" /\ buf' = buf
    BY DEF StartDownload, OnDownloadInitiateResponse, OnUploadInitiate, StartUpload,
           OnUploadInitiateResponse, OnDownloadInitiate, receiverVars
  <2>2. QED
    BY <1>1, <2>1 DEF PickedInv, Kept, Verify
<1>3. ~Streams' \/ (InOrder' /\ EndsTell')
  <2>1. CASE OnDownloadInitiateResponse
    <3>1. buf = <<>> /\ toReceiver = <<>>
      BY <2>1 DEF OnDownloadInitiateResponse, SenderTakes, ProtocolInv, Streams, OpeningInv,
                  Drained
    <3>2. UNCHANGED <<buf, toReceiver>>
      BY <2>1 DEF OnDownloadInitiateResponse, receiverVars
    <3>3. QED
      BY <3>1, <3>2, FreshInOrder
  <2>2. CASE OnUploadInitiateResponse
    <3>1. ~Streams /\ toReceiver # <<>> /\ direction = "upload"
      BY <2>2 DEF OnUploadInitiateResponse, ReceiverTakes, Streams
    <3>2. buf = <<>> /\ Len(toReceiver) = 1
      BY <2>2, <3>1 DEF OnUploadInitiateResponse, ProtocolInv, OpeningInv, Drained
    <3>3. toReceiver' = <<>> /\ buf' = <<>>
      BY <2>2, <3>1, <3>2, LastTaken DEF OnUploadInitiateResponse, ReceiverTakes, Typed, BusTyped
    <3>4. QED
      BY <3>3, FreshInOrder
  <2>3. CASE OnUploadInitiate
    <3>1. direction = "upload" /\ SenderTakes /\ IsInitiateWithBlksize(Head(toSender))
      BY <2>3 DEF OnUploadInitiate
    <3>2. ~Streams
      BY <3>1, RepliesTaken DEF SenderTakes, Typed, BusTyped, ProtocolInv, StreamInv
    <3>3. QED
      BY <2>3, <3>2 DEF OnUploadInitiate, Streams, receiverVars
  <2>4. CASE OnDownloadInitiate
    <3>1. direction = "download" /\ toReceiver # <<>> /\ IsInitiateWithSize(Head(toReceiver))
      BY <2>4 DEF OnDownloadInitiate, ReceiverTakes
    <3>2. ~Streams
      BY <3>1, QueueTaken DEF ProtocolInv, StreamInv, Typed, BusTyped
    <3>3. QED
      BY <2>4, <3>1, <3>2 DEF OnDownloadInitiate, Streams, writerVars
  <2>5. CASE StartDownload \/ StartUpload
    BY <2>5 DEF StartDownload, StartUpload, Streams, writerVars
  <2>6. QED
    BY <2>1, <2>2, <2>3, <2>4, <2>5
<1>4. QED
  BY <1>2, <1>3 DEF PickedInv, Receives

LEMMA ReceivingKeepsOrder ==
    ASSUME Typed, ProtocolInv, PickedInv, OnSegment \/ OnEnd
    PROVE  PickedInv'
<1>1. receiver = "receiving" /\ UNCHANGED <<direction, data, sender, crcs>>
  BY DEF OnSegment, OnEnd, writerVars
<1>2. Streams
  <2>1. SUFFICES ASSUME ~Streams PROVE FALSE
    OBVIOUS
  <2>2. OpeningInv /\ direction = "download" /\ toReceiver # <<>>
    BY <1>1, <2>1 DEF ProtocolInv, Streams, Typed, WriterTyped, OnSegment, OnEnd, ReceiverTakes
  <2>3. IsInitiateWithSize(Head(toReceiver)) /\ Head(toReceiver) \in Frames \cup Ends
    BY <1>1, <2>2, Taken DEF OpeningInv, Drained, Typed, BusTyped
  <2>4. QED
    BY <2>3, KindsOfFrames DEF OnSegment, OnEnd, IsSegment
<1>3. Receives /\ InOrder /\ EndsTell
  BY <1>1, <1>2 DEF PickedInv, Receives
<1>4. receiver' = "receiving" => InOrder' /\ EndsTell'
  <2>1. OnEnd => receiver' # "receiving"
    BY DEF OnEnd
  <2>2. QED
    BY <1>3, <2>1, OnSegmentInOrder
<1>5. Kept'
  <2>1. OnSegment => receiver' # "accepted"
    BY <1>1 DEF OnSegment, Push
  <2>2. receiver' # "accepted" => Kept'
    BY DEF Kept
  <2>3. QED
    BY <1>3, <2>1, <2>2, OnEndKept
<1>6. QED
  BY <1>4, <1>5 DEF PickedInv, Receives

\* A segment or an end that is lost leaves the others in order.
LEMMA LossKeepsOrder ==
    ASSUME Typed, ProtocolInv, Receives, InOrder, EndsTell, ReceiverTakes,
           UNCHANGED <<writerVars, receiverVars>>
    PROVE  InOrder' /\ EndsTell'
<1> DEFINE q == toReceiver
<1>1. /\ q # <<>> /\ q' = Tail(q) /\ SegmentsThenEnd(q) /\ q \in Seq(Frames \cup Ends)
      /\ UNCHANGED <<data, writer, crcs, buf>>
  BY DEF ReceiverTakes, Receives, ProtocolInv, StreamInv, Typed, BusTyped, writerVars,
         receiverVars
<1>2. EndsTell'
  BY <1>1, EndsTellStill
<1>3. /\ Len(q) \in Nat /\ Len(q') = Len(q) - 1 /\ q' \in Seq(Frames \cup Ends)
      /\ \A k \in 1..Len(q') : q'[k] = q[k + 1]
      /\ SegmentCount(q) \in Nat /\ SegmentCount(q') \in Nat
      /\ IsSegment(Head(q)) => SegmentCount(q') = SegmentCount(q) - 1
      /\ ~IsSegment(Head(q)) => q' = <<>>
  BY <1>1, Taken, QueueTaken
<1>4. PICK f, m : Picks(f, m, SegmentCount(q), buf, q, data, writer.pos)
  BY DEF InOrder
<1>5. CASE IsSegment(Head(q))
  <2>1. PICK n, r : n = SegmentCount(q) /\ r = q'
    OBVIOUS
  <2>2. SegmentCount(q') <= Len(q')
    BY <1>3 DEF SegmentCount
  <2>3. n # 0 /\ SegmentCount(q') = n - 1
    BY <1>3, <1>5, <2>1
  <2>4. ASSUME NEW k \in 1..(n - 1) PROVE r[k] = q[k + 1]
    <3>1. k \in 1..Len(q')
      BY <1>3, <2>1, <2>2, <2>3
    <3>2. QED
      BY <1>3, <2>1, <3>1
  <2>5. Picks(f, m, n, buf, q, data, writer.pos)
    BY <1>4, <2>1
  <2>6. \E g : Picks(g, m, n - 1, buf, r, data, writer.pos)
    <3>1. Shifted(r, q, n)
      BY <2>4 DEF Shifted
    <3>2. QED
      BY <2>3, <2>5, <3>1, PickDrop
  <2>7. InOrder'
    BY <1>1, <2>1, <2>3, <2>6 DEF InOrder
  <2>8. QED
    BY <1>2, <2>7
<1>6. CASE ~IsSegment(Head(q))
  <2>1. Len(q) = 1
    <3>1. Len(q') = 0
      BY <1>3, <1>6
    <3>2. QED
      BY <1>3, <3>1
  <2>2. SegmentCount(q') = 0
    BY <1>3, <1>6, EmptyQueue
  <2>3. q[Len(q)] \in Ends
    <3>1. Head(q) = q[1] /\ 1 \in 1..Len(q)
      BY <1>1, <2>1, Taken
    <3>2. QED
      BY <1>1, <1>6, <2>1, <3>1 DEF SegmentsThenEnd
  <2>4. SegmentCount(q) = 0
    BY <1>1, <2>1, <2>3 DEF SegmentCount
  <2>5. Picks(f, m, 0, buf, q', data, writer.pos)
    BY <1>4, <2>4 DEF Picks
  <2>6. QED
    BY <1>1, <1>2, <2>2, <2>5 DEF InOrder
<1>7. QED
  BY <1>5, <1>6

LEMMA OtherStepsKeepOrder ==
    ASSUME Typed, ProtocolInv, PickedInv,
           \/ OnUploadStart \/ OnSubResponse \/ OnEndResponse
           \/ Discard \/ GiveUp \/ Lose \/ UNCHANGED vars
    PROVE  PickedInv'
<1>1. CASE OnUploadStart \/ OnSubResponse \/ OnEndResponse
  <2>1. /\ writer'.pos = writer.pos
        /\ UNCHANGED <<direction, data, crcs, buf, receiver, toReceiver>>
    BY <1>1 DEF OnUploadStart, OnSubResponse, OnEndResponse, StartSubBlock, receiverVars,
                Typed, WriterTyped
  <2>2. Streams
    BY <1>1, RepliesOfStream DEF OnUploadStart, OnSubResponse, OnEndResponse
  <2>3. InOrder => InOrder'
    BY <2>1 DEF InOrder
  <2>4. EndsTell => EndsTell'
    BY <2>1 DEF EndsTell, IsDone, EndFrame, Unused, Verify
  <2>5. QED
    BY <2>1, <2>2, <2>3, <2>4 DEF PickedInv, Receives, Kept, Verify
<1>2. CASE Discard
  BY <1>2 DEF Discard, PickedInv, Kept, Receives, Verify, writerVars, receiverVars
<1>3. CASE GiveUp
  <2>1. UNCHANGED <<data, crcs, buf>> /\ ~Streams'
    BY <1>3 DEF GiveUp, Streams
  <2>2. receiver' = "accepted" => receiver = "accepted"
    BY <1>3 DEF GiveUp
  <2>3. QED
    BY <2>1, <2>2 DEF PickedInv, Kept, Receives, Verify
<1>4. CASE Lose
  <2>1. /\ UNCHANGED <<writerVars, receiverVars>>
        /\ ReceiverTakes \/ UNCHANGED toReceiver
    BY <1>4 DEF Lose
  <2>2. UNCHANGED <<direction, data, crcs, writer, sender, buf, receiver>>
    BY <2>1 DEF writerVars, receiverVars
  <2>3. Receives' = Receives /\ (Kept => Kept')
    BY <2>2 DEF Receives, Streams, Kept, Verify
  <2>4. Receives => InOrder' /\ EndsTell'
    <3>1. CASE ReceiverTakes
      BY <2>1, <3>1, LossKeepsOrder DEF PickedInv
    <3>2. CASE UNCHANGED toReceiver
      BY <2>2, <3>2 DEF PickedInv, InOrder, EndsTell, IsDone, EndFrame, Unused, Verify
    <3>3. QED
      BY <2>1, <3>1, <3>2
  <2>5. QED
    BY <2>3, <2>4 DEF PickedInv
<1>5. CASE UNCHANGED vars
  BY <1>5
     DEF vars, writerVars, receiverVars, busVars, PickedInv, Receives, Streams, InOrder, EndsTell,
         Kept, IsDone, EndFrame, Unused, Verify
<1>6. QED
  BY <1>1, <1>2, <1>3, <1>4, <1>5

LEMMA PickedStep ==
    ASSUME SmallGrants, Typed, ProtocolInv, PickedInv, [Next]_vars
    PROVE  PickedInv'
BY SendingKeepsOrder, OpeningsKeepOrder, ReceivingKeepsOrder, OtherStepsKeepOrder
   DEF Next, SenderStep, ReceiverStep

LEMMA AlwaysPicked ==
    ASSUME SmallGrants
    PROVE  Spec => []PickedInv
<1>1. Typed /\ ProtocolInv /\ PickedInv /\ [Next]_vars => PickedInv'
  BY PickedStep
<1>2. QED
  BY <1>1, PickedInit, AlwaysTyped, AlwaysInProtocol, PTL DEF Spec

\* What a receiver accepts, on a bus that loses any number of frames and whether or not
\* the checksum is used, is made of segments of the data sent, in the order of the data and
\* none of them twice, less what the end declares unused: a loss can leave segments out and
\* nothing else, in a transfer that was started again too.
THEOREM LossesOnlyLeaveOut ==
    ASSUME SmallGrants
    PROVE  Spec => [](receiver = "accepted" => buf \in Leftovers(data))
<1>1. PickedInv => (receiver = "accepted" => buf \in Leftovers(data))
  BY DEF PickedInv, Kept
<1>2. QED
  BY <1>1, AlwaysPicked, PTL

\* Data accepted by its checksum is the data sent, but for leading zeros, whatever was
\* lost, if the checksum tells the data from what is left of it when segments are missing.
THEOREM VerifiedTransfersAreExact ==
    ASSUME SmallGrants, ChecksumTells
    PROVE  Spec => []VerifiedIsSent
<1>1. Typed /\ PickedInv => VerifiedIsSent
  <2> SUFFICES ASSUME Typed, PickedInv, receiver = "accepted", Verify
               PROVE  Significant(buf) = Significant(data)
    BY DEF VerifiedIsSent
  <2>1. data \in Payloads
    BY DEF Typed, WriterTyped
  <2>2. buf \in Leftovers(data) /\ Crc16(buf) = CrcOf(EncodeEnd(0, Crc16(data)))
    BY DEF PickedInv, Kept
  <2>3. QED
    BY <2>1, <2>2 DEF ChecksumTells
<1>2. QED
  BY <1>1, AlwaysTyped, AlwaysPicked, PTL
=============================================================================
