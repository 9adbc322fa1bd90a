---------------------------- MODULE BlockTransfer ----------------------------
(***************************************************************************)
(* One SDO block transfer over a bus that loses frames: BlockWriter and    *)
(* BlockReceiver of core/src/sdo/block.rs under the driver of              *)
(* docs/ARCHITECTURE.md section 5c, which tells the frames apart as        *)
(* handle_block of the loopback example does.  The sender has the data: it *)
(* is the client of a download and the server of an upload.  A client that *)
(* waits in vain gives up, and may start again.                            *)
(***************************************************************************)
EXTENDS BlockCodec

CONSTANTS
    Payloads,    \* the data to transfer: byte sequences
    Grants,      \* the block sizes the receiver may grant
    Capacity,    \* BlockReceiver's N
    Addr,        \* the object transferred
    MaxLost,     \* frames lost at most
    MaxAttempts  \* transfers started at most

ASSUME BlockTransferAssumption ==
    /\ \A d \in Payloads : d \in Seq(Byte)
    /\ Grants \subseteq 1..MaxBlksize
    /\ Grants # {}
    /\ Capacity \in Nat
    /\ Addr \in Nat \X Byte
    /\ MaxLost \in Nat
    /\ MaxAttempts \in Nat

VARIABLES
    direction,   \* "download" or "upload"
    data,        \* BlockWriter.data
    crcs,        \* whether sender and receiver support the CRC
    writer,      \* BlockWriter: pos, seqno, blksize
    sender,      \* where the sender is in the protocol
    buf,         \* BlockReceiver.buf
    done,        \* BlockReceiver.done
    granted,     \* the block size the receiver granted last
    receiver,    \* where the receiver is in the protocol
    toReceiver,  \* frames under way to the receiver
    toSender,    \* frames under way to the sender
    lost,        \* history: frames lost
    attempts     \* transfers started

writerVars == <<data, direction, crcs, writer, sender>>
receiverVars == <<buf, done, granted, receiver>>
busVars == <<toReceiver, toSender>>
vars == <<writerVars, receiverVars, busVars, lost, attempts>>

SenderPhase == {"idle", "opening", "streaming", "waiting", "ending", "ok", "failed", "panicked"}
ReceiverPhase == {"idle", "opening", "receiving", "accepted", "refused", "overflow", "failed"}

\* The CRC is used when both support it.
Verify == crcs[1] /\ crcs[2]

Init ==
    /\ direction \in {"download", "upload"}
    /\ data \in Payloads
    /\ crcs \in BOOLEAN \X BOOLEAN
    /\ writer = [pos |-> 0, seqno |-> 1, blksize |-> 0]
    /\ sender = "idle"
    /\ buf = <<>>
    /\ done = FALSE
    /\ granted = 0
    /\ receiver = "idle"
    /\ toReceiver = <<>>
    /\ toSender = <<>>
    /\ lost = 0
    /\ attempts = 0

ToReceiver(frame) == toReceiver' = Append(toReceiver, frame)
ToSender(frame) == toSender' = Append(toSender, frame)
SenderTakes == toSender # <<>> /\ toSender' = Tail(toSender)
ReceiverTakes == toReceiver # <<>> /\ toReceiver' = Tail(toReceiver)

-----------------------------------------------------------------------------
(* BlockWriter                                                             *)

New(blksize) == [pos |-> 0, seqno |-> 1, blksize |-> blksize]
StartSubBlock(blksize) == [writer EXCEPT !.seqno = 1, !.blksize = blksize]

\* Fault: the last byte is not waited for.
IsDoneBeyond == writer.pos > Len(data)
IsDone == writer.pos >= Len(data)

Remaining == Len(data) - writer.pos
Take == IF Remaining < SEGMENT_DATA_MAX THEN Remaining ELSE SEGMENT_DATA_MAX
Chunk == SubSeq(data, writer.pos + 1, writer.pos + Take)

\* Fault: one segment too many in a sub-block.
OverfullSubBlock == writer.seqno > writer.blksize + 1

\* The sub-block has as many segments as were granted.
SubBlockFull == writer.seqno > writer.blksize

\* Fault: a length that is a multiple of seven leaves seven bytes unused.
RemainderUnused == SEGMENT_DATA_MAX - (Len(data) % SEGMENT_DATA_MAX)

\* What end_frame makes of the last segment: seven bytes when the length is a
\* multiple of seven, and none when there is no data.
Unused ==
    LET r == Len(data) % SEGMENT_DATA_MAX IN
    SEGMENT_DATA_MAX - (IF r = 0 /\ data # <<>> THEN SEGMENT_DATA_MAX ELSE r)

-----------------------------------------------------------------------------
(* The sender                                                              *)

\* Download: the client opens, and may do so again once it has given up.
StartDownload ==
    /\ direction = "download"
    /\ sender \in {"idle", "failed"}
    /\ attempts < MaxAttempts
    /\ attempts' = attempts + 1
    /\ sender' = "opening"
    /\ ToReceiver(EncodeInitiateWithSize(Addr, Len(data), crcs[1]))
    /\ UNCHANGED <<direction, data, crcs, writer, receiverVars, toSender, lost>>

OnDownloadInitiateResponse ==
    /\ direction = "download"
    /\ sender = "opening"
    /\ SenderTakes
    /\ LET p == Head(toSender) IN
       IF IsInitiateWithBlksize(p)
       THEN /\ writer' = New(BlksizeOf(p))
            /\ sender' = "streaming"
       ELSE /\ sender' = "failed"
            /\ UNCHANGED writer
    /\ UNCHANGED <<direction, data, crcs, receiverVars, toReceiver, lost, attempts>>

\* Upload: the server answers an initiate at any time with a new writer.
OnUploadInitiate ==
    /\ direction = "upload"
    /\ SenderTakes
    /\ IsInitiateWithBlksize(Head(toSender))
    /\ writer' = New(BlksizeOf(Head(toSender)))
    /\ sender' = "opening"
    /\ ToReceiver(EncodeInitiateWithSize(Addr, Len(data), crcs[1]))
    /\ UNCHANGED <<direction, data, crcs, receiverVars, lost, attempts>>

OnUploadStart ==
    /\ direction = "upload"
    /\ sender = "opening"
    /\ SenderTakes
    /\ IsUploadStart(Head(toSender))
    /\ sender' = "streaming"
    /\ UNCHANGED <<direction, data, crcs, writer, receiverVars, toReceiver, lost, attempts>>

\* BlockWriter::next_segment yields a segment, or its expect fails.
NextSegment ==
    /\ sender = "streaming"
    /\ ~IsDone
    /\ ~SubBlockFull
    /\ IF SubSegmentOK(writer.seqno, Chunk)
       THEN /\ ToReceiver(EncodeSubSegment(writer.seqno, Chunk, Remaining <= SEGMENT_DATA_MAX))
            /\ writer' = [writer EXCEPT !.pos = @ + Take, !.seqno = @ + 1]
            /\ UNCHANGED sender
       ELSE /\ sender' = "panicked"
            /\ UNCHANGED <<writer, toReceiver>>
    /\ UNCHANGED <<direction, data, crcs, receiverVars, toSender, lost, attempts>>

\* next_segment yields none: BlockWriter's documentation has the end follow at
\* once when the writer is done, and else the wait for the response.
EndSubBlock ==
    /\ sender = "streaming"
    /\ IsDone \/ SubBlockFull
    /\ IF IsDone
       THEN /\ ToReceiver(EncodeEnd(Unused, IF Verify THEN Crc16(data) ELSE 0))
            /\ sender' = "ending"
       ELSE /\ sender' = "waiting"
            /\ UNCHANGED toReceiver
    /\ UNCHANGED <<direction, data, crcs, writer, receiverVars, toSender, lost, attempts>>

\* The acknowledged number is not looked at.
OnSubResponse ==
    /\ sender \in {"waiting", "ending"}
    /\ SenderTakes
    /\ IsSubResponse(Head(toSender))
    /\ IF sender = "waiting"
       THEN /\ writer' = StartSubBlock(NextBlksize(Head(toSender)))
            /\ sender' = "streaming"
       ELSE UNCHANGED <<writer, sender>>
    /\ UNCHANGED <<direction, data, crcs, receiverVars, toReceiver, lost, attempts>>

OnEndResponse ==
    /\ sender = "ending"
    /\ SenderTakes
    /\ IsEndResponse(Head(toSender))
    /\ sender' = "ok"
    /\ UNCHANGED <<direction, data, crcs, writer, receiverVars, toReceiver, lost, attempts>>

-----------------------------------------------------------------------------
(* The receiver                                                            *)

\* Fault: the receiver of the transfer before is used again.
ReceiverKept == UNCHANGED <<buf, done>>

\* BlockReceiver::new, for every transfer.
NewReceiver == buf' = <<>> /\ done' = FALSE

StartUpload ==
    /\ direction = "upload"
    /\ receiver \in {"idle", "failed"}
    /\ attempts < MaxAttempts
    /\ attempts' = attempts + 1
    /\ NewReceiver
    /\ granted' \in Grants
    /\ receiver' = "opening"
    /\ ToSender(EncodeInitiateWithBlksize(Addr, granted', crcs[2]))
    /\ UNCHANGED <<writerVars, toReceiver, lost>>

OnUploadInitiateResponse ==
    /\ direction = "upload"
    /\ receiver = "opening"
    /\ ReceiverTakes
    /\ IF IsInitiateWithSize(Head(toReceiver))
       THEN /\ ToSender(EncodeUploadStart)
            /\ receiver' = "receiving"
       ELSE /\ receiver' = "failed"
            /\ UNCHANGED toSender
    /\ UNCHANGED <<writerVars, buf, done, granted, lost, attempts>>

\* Download: the server starts afresh on every initiate.
OnDownloadInitiate ==
    /\ direction = "download"
    /\ ReceiverTakes
    /\ IsInitiateWithSize(Head(toReceiver))
    /\ NewReceiver
    /\ granted' \in Grants
    /\ receiver' = "receiving"
    /\ ToSender(EncodeInitiateWithBlksize(AddressOf(Head(toReceiver)), granted', crcs[2]))
    /\ UNCHANGED <<writerVars, lost, attempts>>

\* push refuses a segment after the last one, and one that finds no room.
Overflows == Len(buf) + SEGMENT_DATA_MAX > Capacity
Refused == done \/ Overflows

\* BlockReceiver::push: all seven bytes, or an error that ends the transfer.
Push(p) ==
    IF Refused
    THEN /\ receiver' = IF done THEN "refused" ELSE "overflow"
         /\ UNCHANGED <<buf, done>>
    ELSE /\ buf' = buf \o SegmentData(p)
         /\ done' = IsLast(p)
         /\ UNCHANGED receiver

\* A segment, and the response to a sub-block with its last one.
OnSegment ==
    /\ receiver = "receiving"
    /\ ReceiverTakes
    /\ LET p == Head(toReceiver) IN
       /\ Specifier(p) # CS_6
       /\ Push(p)
       /\ IF receiver' = "receiving" /\ (Seqno(p) = granted \/ IsLast(p))
          THEN /\ granted' \in Grants
               /\ ToSender(EncodeSubResponse(Seqno(p), granted'))
          ELSE UNCHANGED <<granted, toSender>>
    /\ UNCHANGED <<writerVars, lost, attempts>>

\* Fault: the checksum is not compared.
FinishUnverified(p) == UnusedOf(p) <= Len(buf)

Trimmed(p) == SubSeq(buf, 1, Len(buf) - UnusedOf(p))

\* BlockReceiver::finish succeeds.
FinishOK(p) ==
    /\ UnusedOf(p) <= Len(buf)
    /\ Verify => Crc16(Trimmed(p)) = CrcOf(p)

\* Fault: the end is confirmed before it is checked.
ConfirmAtOnce ==
    /\ receiver = "receiving"
    /\ ReceiverTakes
    /\ IsEnd(Head(toReceiver))
    /\ receiver' = IF FinishOK(Head(toReceiver)) THEN "accepted" ELSE "refused"
    /\ buf' = Trimmed(Head(toReceiver))
    /\ ToSender(EncodeEndResponse)
    /\ UNCHANGED <<writerVars, done, granted, lost, attempts>>

\* The end frame: finish trims the buffer first, and keeps it trimmed when the
\* checksum is wrong; only a good end is confirmed.
OnEnd ==
    /\ receiver = "receiving"
    /\ ReceiverTakes
    /\ LET p == Head(toReceiver) IN
       /\ IsEnd(p)
       /\ buf' = IF UnusedOf(p) <= Len(buf) THEN Trimmed(p) ELSE buf
       /\ IF FinishOK(p)
          THEN /\ receiver' = "accepted"
               /\ ToSender(EncodeEndResponse)
          ELSE /\ receiver' = "refused"
               /\ UNCHANGED toSender
    /\ UNCHANGED <<writerVars, done, granted, lost, attempts>>

\* A receiver that has left the transfer takes no notice of what still comes.
Discard ==
    /\ receiver \in {"idle", "accepted", "refused", "overflow", "failed"}
    /\ ReceiverTakes
    /\ direction = "download" => ~IsInitiateWithSize(Head(toReceiver))
    /\ UNCHANGED <<writerVars, receiverVars, toSender, lost, attempts>>

-----------------------------------------------------------------------------
(* The bus, and the client's patience: longer than any frame is under way  *)

Lose ==
    /\ lost < MaxLost
    /\ lost' = lost + 1
    /\ \/ SenderTakes /\ UNCHANGED toReceiver
       \/ ReceiverTakes /\ UNCHANGED toSender
    /\ UNCHANGED <<writerVars, receiverVars, attempts>>

Drained == toReceiver = <<>> /\ toSender = <<>>

GiveUp ==
    /\ Drained
    /\ \/ /\ direction = "download"
          /\ sender \in {"opening", "waiting", "ending"}
          /\ sender' = "failed"
          /\ UNCHANGED receiver
       \/ /\ direction = "upload"
          /\ receiver \in {"opening", "receiving", "refused", "overflow"}
          /\ sender # "streaming"
          /\ receiver' = "failed"
          /\ UNCHANGED sender
    /\ UNCHANGED <<direction, data, crcs, writer, buf, done, granted, busVars, lost, attempts>>

SenderStep ==
    \/ StartDownload \/ OnDownloadInitiateResponse \/ OnUploadInitiate \/ OnUploadStart
    \/ NextSegment \/ EndSubBlock \/ OnSubResponse \/ OnEndResponse
ReceiverStep ==
    \/ StartUpload \/ OnUploadInitiateResponse \/ OnDownloadInitiate
    \/ OnSegment \/ OnEnd \/ Discard
Next == SenderStep \/ ReceiverStep \/ GiveUp \/ Lose

Spec == Init /\ [][Next]_vars

\* Both sides go on while they can, and a client waits for so long only.
FairSpec == Spec /\ WF_vars(SenderStep) /\ WF_vars(ReceiverStep) /\ WF_vars(GiveUp)

-----------------------------------------------------------------------------
(* Properties                                                              *)

Frames == [1..8 -> Byte]

\* The expect in BlockWriter::next_segment never fails when the peer grants
\* legal block sizes, whatever frames are lost.
NeverPanics == sender # "panicked"

\* The bytes without their leading zeros.
Significant(bytes) ==
    LET i == SelectInSeq(bytes, LAMBDA byte : byte # 0) IN
    IF i = 0 THEN <<>> ELSE SubSeq(bytes, i, Len(bytes))

\* On a bus that has lost no frame, data that finish accepts is the data sent, with
\* none of the zeros that filled up its last segment, after a transfer that was
\* refused or broken off too.
AcceptedIsSent == receiver = "accepted" /\ lost = 0 => buf = data

\* Data that finish accepts by its checksum is the data sent, whatever was lost; but a
\* checksum that starts from 0 does not see leading zeros, so a lost first segment of
\* zeros goes undetected.
VerifiedIsSent ==
    receiver = "accepted" /\ Verify => Significant(buf) = Significant(data)

\* A sender that was confirmed has a receiver that accepted its data, and never
\* one that still has doubts about it (finish before the end response).
ConfirmedIsAccepted == sender = "ok" => receiver = "accepted"

Padded(n) == SEGMENT_DATA_MAX * ((n + SEGMENT_DATA_MAX - 1) \div SEGMENT_DATA_MAX)

\* Data as its segments carry it, filled up with zeros.
Filled(d, i) == IF i <= Len(d) THEN d[i] ELSE 0

\* Byte i of the segments numbered by f from 0, one after the other.
At(f, i) == 7 * f[((i - 1) \div 7) + 1] + ((i - 1) % 7) + 1

\* What a bus that loses segments leaves of data: some of its segments, in order, less
\* what an end declares unused.
SegmentTotal(d) == Padded(Len(d)) \div 7
Increasing(m, n) == {f \in [1..m -> 0..(n - 1)] : \A a, b \in 1..m : a < b => f[a] < f[b]}
Left(d, f, m) ==
    [i \in 1..(7 * m - (Padded(Len(d)) - Len(d))) |-> Filled(d, At(f, i))]
Leftovers(d) ==
    UNION {{Left(d, f, m) : f \in Increasing(m, SegmentTotal(d))} : m \in 0..SegmentTotal(d)}

\* The checksum that an end carries tells them from the data, but for leading zeros.
\* Not so for all data: a loss may leave the checksum as it was.
ChecksumTells ==
    \A d \in Payloads : \A b \in Leftovers(d) :
        Crc16(b) = CrcOf(EncodeEnd(0, Crc16(d))) => Significant(b) = Significant(d)

\* A receiver overflows only on data that, filled up to whole segments, exceeds
\* its capacity, in a repeated transfer too: the bytes of the one that broke
\* off before do not count.
OverflowIsDeserved == receiver = "overflow" => Padded(Len(data)) > Capacity

Succeeded == IF direction = "download" THEN sender = "ok" ELSE receiver = "accepted"

\* An empty transfer never succeeds, for end_frame declares seven unused bytes
\* of none; and the first byte of a last segment numbered 64 to 95 is that of a
\* CS_6 frame.
Fits ==
    /\ data # <<>>
    /\ Padded(Len(data)) <= Capacity
    /\ \A g \in Grants : g < 64

\* Every transfer ends, with a success or with the client giving up; and one whose
\* data fits, filled up to whole segments, with a success if no frame is lost, in
\* either direction and whatever block sizes are granted.
TransferEnds ==
    /\ <>[](Succeeded \/ (IF direction = "download" THEN sender = "failed" ELSE receiver = "failed"))
    /\ Fits ~> (lost > 0 \/ Succeeded)
=============================================================================
