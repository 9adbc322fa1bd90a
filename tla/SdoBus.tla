------------------------------- MODULE SdoBus -------------------------------
(***************************************************************************)
(* The SDO channel of one node: the frames of core/src/sdo/mod.rs and the  *)
(* two directions they travel in.  A frame is a record, one shape per      *)
(* command specifier; the bytes of a value are kept because the transfer   *)
(* protocol cuts and joins them.                                           *)
(***************************************************************************)
EXTENDS Integers, Sequences

CONSTANTS
    Address,    \* the (index, subindex) pairs a client may name
    Byte,       \* the data bytes that occur
    DataType,   \* the basic data types in use
    Boolean,    \* the one type whose decoding is not the identity on bytes
    FixedSize,  \* DataType::fixed_size, 0 standing for None (variable length)
    ExpMax,     \* data bytes of an expedited frame (4)
    SegMax,     \* SEGMENT_DATA_MAX (7)
    MaxLen      \* MAX_STRING_LEN (32)

ASSUME SdoBusAssumption ==
    /\ ExpMax \in Nat \ {0}
    /\ SegMax \in Nat \ {0}
    /\ MaxLen \in Nat
    /\ ExpMax <= MaxLen
    /\ Byte \subseteq Nat
    /\ {0, 1} \subseteq Byte
    /\ FixedSize \in [DataType -> 0..MaxLen]
    /\ Boolean \in DataType => FixedSize[Boolean] = 1

VARIABLES
    c2s,  \* requests under way, COB-ID 0x600 + node, oldest first
    s2c   \* responses under way or in the client's socket, COB-ID 0x580 + node

busVars == <<c2s, s2c>>

Drained == c2s = <<>> /\ s2c = <<>>

-----------------------------------------------------------------------------
(* Values and their byte encoding                                          *)

Min2(a, b) == IF a < b THEN a ELSE b

\* Whether `bytes` has a length that Value::decode_le accepts for type t.
Decodable(t, bytes) ==
    IF FixedSize[t] # 0 THEN Len(bytes) = FixedSize[t]
                        ELSE Len(bytes) <= MaxLen

\* Value::decode_le followed by encode_le: only a BOOLEAN changes its byte.
Decode(t, bytes) ==
    IF t = Boolean THEN <<IF bytes[1] = 0 THEN 0 ELSE 1>> ELSE bytes

\* The byte encodings of the values of type t.
IsValue(t, bytes) ==
    bytes \in Seq(Byte) /\ Decodable(t, bytes) /\ Decode(t, bytes) = bytes

\* The size test that selects an expedited transfer, (1..=4).contains(&size).
FitsExpedited(value) == Len(value) \in 1..ExpMax

-----------------------------------------------------------------------------
(* Frames                                                                  *)

AbortCode == {"ToggleBitNotAlternated", "CommandInvalid", "ReadOfWriteOnly",
              "WriteOfReadOnly", "ObjectDoesNotExist", "LengthHigh",
              "LengthLow", "General"}

NoAddress == "0000:00"  \* Address::new(0, 0), named by replies without an object

AbortFrames    == [cs : {"Abort"}, addr : Address \cup {NoAddress}, code : AbortCode]
SegmentFrames  == [cs : {"Segment"}, toggle : BOOLEAN, last : BOOLEAN,
                   data : Seq(Byte)]
RequestFrames ==
    [cs : {"DownloadExpedited"}, addr : Address, sized : BOOLEAN, data : Seq(Byte)]
    \cup [cs : {"DownloadSegmented"}, addr : Address, sized : BOOLEAN, size : Nat]
    \cup [cs : {"UploadInitiate"}, addr : Address]
    \cup [cs : {"UploadSegment"}, toggle : BOOLEAN]
    \cup [cs : {"Unknown"}, addr : Address]
    \cup SegmentFrames \cup AbortFrames
ResponseFrames ==
    [cs : {"DownloadResponse"}, addr : Address]
    \cup [cs : {"DownloadSegmentResponse"}, toggle : BOOLEAN]
    \cup [cs : {"UploadExpedited"}, addr : Address, data : Seq(Byte)]
    \cup [cs : {"UploadSegmented"}, addr : Address, size : Nat]
    \cup SegmentFrames \cup AbortFrames

EncodeAbort(addr, code) == [cs |-> "Abort", addr |-> addr, code |-> code]

EncodeDownloadExpedited(addr, value) ==
    [cs |-> "DownloadExpedited", addr |-> addr, sized |-> TRUE, data |-> value]

EncodeDownloadInitiateSegmented(addr, size) ==
    [cs |-> "DownloadSegmented", addr |-> addr, sized |-> TRUE, size |-> size]

EncodeDownloadResponse(addr) == [cs |-> "DownloadResponse", addr |-> addr]

\* Fault: a segment is confirmed with an initiate response.
SegmentConfirmedAsInitiate(toggle) == EncodeDownloadResponse(NoAddress)

EncodeDownloadSegmentResponse(toggle) ==
    [cs |-> "DownloadSegmentResponse", toggle |-> toggle]

EncodeUploadRequest(addr) == [cs |-> "UploadInitiate", addr |-> addr]

EncodeUploadSegmentRequest(toggle) == [cs |-> "UploadSegment", toggle |-> toggle]

EncodeUploadExpeditedResponse(addr, value) ==
    [cs |-> "UploadExpedited", addr |-> addr, data |-> value]

EncodeUploadInitiateSegmentedResponse(addr, size) ==
    [cs |-> "UploadSegmented", addr |-> addr, size |-> size]

\* The segment that starts after `pos` bytes of `data`: at most SegMax bytes,
\* marked last when they are all that remain.
SegmentEnd(data, pos)  == pos + Min2(Len(data) - pos, SegMax)
IsLastSegment(data, pos) == Len(data) - pos <= SegMax

EncodeDataSegment(data, pos, toggle) ==
    [cs     |-> "Segment",
     toggle |-> toggle,
     last   |-> IsLastSegment(data, pos),
     data   |-> SubSeq(data, pos + 1, SegmentEnd(data, pos))]

-----------------------------------------------------------------------------
(* The bus                                                                 *)

BusInit == c2s = <<>> /\ s2c = <<>>

\* An expedited download has one to four data bytes by its own account, or
\* says nothing and has the four of the frame.
WellFormed(req) ==
    req.cs = "DownloadExpedited" =>
        IF req.sized THEN Len(req.data) \in 1..ExpMax
                     ELSE Len(req.data) = ExpMax

BusTypeOK == /\ c2s \in Seq(RequestFrames)
             /\ \A i \in DOMAIN c2s : WellFormed(c2s[i])
             /\ s2c \in Seq(ResponseFrames)

\* A frame is lost, or dropped by a full controller or socket queue.
LoseRequest == c2s # <<>> /\ c2s' = Tail(c2s) /\ UNCHANGED s2c
LoseResponse == s2c # <<>> /\ s2c' = Tail(s2c) /\ UNCHANGED c2s

\* A frame arrives twice: a CAN transmitter repeats a frame whose last bit it
\* saw disturbed although its receivers took it.
DuplicateRequest == c2s # <<>> /\ c2s' = <<Head(c2s)>> \o c2s /\ UNCHANGED s2c
DuplicateResponse == s2c # <<>> /\ s2c' = <<Head(s2c)>> \o s2c /\ UNCHANGED c2s
=============================================================================
