--------------------------- MODULE SdoServerProofs ---------------------------
(***************************************************************************)
(* What every call of SdoServer::handle preserves, whoever sends the       *)
(* request: the types, the bounds of the transfer buffer, and the type of  *)
(* every object.  Then what that makes of the server against any client,   *)
(* for every dictionary, set of requests and size of the buffers.          *)
(***************************************************************************)
EXTENDS SdoServerOpen, TLAPS

\* A download under way has declared a size its object takes.
DownloadFits ==
    transfer.kind = "Download" =>
        IF FixedSize[Type[transfer.addr]] # 0
        THEN transfer.declared = FixedSize[Type[transfer.addr]]
        ELSE transfer.declared <= MaxLen

\* The inductive invariant of the server.
ServerInv ==
    /\ BusTypeOK
    /\ ServerTypeOK
    /\ ObjectsHoldTheirType
    /\ TransferInBounds
    /\ DownloadFits

-----------------------------------------------------------------------------
(* Values                                                                  *)

\* Value::decode_le yields a value of the type it is given.
LEMMA DecodeYieldsValue ==
    ASSUME NEW t \in DataType, NEW bytes \in Seq(Byte), Decodable(t, bytes)
    PROVE  IsValue(t, Decode(t, bytes))
<1>1. CASE t = Boolean
  <2>1. FixedSize[t] = 1
    BY <1>1, SdoBusAssumption
  <2>2. Len(bytes) = 1
    BY <2>1 DEF Decodable
  <2>3. \E b \in {0, 1} : Decode(t, bytes) = <<b>>
    BY <1>1 DEF Decode
  <2>4. PICK b \in {0, 1} : Decode(t, bytes) = <<b>>
    BY <2>3
  <2>5. <<b>> \in Seq(Byte) /\ Len(<<b>>) = 1 /\ <<b>>[1] = b
    BY SdoBusAssumption
  <2>6. Decode(t, <<b>>) = <<b>>
    BY <1>1, <2>5 DEF Decode
  <2>7. QED
    BY <2>1, <2>4, <2>5, <2>6 DEF IsValue, Decodable
<1>2. CASE t # Boolean
  BY <1>2 DEF IsValue, Decode
<1>3. QED
  BY <1>1, <1>2

\* A value fits the buffer of a transfer: MAX_STRING_LEN bounds every type.
LEMMA ValueFitsBuffer ==
    ASSUME NEW t \in DataType, NEW bytes, IsValue(t, bytes)
    PROVE  bytes \in Seq(Byte) /\ Len(bytes) <= MaxLen
BY SdoBusAssumption DEF IsValue, Decodable

-----------------------------------------------------------------------------
(* Requests                                                                *)

\* What the oldest request carries, by its command specifier.
LEMMA RequestFields ==
    ASSUME BusTypeOK, c2s # <<>>
    PROVE  LET req == Head(c2s) IN
           /\ req \in RequestFrames
           /\ Tail(c2s) \in Seq(RequestFrames)
           /\ req.cs = "DownloadExpedited" =>
                 /\ req.addr \in Address
                 /\ req.sized \in BOOLEAN
                 /\ req.data \in Seq(Byte)
                 /\ IF req.sized THEN Len(req.data) \in 1..ExpMax
                                 ELSE Len(req.data) = ExpMax
           /\ req.cs = "DownloadSegmented" =>
                 req.addr \in Address /\ req.sized \in BOOLEAN /\ req.size \in Nat
           /\ req.cs \in {"UploadInitiate", "Unknown"} => req.addr \in Address
           /\ req.cs = "UploadSegment" => req.toggle \in BOOLEAN
           /\ req.cs = "Segment" =>
                 /\ req.toggle \in BOOLEAN
                 /\ req.last \in BOOLEAN
                 /\ req.data \in Seq(Byte)
<1> DEFINE req == Head(c2s)
<1>1. req \in RequestFrames /\ Tail(c2s) \in Seq(RequestFrames) /\ req = c2s[1]
      /\ 1 \in DOMAIN c2s
  BY DEF BusTypeOK
<1>2. WellFormed(req)
  BY <1>1 DEF BusTypeOK
<1>3. QED
  BY <1>1, <1>2 DEF RequestFrames, SegmentFrames, AbortFrames, WellFormed

\* Taking the oldest request and appending a response keeps the bus typed.
LEMMA ExchangeTyped ==
    ASSUME BusTypeOK, c2s # <<>>, c2s' = Tail(c2s),
           NEW f \in ResponseFrames, s2c' = Append(s2c, f)
    PROVE  BusTypeOK'
<1>1. c2s' \in Seq(RequestFrames) /\ s2c' \in Seq(ResponseFrames)
  BY DEF BusTypeOK
<1>2. ASSUME NEW i \in DOMAIN c2s'
      PROVE  WellFormed(c2s'[i])
  <2>1. i + 1 \in DOMAIN c2s /\ c2s'[i] = c2s[i + 1]
    BY DEF BusTypeOK
  <2>2. QED
    BY <2>1 DEF BusTypeOK
<1>3. QED
  BY <1>1, <1>2 DEF BusTypeOK, WellFormed

\* A request that is refused with an abort leaves the server as it was.
LEMMA RefuseKeepsInv ==
    ASSUME ServerInv, c2s # <<>>, c2s' = Tail(c2s),
           NEW addr \in Address \cup {NoAddress}, NEW code \in AbortCode,
           Refuse(addr, code)
    PROVE  ServerInv'
<1>1. EncodeAbort(addr, code) \in ResponseFrames
  BY DEF EncodeAbort, ResponseFrames, AbortFrames
<1>2. BusTypeOK'
  BY <1>1, ExchangeTyped DEF ServerInv, Refuse, ReplyAbort, Reply
<1>3. QED
  BY <1>2 DEF ServerInv, Refuse, serverVars, ServerTypeOK, ObjectsHoldTheirType,
              IsValue, TransferInBounds, DownloadFits

-----------------------------------------------------------------------------
(* The dictionary                                                          *)

\* WriteObject stores a value of the object's type and touches nothing else.
LEMMA WriteKeepsTypes ==
    ASSUME ServerTypeOK, ObjectsHoldTheirType,
           NEW addr \in Objects, NEW bytes \in Seq(Byte),
           Decodable(Type[addr], bytes), WriteObject(addr, bytes)
    PROVE  /\ ObjectsHoldTheirType'
           /\ od' \in [Objects -> Seq(Byte)]
           /\ lastWrite' \in {None} \cup Objects
           /\ served' \in Seq(Accesses)
<1> DEFINE value == Decode(Type[addr], bytes)
<1>1. IsValue(Type[addr], value)
  BY DecodeYieldsValue, SdoServerAssumption
<1>2. value \in Seq(Byte)
  BY <1>1 DEF IsValue
<1>3. od' = [od EXCEPT ![addr] = value] /\ lastWrite' = addr
      /\ served' = Append(served, [op |-> "write", addr |-> addr, value |-> value])
  BY DEF WriteObject
<1>4. \A o \in Objects : od'[o] = IF o = addr THEN value ELSE od[o]
  BY <1>3 DEF ServerTypeOK
<1>5. ObjectsHoldTheirType'
  BY <1>1, <1>4 DEF ObjectsHoldTheirType, IsValue
<1>6. [op |-> "write", addr |-> addr, value |-> value] \in Accesses
  BY <1>2 DEF Accesses
<1>7. QED
  BY <1>2, <1>3, <1>5, <1>6 DEF ServerTypeOK

\* ServedRead records a well-typed access.
LEMMA ReadKeepsTypes ==
    ASSUME ServerTypeOK, ObjectsHoldTheirType, NEW addr \in Objects, ServedRead(addr)
    PROVE  served' \in Seq(Accesses)
<1>1. [op |-> "read", addr |-> addr, value |-> od[addr]] \in Accesses
  BY DEF Accesses, ServerTypeOK
<1>2. QED
  BY <1>1 DEF ServedRead, ServerTypeOK

-----------------------------------------------------------------------------
(* The handlers                                                            *)

\* on_download_expedited stores a value of the object's type or refuses.
LEMMA DownloadExpeditedKeepsInv == ServerInv /\ OnDownloadExpedited => ServerInv'
<1> SUFFICES ASSUME ServerInv, OnDownloadExpedited PROVE ServerInv'
  OBVIOUS
<1> DEFINE req == Head(c2s)
<1>1. c2s # <<>> /\ req.cs = "DownloadExpedited" /\ c2s' = Tail(c2s)
  BY DEF OnDownloadExpedited, Handle
<1>2. /\ req.addr \in Address
      /\ req.sized \in BOOLEAN
      /\ req.data \in Seq(Byte)
      /\ IF req.sized THEN Len(req.data) \in 1..ExpMax ELSE Len(req.data) = ExpMax
  BY <1>1, RequestFields DEF ServerInv
<1>3. CASE \E code \in AbortCode : Refuse(req.addr, code)
  BY <1>1, <1>2, <1>3, RefuseKeepsInv
<1>4. CASE /\ DownloadTarget(req) = "ok"
           /\ ExpeditedLengthOK(req)
           /\ WriteObject(req.addr, SubSeq(req.data, 1, ExpeditedLength(req)))
           /\ Reply(EncodeDownloadResponse(req.addr))
           /\ UNCHANGED transfer
  <2> DEFINE len == ExpeditedLength(req)
             bytes == SubSeq(req.data, 1, len)
  <2>1. req.addr \in Objects
    BY <1>4 DEF DownloadTarget
  <2>2. Type[req.addr] \in DataType /\ FixedSize[Type[req.addr]] \in Nat
    BY <2>1, SdoServerAssumption, SdoBusAssumption
  <2>3. len \in 0..Len(req.data) /\ len <= ExpMax
    BY <1>2, <1>4, <2>2, SdoBusAssumption DEF ExpeditedLength, ExpeditedLengthOK
  <2>4. bytes \in Seq(Byte) /\ Len(bytes) = len
    BY <1>2, <2>3
  <2>5. Decodable(Type[req.addr], bytes)
    BY <1>4, <2>2, <2>3, <2>4, SdoBusAssumption DEF Decodable, ExpeditedLengthOK
  <2>6. /\ ObjectsHoldTheirType'
        /\ od' \in [Objects -> Seq(Byte)]
        /\ lastWrite' \in {None} \cup Objects
        /\ served' \in Seq(Accesses)
    BY <1>4, <2>1, <2>4, <2>5, WriteKeepsTypes DEF ServerInv
  <2>7. EncodeDownloadResponse(req.addr) \in ResponseFrames
    BY <1>2 DEF EncodeDownloadResponse, ResponseFrames
  <2>8. BusTypeOK'
    BY <1>1, <1>4, <2>7, ExchangeTyped DEF ServerInv, Reply
  <2>9. QED
    BY <1>4, <2>6, <2>8 DEF ServerInv, ServerTypeOK, TransferInBounds, DownloadFits
<1>5. QED
  BY <1>3, <1>4 DEF OnDownloadExpedited, DownloadTarget, AbortCode

\* on_download_segmented opens a transfer whose size the object's type takes.
LEMMA DownloadSegmentedKeepsInv == ServerInv /\ OnDownloadSegmented => ServerInv'
<1> SUFFICES ASSUME ServerInv, OnDownloadSegmented PROVE ServerInv'
  OBVIOUS
<1> DEFINE req == Head(c2s)
<1>1. c2s # <<>> /\ req.cs = "DownloadSegmented" /\ c2s' = Tail(c2s)
  BY DEF OnDownloadSegmented, Handle
<1>2. req.addr \in Address /\ req.sized \in BOOLEAN /\ req.size \in Nat
  BY <1>1, RequestFields DEF ServerInv
<1>3. CASE \E code \in AbortCode : Refuse(req.addr, code)
  BY <1>1, <1>2, <1>3, RefuseKeepsInv
<1>4. CASE /\ DownloadTarget(req) = "ok"
           /\ DeclaredSizeOK(req)
           /\ transfer' = Download(req.addr, <<>>, req.size, FALSE)
           /\ Reply(EncodeDownloadResponse(req.addr))
           /\ UNCHANGED <<od, lastWrite, served>>
  <2>1. req.addr \in Objects
    BY <1>4 DEF DownloadTarget
  <2>2. FixedSize[Type[req.addr]] \in 0..MaxLen
    BY <2>1, SdoServerAssumption, SdoBusAssumption
  <2>3. req.size <= MaxLen
    BY <1>2, <1>4, <2>2, SdoBusAssumption DEF DeclaredSizeOK
  <2>4. transfer' \in DownloadTransfers
    BY <1>2, <1>4, <2>1 DEF Download, DownloadTransfers
  <2>5. TransferInBounds' /\ DownloadFits'
    BY <1>4, <2>3, SdoBusAssumption
       DEF Download, TransferInBounds, DownloadFits, DeclaredSizeOK
  <2>6. EncodeDownloadResponse(req.addr) \in ResponseFrames
    BY <1>2 DEF EncodeDownloadResponse, ResponseFrames
  <2>7. BusTypeOK'
    BY <1>1, <1>4, <2>6, ExchangeTyped DEF ServerInv, Reply
  <2>8. QED
    BY <1>4, <2>4, <2>5, <2>7 DEF ServerInv, ServerTypeOK, ObjectsHoldTheirType, IsValue
<1>5. QED
  BY <1>3, <1>4 DEF OnDownloadSegmented, DownloadTarget, AbortCode

\* on_upload_initiate answers with the value, or with its length and a
\* transfer that holds a copy of it.
LEMMA UploadInitiateKeepsInv == ServerInv /\ OnUploadInitiate => ServerInv'
<1> SUFFICES ASSUME ServerInv, OnUploadInitiate PROVE ServerInv'
  OBVIOUS
<1> DEFINE req == Head(c2s)
           addr == req.addr
<1>1. c2s # <<>> /\ req.cs = "UploadInitiate" /\ c2s' = Tail(c2s)
  BY DEF OnUploadInitiate, Handle
<1>2. addr \in Address
  BY <1>1, RequestFields DEF ServerInv
<1>3. UNCHANGED <<od, lastWrite>> /\ ObjectsHoldTheirType'
  BY DEF OnUploadInitiate, ServerInv, ObjectsHoldTheirType, IsValue
<1>4. CASE UploadTarget(req) # "ok"
  <2>1. UploadTarget(req) \in AbortCode
    BY <1>4 DEF UploadTarget, AbortCode
  <2>2. Refuse(addr, UploadTarget(req))
    BY <1>3, <1>4 DEF OnUploadInitiate, Refuse, serverVars
  <2>3. QED
    BY <1>1, <1>2, <2>1, <2>2, RefuseKeepsInv
<1>5. CASE UploadTarget(req) = "ok"
  <2>1. addr \in Objects /\ ServedRead(addr)
    BY <1>5 DEF UploadTarget, OnUploadInitiate
  <2>2. served' \in Seq(Accesses)
    BY <2>1, ReadKeepsTypes DEF ServerInv
  <2>3. od[addr] \in Seq(Byte) /\ Len(od[addr]) <= MaxLen
    BY <2>1, ValueFitsBuffer, SdoServerAssumption DEF ServerInv, ObjectsHoldTheirType
  <2>4. CASE FitsExpedited(od[addr])
    <3>1. UNCHANGED transfer /\ Reply(EncodeUploadExpeditedResponse(addr, od[addr]))
      BY <1>5, <2>4 DEF OnUploadInitiate
    <3>2. EncodeUploadExpeditedResponse(addr, od[addr]) \in ResponseFrames
      BY <1>2, <2>3 DEF EncodeUploadExpeditedResponse, ResponseFrames
    <3>3. BusTypeOK'
      BY <1>1, <3>1, <3>2, ExchangeTyped DEF ServerInv, Reply
    <3>4. QED
      BY <1>3, <2>2, <3>1, <3>3
         DEF ServerInv, ServerTypeOK, TransferInBounds, DownloadFits
  <2>5. CASE ~FitsExpedited(od[addr])
    <3>1. /\ transfer' = Upload(addr, od[addr], 0, FALSE)
          /\ Reply(EncodeUploadInitiateSegmentedResponse(addr, Len(od[addr])))
      BY <1>5, <2>5 DEF OnUploadInitiate
    <3>2. EncodeUploadInitiateSegmentedResponse(addr, Len(od[addr])) \in ResponseFrames
      BY <1>2, <2>3 DEF EncodeUploadInitiateSegmentedResponse, ResponseFrames
    <3>3. BusTypeOK'
      BY <1>1, <3>1, <3>2, ExchangeTyped DEF ServerInv, Reply
    <3>4. transfer' \in UploadTransfers /\ TransferInBounds' /\ DownloadFits'
      BY <2>1, <2>3, <3>1 DEF Upload, UploadTransfers, TransferInBounds, DownloadFits
    <3>5. QED
      BY <1>3, <2>2, <3>3, <3>4 DEF ServerInv, ServerTypeOK
  <2>6. QED
    BY <2>4, <2>5
<1>6. QED
  BY <1>4, <1>5

\* What ends a transfer, or leaves a server without one, and keeps the
\* dictionary: the abort replies of the two segment handlers.
LEMMA EndKeepsInv ==
    ASSUME ServerInv, BusTypeOK', transfer' = NoTransfer,
           UNCHANGED <<od, lastWrite, served>>
    PROVE  ServerInv'
BY DEF ServerInv, ServerTypeOK, ObjectsHoldTheirType, IsValue, TransferInBounds,
       DownloadFits, NoTransfer

\* The transfer of a server that is not idle, field by field.
LEMMA TransferFields ==
    ASSUME ServerInv
    PROVE  /\ Uploading =>
                /\ transfer \in UploadTransfers
                /\ transfer.addr \in Objects
                /\ transfer.data \in Seq(Byte)
                /\ transfer.pos \in 0..Len(transfer.data)
                /\ transfer.toggle \in BOOLEAN
           /\ Downloading =>
                /\ transfer \in DownloadTransfers
                /\ transfer.addr \in Objects
                /\ transfer.buf \in Seq(Byte)
                /\ transfer.declared \in Nat
                /\ transfer.toggle \in BOOLEAN
<1>1. transfer \in {NoTransfer} \cup UploadTransfers \cup DownloadTransfers
  BY DEF ServerInv, ServerTypeOK
<1>2. Uploading => transfer \in UploadTransfers
  BY <1>1 DEF Uploading, NoTransfer, DownloadTransfers
<1>3. Downloading => transfer \in DownloadTransfers
  BY <1>1 DEF Downloading, NoTransfer, UploadTransfers
<1>4. QED
  BY <1>2, <1>3
     DEF ServerInv, TransferInBounds, Uploading, UploadTransfers, DownloadTransfers

\* encode_data_segment cuts at least nothing and at most what is left, so the
\* position never passes the end of the data.
LEMMA SegmentWithinData ==
    ASSUME NEW data \in Seq(Byte), NEW pos \in 0..Len(data), NEW toggle \in BOOLEAN
    PROVE  /\ SegmentEnd(data, pos) \in pos..Len(data)
           /\ EncodeDataSegment(data, pos, toggle) \in SegmentFrames
<1>1. SegmentEnd(data, pos) \in pos..Len(data)
  BY SdoBusAssumption DEF SegmentEnd, Min2
<1>2. SubSeq(data, pos + 1, SegmentEnd(data, pos)) \in Seq(Byte)
  BY <1>1
<1>3. IsLastSegment(data, pos) \in BOOLEAN
  BY DEF IsLastSegment
<1>4. QED
  BY <1>1, <1>2, <1>3 DEF EncodeDataSegment, SegmentFrames

\* Every abort the server sends is a response frame.
LEMMA AbortReplyTyped ==
    ASSUME ServerInv, c2s # <<>>, c2s' = Tail(c2s),
           NEW addr \in Address \cup {NoAddress}, NEW code \in AbortCode,
           ReplyAbort(addr, code)
    PROVE  BusTypeOK'
<1>1. EncodeAbort(addr, code) \in ResponseFrames
  BY DEF EncodeAbort, ResponseFrames, AbortFrames
<1>2. QED
  BY <1>1, ExchangeTyped DEF ServerInv, ReplyAbort, Reply

\* on_upload_segment stays inside the data it copied.
LEMMA UploadSegmentKeepsInv == ServerInv /\ OnUploadSegment => ServerInv'
<1> SUFFICES ASSUME ServerInv, OnUploadSegment PROVE ServerInv'
  OBVIOUS
<1>1. c2s # <<>> /\ c2s' = Tail(c2s) /\ UNCHANGED <<od, lastWrite, served>>
  BY DEF OnUploadSegment, Handle
<1>2. CASE /\ Uploading
           /\ Reply(EncodeDataSegment(transfer.data, transfer.pos, transfer.toggle))
           /\ transfer' =
                 IF IsLastSegment(transfer.data, transfer.pos) THEN NoTransfer
                 ELSE [transfer EXCEPT
                         !.pos = SegmentEnd(transfer.data, transfer.pos),
                         !.toggle = ~transfer.toggle]
  <2> DEFINE data == transfer.data
             pos  == transfer.pos
  <2>1. /\ transfer \in UploadTransfers
        /\ data \in Seq(Byte)
        /\ pos \in 0..Len(data)
        /\ transfer.toggle \in BOOLEAN
        /\ Len(data) <= MaxLen
    BY <1>2, TransferFields DEF ServerInv, TransferInBounds, Uploading
  <2>2. /\ SegmentEnd(data, pos) \in pos..Len(data)
        /\ EncodeDataSegment(data, pos, transfer.toggle) \in SegmentFrames
    BY <2>1, SegmentWithinData
  <2>3. EncodeDataSegment(data, pos, transfer.toggle) \in ResponseFrames
    BY <2>2 DEF ResponseFrames
  <2>4. BusTypeOK'
    BY <1>1, <1>2, <2>3, ExchangeTyped DEF ServerInv, Reply
  <2>5. CASE IsLastSegment(data, pos)
    BY <1>1, <1>2, <2>4, <2>5, EndKeepsInv
  <2>6. CASE ~IsLastSegment(data, pos)
    <3>1. transfer' = [transfer EXCEPT !.pos = SegmentEnd(data, pos),
                                       !.toggle = ~transfer.toggle]
      BY <1>2, <2>6
    <3> DEFINE end == SegmentEnd(data, pos)
    <3>2. transfer' \in UploadTransfers /\ transfer'.data = data
          /\ transfer'.pos = SegmentEnd(data, pos) /\ transfer'.kind = "Upload"
      <4>1. end \in Nat /\ (~transfer.toggle) \in BOOLEAN
        BY <2>1, <2>2
      <4> HIDE DEF end
      <4>2. QED
        BY <2>1, <3>1, <4>1 DEF UploadTransfers, end
    <3>3. TransferInBounds' /\ DownloadFits'
      BY <2>1, <2>2, <3>2 DEF TransferInBounds, DownloadFits
    <3>4. QED
      BY <1>1, <2>4, <3>2, <3>3 DEF ServerInv, ServerTypeOK, ObjectsHoldTheirType, IsValue
  <2>7. QED
    BY <2>5, <2>6
<1>3. CASE /\ Uploading
           /\ ReplyAbort(transfer.addr, "ToggleBitNotAlternated")
           /\ transfer' = NoTransfer
  <2>1. transfer.addr \in Address
    BY <1>3, TransferFields, SdoServerAssumption
  <2>2. BusTypeOK'
    BY <1>1, <1>3, <2>1, AbortReplyTyped DEF AbortCode
  <2>3. QED
    BY <1>1, <1>3, <2>2, EndKeepsInv
<1>4. CASE ReplyAbort(NoAddress, "CommandInvalid") /\ transfer' = NoTransfer
  <2>1. BusTypeOK'
    BY <1>1, <1>4, AbortReplyTyped DEF AbortCode
  <2>2. QED
    BY <1>1, <1>4, <2>1, EndKeepsInv
<1>5. QED
  BY <1>2, <1>3, <1>4 DEF OnUploadSegment

\* on_download_segment stores a value of the object's type: the bytes are as
\* many as the initiate declared, and the initiate declared a size the type takes.
LEMMA DownloadSegmentKeepsInv == ServerInv /\ OnDownloadSegment => ServerInv'
<1> SUFFICES ASSUME ServerInv, OnDownloadSegment PROVE ServerInv'
  OBVIOUS
<1> DEFINE seg == Head(c2s)
           buf == transfer.buf \o seg.data
<1>1. c2s # <<>> /\ seg.cs = "Segment" /\ c2s' = Tail(c2s)
  BY DEF OnDownloadSegment, Handle
<1>2. seg.toggle \in BOOLEAN /\ seg.data \in Seq(Byte)
  BY <1>1, RequestFields DEF ServerInv
<1>3. CASE /\ UNCHANGED <<od, lastWrite, served>>
           /\ transfer' = NoTransfer
           /\ \/ ReplyAbort(NoAddress, "CommandInvalid")
              \/ /\ Downloading
                 /\ \E code \in AbortCode : ReplyAbort(transfer.addr, code)
  <2>1. Downloading => transfer.addr \in Address
    BY TransferFields, SdoServerAssumption
  <2>2. BusTypeOK'
    BY <1>1, <1>3, <2>1, AbortReplyTyped DEF AbortCode
  <2>3. QED
    BY <1>3, <2>2, EndKeepsInv
<1>4. EncodeDownloadSegmentResponse(seg.toggle) \in ResponseFrames
  BY <1>2 DEF EncodeDownloadSegmentResponse, ResponseFrames
<1>5. CASE /\ Downloading
           /\ FitsBuffer(buf)
           /\ Reply(EncodeDownloadSegmentResponse(seg.toggle))
           /\ transfer' = [transfer EXCEPT !.buf = buf, !.toggle = ~transfer.toggle]
           /\ UNCHANGED <<od, lastWrite, served>>
  <2>1. BusTypeOK'
    BY <1>1, <1>4, <1>5, ExchangeTyped DEF ServerInv, Reply
  <2>2. transfer \in DownloadTransfers /\ buf \in Seq(Byte)
    BY <1>2, <1>5, TransferFields
  <2>3. transfer' \in DownloadTransfers /\ transfer'.buf = buf
        /\ transfer'.addr = transfer.addr /\ transfer'.declared = transfer.declared
    BY <1>5, <2>2 DEF DownloadTransfers
  <2>4. TransferInBounds' /\ DownloadFits'
    BY <1>5, <2>2, <2>3
       DEF ServerInv, TransferInBounds, DownloadFits, DownloadTransfers, FitsBuffer
  <2>5. QED
    BY <1>5, <2>1, <2>3, <2>4 DEF ServerInv, ServerTypeOK, ObjectsHoldTheirType, IsValue
<1>6. CASE /\ Downloading
           /\ FitsBuffer(buf)
           /\ AsDeclared(buf)
           /\ WriteObject(transfer.addr, buf)
           /\ Reply(EncodeDownloadSegmentResponse(seg.toggle))
           /\ transfer' = NoTransfer
  <2>1. transfer.addr \in Objects /\ buf \in Seq(Byte)
    BY <1>2, <1>6, TransferFields
  <2>2. Decodable(Type[transfer.addr], buf)
    BY <1>6 DEF ServerInv, DownloadFits, Downloading, AsDeclared, Decodable
  <2>3. /\ ObjectsHoldTheirType'
        /\ od' \in [Objects -> Seq(Byte)]
        /\ lastWrite' \in {None} \cup Objects
        /\ served' \in Seq(Accesses)
    BY <1>6, <2>1, <2>2, WriteKeepsTypes DEF ServerInv
  <2>4. BusTypeOK'
    BY <1>1, <1>4, <1>6, ExchangeTyped DEF ServerInv, Reply
  <2>5. QED
    BY <1>6, <2>3, <2>4
       DEF ServerInv, ServerTypeOK, TransferInBounds, DownloadFits, NoTransfer
<1>7. QED
  BY <1>3, <1>5, <1>6 DEF OnDownloadSegment, AbortCode

\* A client abort takes no reply.
LEMMA ClientAbortKeepsInv == ServerInv /\ OnClientAbort => ServerInv'
<1> SUFFICES ASSUME ServerInv, OnClientAbort PROVE ServerInv'
  OBVIOUS
<1>1. c2s # <<>> /\ c2s' = Tail(c2s) /\ s2c' = s2c
  BY DEF OnClientAbort, Handle
<1>2. BusTypeOK'
  <2>1. c2s' \in Seq(RequestFrames) /\ s2c' \in Seq(ResponseFrames)
    BY <1>1 DEF ServerInv, BusTypeOK
  <2>2. ASSUME NEW i \in DOMAIN c2s'
        PROVE  WellFormed(c2s'[i])
    <3>1. i + 1 \in DOMAIN c2s /\ c2s'[i] = c2s[i + 1]
      BY <1>1 DEF ServerInv, BusTypeOK
    <3>2. QED
      BY <3>1 DEF ServerInv, BusTypeOK
  <2>3. QED
    BY <2>1, <2>2 DEF BusTypeOK, WellFormed
<1>3. QED
  BY <1>2, EndKeepsInv DEF OnClientAbort

\* A command specifier the server does not implement is refused.
LEMMA UnknownKeepsInv == ServerInv /\ OnUnknown => ServerInv'
<1> SUFFICES ASSUME ServerInv, OnUnknown PROVE ServerInv'
  OBVIOUS
<1>1. c2s # <<>> /\ Head(c2s).cs = "Unknown" /\ c2s' = Tail(c2s)
      /\ Refuse(Head(c2s).addr, "CommandInvalid")
  BY DEF OnUnknown, Handle
<1>2. Head(c2s).addr \in Address
  BY <1>1, RequestFields DEF ServerInv
<1>3. QED
  BY <1>1, <1>2, RefuseKeepsInv DEF AbortCode

-----------------------------------------------------------------------------

\* Every call of SdoServer::handle preserves the invariant.
LEMMA ServerStepKeepsInv == ServerInv /\ ServerStep => ServerInv'
BY DownloadExpeditedKeepsInv, DownloadSegmentedKeepsInv, UploadInitiateKeepsInv,
   UploadSegmentKeepsInv, DownloadSegmentKeepsInv, ClientAbortKeepsInv,
   UnknownKeepsInv
   DEF ServerStep

\* So do the application's two accesses: SdoServer::take_write and
\* ObjectDictionary::set with a value of the object's type.
LEMMA TakeWriteKeepsInv == ServerInv /\ TakeWrite => ServerInv'
BY DEF ServerInv, TakeWrite, busVars, BusTypeOK, WellFormed, ServerTypeOK,
       ObjectsHoldTheirType, IsValue, TransferInBounds, DownloadFits

\* ObjectDictionary::set changes the dictionary alone.
LEMMA DeviceSetKeepsInv ==
    ASSUME ServerInv, NEW o \in Objects, NEW value, DeviceSet(o, value)
    PROVE  ServerInv'
<1>1. value \in Seq(Byte) /\ od' = [od EXCEPT ![o] = value]
  BY DEF DeviceSet, IsValue
<1>2. ObjectsHoldTheirType'
  BY <1>1 DEF DeviceSet, ServerInv, ServerTypeOK, ObjectsHoldTheirType, IsValue
<1>3. QED
  BY <1>1, <1>2
     DEF DeviceSet, ServerInv, busVars, BusTypeOK, WellFormed, ServerTypeOK,
         TransferInBounds, DownloadFits

\* The server starts with the invariant: no transfer, and the dictionary its
\* application built.
LEMMA InitHasInv == BusInit /\ ServerInit => ServerInv
BY SdoServerAssumption
   DEF BusInit, ServerInit, ServerInv, BusTypeOK, ServerTypeOK, ObjectsHoldTheirType,
       IsValue, TransferInBounds, DownloadFits, NoTransfer

-----------------------------------------------------------------------------
(* The server against any client                                           *)

\* A request that arrives is one of the well-formed frames.
LEMMA RequestKeepsInv == ServerInv /\ Request => ServerInv'
<1> SUFFICES ASSUME ServerInv, Request PROVE ServerInv'
  OBVIOUS
<1>1. PICK req \in Requests : c2s' = <<req>>
  BY DEF Request
<1>2. req \in RequestFrames /\ WellFormed(req)
  BY SdoServerOpenAssumption
<1>3. c2s' \in Seq(RequestFrames) /\ \A i \in DOMAIN c2s' : c2s'[i] = req
  BY <1>1, <1>2
<1>4. \A i \in DOMAIN c2s' : WellFormed(c2s'[i])
  BY <1>2, <1>3
<1>5. s2c' \in Seq(ResponseFrames) /\ served' \in Seq(Accesses)
  BY DEF Request
<1>6. BusTypeOK'
  BY <1>3, <1>4, <1>5 DEF BusTypeOK, WellFormed
<1>7. QED
  BY <1>5, <1>6
     DEF Request, ServerInv, ServerTypeOK, ObjectsHoldTheirType, IsValue,
         TransferInBounds, DownloadFits

\* Every reachable state of the open server satisfies the inductive invariant.
LEMMA OpenInvariance == OpenSpec => []ServerInv
<1>1. OpenInit => ServerInv
  BY InitHasInv DEF OpenInit
<1>2. ServerInv /\ [OpenNext]_openVars => ServerInv'
  <2> SUFFICES ASSUME ServerInv, [OpenNext]_openVars PROVE ServerInv'
    OBVIOUS
  <2>1. CASE Request
    BY <2>1, RequestKeepsInv
  <2>2. CASE ServerStep
    BY <2>2, ServerStepKeepsInv
  <2>3. CASE TakeWrite
    BY <2>3, TakeWriteKeepsInv
  <2>4. CASE Publish
    BY <2>4, DeviceSetKeepsInv DEF Publish
  <2>5. CASE UNCHANGED openVars
    BY <2>5
       DEF openVars, busVars, serverVars, ServerInv, BusTypeOK, WellFormed, ServerTypeOK,
           ObjectsHoldTheirType, IsValue, TransferInBounds, DownloadFits
  <2>6. QED
    BY <2>1, <2>2, <2>3, <2>4, <2>5 DEF OpenNext
<1>3. QED
  BY <1>1, <1>2, PTL DEF OpenSpec

\* Type correctness: the replies of server.rs are the frames a client decodes,
\* and the transfer always names an object of the dictionary.
THEOREM OpenTypeCorrect == OpenSpec => []OpenTypeOK
<1>1. ServerInv => OpenTypeOK
  BY DEF ServerInv, OpenTypeOK
<1>2. QED
  BY <1>1, OpenInvariance, PTL

\* No sequence of requests makes ObjectDictionary::write fail or leaves an
\* object with bytes its type does not have.
THEOREM ObjectsAlwaysHoldTheirType == OpenSpec => []ObjectsHoldTheirType
<1>1. ServerInv => ObjectsHoldTheirType
  BY DEF ServerInv
<1>2. QED
  BY <1>1, OpenInvariance, PTL

\* No sequence of requests moves a transfer out of its MAX_STRING_LEN buffer:
\* the slices of on_upload_segment and the appends of on_download_segment are
\* in range.
THEOREM TransferAlwaysInBounds == OpenSpec => []TransferInBounds
<1>1. ServerInv => TransferInBounds
  BY DEF ServerInv
<1>2. QED
  BY <1>1, OpenInvariance, PTL

-----------------------------------------------------------------------------
(* What one call of SdoServer::handle does                                 *)

\* Replying adds one frame.
LEMMA ReplyAddsOne ==
    ASSUME ServerInv
    PROVE  /\ \A f : Reply(f) => Len(s2c') = Len(s2c) + 1
           /\ \A addr, code : ReplyAbort(addr, code) => Len(s2c') = Len(s2c) + 1
           /\ \A addr, code : Refuse(addr, code) => Len(s2c') = Len(s2c) + 1
<1>1. ASSUME NEW f, Reply(f) PROVE Len(s2c') = Len(s2c) + 1
  BY <1>1 DEF Reply, ServerInv, BusTypeOK
<1>2. QED
  BY <1>1 DEF ReplyAbort, Refuse

\* Every request draws one reply, an abort none.
LEMMA OneReply ==
    ASSUME ServerInv, ServerStep
    PROVE  Len(s2c') = Len(s2c) + (IF Head(c2s).cs = "Abort" THEN 0 ELSE 1)
<1>1. Len(s2c) \in Nat
  BY DEF ServerInv, BusTypeOK
<1>2. CASE OnDownloadExpedited
  BY <1>2, ReplyAddsOne DEF OnDownloadExpedited, Handle
<1>3. CASE OnDownloadSegmented
  BY <1>3, ReplyAddsOne DEF OnDownloadSegmented, Handle
<1>4. CASE OnUploadInitiate
  BY <1>4, ReplyAddsOne DEF OnUploadInitiate, Handle
<1>5. CASE OnUploadSegment
  BY <1>5, ReplyAddsOne DEF OnUploadSegment, Handle
<1>6. CASE OnDownloadSegment
  BY <1>6, ReplyAddsOne DEF OnDownloadSegment, Handle
<1>7. CASE OnClientAbort
  BY <1>1, <1>7 DEF OnClientAbort, Handle
<1>8. CASE OnUnknown
  BY <1>8, ReplyAddsOne DEF OnUnknown, Handle
<1>9. QED
  BY <1>2, <1>3, <1>4, <1>5, <1>6, <1>7, <1>8 DEF ServerStep

\* A step that announces what it does to the dictionary.
Announced ==
    /\ \A o \in Objects : od'[o] # od[o] => lastWrite' = o
    /\ lastWrite' # lastWrite =>
           \E i \in DOMAIN served' :
               served'[i].op = "write" /\ served'[i].addr = lastWrite'

\* WriteObject changes one object and leaves its address, and the access, behind.
LEMMA WriteAnnounces ==
    ASSUME ServerInv, NEW addr, NEW bytes, WriteObject(addr, bytes)
    PROVE  Announced
<1> DEFINE access == [op |-> "write", addr |-> addr, value |-> Decode(Type[addr], bytes)]
<1>1. od' = [od EXCEPT ![addr] = Decode(Type[addr], bytes)] /\ lastWrite' = addr
      /\ served' = Append(served, access)
  BY DEF WriteObject
<1>2. \A o \in Objects : od'[o] # od[o] => lastWrite' = o
  BY <1>1 DEF ServerInv, ServerTypeOK
<1>3. Len(served) + 1 \in DOMAIN served' /\ served'[Len(served) + 1] = access
  BY <1>1 DEF ServerInv, ServerTypeOK
<1>4. access.op = "write" /\ access.addr = lastWrite'
  BY <1>1
<1>5. QED
  BY <1>2, <1>3, <1>4 DEF Announced

\* Every handler writes through WriteObject, or not at all.
LEMMA WritesOrLeaves ==
    ASSUME ServerStep
    PROVE  \/ UNCHANGED <<od, lastWrite>>
           \/ /\ OnDownloadExpedited
              /\ \E addr, bytes : WriteObject(addr, bytes)
           \/ /\ OnDownloadSegment
              /\ WriteObject(transfer.addr, transfer.buf \o Head(c2s).data)
<1>1. CASE OnDownloadExpedited
  BY <1>1 DEF OnDownloadExpedited, Refuse, serverVars
<1>2. CASE OnDownloadSegmented
  BY <1>2 DEF OnDownloadSegmented, Refuse, serverVars
<1>3. CASE OnUploadInitiate \/ OnUploadSegment \/ OnClientAbort \/ OnUnknown
  BY <1>3 DEF OnUploadInitiate, OnUploadSegment, OnClientAbort, OnUnknown, Refuse, serverVars
<1>4. CASE OnDownloadSegment
  BY <1>4 DEF OnDownloadSegment
<1>5. QED
  BY <1>1, <1>2, <1>3, <1>4 DEF ServerStep

\* Every request but an abort is answered by exactly one frame: the replies of
\* SdoServer::handle never get out of step with the requests.
THEOREM RequestsAreAnswered == OpenSpec => EveryRequestAnswered
<1>1. ServerInv /\ [OpenNext]_openVars =>
        [ServerStep =>
           Len(s2c') = Len(s2c) + (IF Head(c2s).cs = "Abort" THEN 0 ELSE 1)]_openVars
  BY OneReply
<1>2. QED
  BY <1>1, OpenInvariance, PTL DEF OpenSpec, EveryRequestAnswered

\* No write to the dictionary escapes take_write, and none is announced that did
\* not happen.
THEOREM ChangesAreAnnounced == OpenSpec => WritesAreAnnounced
<1>1. ASSUME ServerInv, ServerStep PROVE Announced
  BY <1>1, WritesOrLeaves, WriteAnnounces DEF Announced
<1>2. ServerInv /\ [OpenNext]_openVars =>
        [ServerStep =>
           /\ \A o \in Objects : od'[o] # od[o] => lastWrite' = o
           /\ lastWrite' # lastWrite =>
                  \E i \in DOMAIN served' :
                      served'[i].op = "write" /\ served'[i].addr = lastWrite']_openVars
  BY <1>1 DEF Announced
<1>3. QED
  BY <1>2, OpenInvariance, PTL DEF OpenSpec, WritesAreAnnounced

\* A segment stores nothing but the whole of a download: as many bytes as the
\* initiate declared, those of the buffer and its own.
THEOREM DownloadsAreWhole == OpenSpec => StoredWhole
<1> DEFINE bytes == transfer.buf \o Head(c2s).data
           Whole == /\ transfer.kind = "Download"
                    /\ transfer' = NoTransfer
                    /\ Len(transfer.buf) + Len(Head(c2s).data) = transfer.declared
                    /\ od' = [od EXCEPT ![transfer.addr] =
                                 Decode(Type[transfer.addr], bytes)]
<1>1. ASSUME ServerInv, ServerStep, Head(c2s).cs \in {"Segment", "UploadSegment"}
      PROVE  UNCHANGED od \/ Whole
  <2>1. CASE UNCHANGED <<od, lastWrite>>
    BY <2>1
  <2>2. ~OnDownloadExpedited
    BY <1>1 DEF OnDownloadExpedited, Handle
  <2>3. CASE OnDownloadSegment /\ WriteObject(transfer.addr, bytes) /\ od' # od
    <3>1. c2s # <<>> /\ Head(c2s).cs = "Segment"
      BY <2>3 DEF OnDownloadSegment, Handle
    <3>2. Downloading /\ AsDeclared(bytes) /\ transfer' = NoTransfer
      BY <2>3 DEF OnDownloadSegment
    <3>3. transfer.buf \in Seq(Byte) /\ Head(c2s).data \in Seq(Byte)
      BY <1>1, <3>1, <3>2, TransferFields, RequestFields DEF ServerInv
    <3>4. Len(bytes) = Len(transfer.buf) + Len(Head(c2s).data)
      BY <3>3
    <3>5. QED
      BY <2>3, <3>2, <3>4 DEF WriteObject, AsDeclared, Downloading
  <2>4. QED
    BY <1>1, <2>1, <2>2, <2>3, WritesOrLeaves
<1>2. ServerInv /\ [OpenNext]_openVars =>
        [ServerStep /\ Head(c2s).cs \in {"Segment", "UploadSegment"} =>
           \/ UNCHANGED od
           \/ Whole]_openVars
  BY <1>1
<1>3. QED
  BY <1>2, OpenInvariance, PTL DEF OpenSpec, StoredWhole
=============================================================================
