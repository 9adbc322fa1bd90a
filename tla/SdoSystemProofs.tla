--------------------------- MODULE SdoSystemProofs ---------------------------
(***************************************************************************)
(* Client and server over the lossy bus, for every dictionary, all values  *)
(* and all losses: the two ends stay in step, legal calls of which nothing *)
(* is lost succeed, and calls are atomic accesses to the objects.  On a    *)
(* bus that also repeats frames, the calls that succeed did what they say. *)
(***************************************************************************)
EXTENDS SdoSystem, SdoServerProofs

-----------------------------------------------------------------------------
(* The inductive invariant: what either end may assume of the other        *)

Asked(frame)    == c2s = <<frame>> /\ s2c = <<>>
Answered(frame) == c2s = <<>> /\ s2c = <<frame>>

\* The server may have refused an illegal call, and any frame may be lost.
Refused ==
    /\ ~Legal
    /\ c2s = <<>>
    /\ \E addr \in Address \cup {NoAddress}, code \in AbortCode :
          s2c = <<EncodeAbort(addr, code)>>
Silent == lost /\ Drained

Reading == call.op = "read"
Writing == call.op = "write" /\ IsValue(call.type, call.value)

\* The call has made its access, a read of v.
HasRead(v) ==
    /\ call.addr \in Objects
    /\ IsValue(Type[call.addr], v)
    /\ served = <<Accessed("read", call.addr, v)>>

ExpeditedWrite ==
    /\ Writing
    /\ client.state = "DownloadExpedited"
    /\ \/ /\ Asked(EncodeDownloadExpedited(call.addr, call.value))
          /\ FitsExpedited(call.value)
          /\ served = <<>>
       \/ Answered(EncodeDownloadResponse(call.addr)) /\ served # <<>>
       \/ Refused
       \/ Silent

OpeningWrite ==
    /\ Writing
    /\ client = [state |-> "DownloadInit", data |-> call.value]
    /\ \/ /\ Asked(EncodeDownloadInitiateSegmented(call.addr, Len(call.value)))
          /\ served = <<>>
       \/ /\ Answered(EncodeDownloadResponse(call.addr))
          /\ transfer = Download(call.addr, <<>>, Len(call.value), FALSE)
          /\ served = <<>>
       \/ Refused
       \/ Silent

\* The server has `pos` bytes of the value.
HasBytes(pos, toggle) ==
    /\ transfer = Download(call.addr, SubSeq(call.value, 1, pos), Len(call.value), toggle)
    /\ served = <<>>

SegmentedWrite ==
    /\ Writing
    /\ client.state = "DownloadSeg"
    /\ client.data = call.value
    /\ \/ \E pos \in 0..Len(call.value) :
             /\ Asked(EncodeDataSegment(call.value, pos, client.toggle))
             /\ client.pos = SegmentEnd(call.value, pos)
             /\ HasBytes(pos, client.toggle)
       \/ /\ Answered(EncodeDownloadSegmentResponse(client.toggle))
          /\ client.pos \in 0..Len(call.value)
          /\ IF client.pos = Len(call.value) THEN served # <<>>
                                             ELSE HasBytes(client.pos, ~client.toggle)
       \/ Silent

OpeningRead ==
    /\ Reading
    /\ client = [state |-> "UploadInit", type |-> call.type]
    /\ \/ Asked(EncodeUploadRequest(call.addr)) /\ served = <<>>
       \/ \E v \in {served[i].value : i \in DOMAIN served} :
             /\ HasRead(v)
             /\ \/ Answered(EncodeUploadExpeditedResponse(call.addr, v))
                \/ /\ Answered(EncodeUploadInitiateSegmentedResponse(call.addr, Len(v)))
                   /\ transfer = Upload(call.addr, v, 0, FALSE)
       \/ Refused
       \/ Silent

\* The client has `pos` bytes of v.
ReadSoFar(v, pos) == client.buf = SubSeq(v, 1, pos)

SegmentedRead ==
    /\ Reading
    /\ client.state = "UploadSeg"
    /\ client.type = call.type
    /\ \/ \E v \in {served[i].value : i \in DOMAIN served} : \E pos \in 0..Len(v) :
             /\ HasRead(v)
             /\ ReadSoFar(v, pos)
             /\ \/ /\ Asked(EncodeUploadSegmentRequest(client.toggle))
                   /\ transfer = Upload(call.addr, v, pos, client.toggle)
                \/ /\ Answered(EncodeDataSegment(v, pos, client.toggle))
                   /\ ~IsLastSegment(v, pos) =>
                         transfer = Upload(call.addr, v, SegmentEnd(v, pos), ~client.toggle)
       \/ Silent

Conversation ==
    /\ call # NoCall
    /\ ExpeditedWrite \/ OpeningWrite \/ SegmentedWrite \/ OpeningRead \/ SegmentedRead

\* Between calls nothing is under way, and a legal call has failed for a loss only.
Returned ==
    /\ Drained
    /\ call # NoCall /\ Legal =>
          result.kind \in {"Value", "Written"} \/ (result.kind = "Io" /\ lost)

Turn == IF result = Pending THEN Conversation ELSE Returned

Inv ==
    /\ ServerInv
    /\ ClientTypeOK
    /\ lost \in BOOLEAN /\ foreign \in BOOLEAN
    /\ Turn

-----------------------------------------------------------------------------
(* The steps of AtomicObjects                                              *)

AtomicStep == [Atomic!Next]_Atomic!vars

\* Steps that touch no object, call or result are stutters of it.
LEMMA StutterIsAtomic ==
    ASSUME UNCHANGED <<od, call, result, served>>
    PROVE  AtomicStep
BY DEF AtomicStep, Atomic!vars

\* The server's write of an object is the access of the running call.
LEMMA WriteIsAtomic ==
    ASSUME result = Pending, served = <<>>, call.op = "write", call.addr \in Objects,
           Decodable(Type[call.addr], call.value),
           WriteObject(call.addr, call.value), UNCHANGED clientVars
    PROVE  AtomicStep /\ served' # <<>>
<1>1. Append(<<>>, [op |-> "write", addr |-> call.addr,
                    value |-> Decode(Type[call.addr], call.value)])
      = <<[op |-> "write", addr |-> call.addr,
           value |-> Decode(Type[call.addr], call.value)]>>
  OBVIOUS
<1>2. Atomic!Write
  BY <1>1 DEF Atomic!Write, Atomic!Running, WriteObject, Pending, clientVars
<1>3. QED
  BY <1>1, <1>2 DEF AtomicStep, Atomic!Next, WriteObject

\* So is its read.
LEMMA ReadIsAtomic ==
    ASSUME result = Pending, served = <<>>, call.op = "read", call.addr \in Objects,
           ServedRead(call.addr), UNCHANGED od, UNCHANGED clientVars
    PROVE  AtomicStep /\ served' = <<Accessed("read", call.addr, od[call.addr])>>
<1>1. Append(<<>>, [op |-> "read", addr |-> call.addr, value |-> od[call.addr]])
      = <<[op |-> "read", addr |-> call.addr, value |-> od[call.addr]]>>
  OBVIOUS
<1>2. Atomic!Read
  BY <1>1 DEF Atomic!Read, Atomic!Running, ServedRead, Pending, clientVars
<1>3. QED
  BY <1>1, <1>2 DEF AtomicStep, Atomic!Next, ServedRead, Accessed

\* A call may fail before or after its access.
LEMMA FailIsAtomic ==
    ASSUME result = Pending, result'.kind \in {"Io", "Aborted"},
           UNCHANGED <<od, call, served>>
    PROVE  AtomicStep
<1>1. Atomic!Fail
  BY DEF Atomic!Fail, Atomic!Running, Pending
<1>2. QED
  BY <1>1 DEF AtomicStep, Atomic!Next

\* A write returns after its access.
LEMMA WrittenIsAtomic ==
    ASSUME result = Pending, result' = [kind |-> "Written"], call.op = "write",
           served # <<>>, UNCHANGED <<od, call, served>>
    PROVE  AtomicStep
<1>1. Atomic!Succeed
  BY DEF Atomic!Succeed, Atomic!Running, Pending
<1>2. QED
  BY <1>1 DEF AtomicStep, Atomic!Next

\* A read returns what its access yielded.
LEMMA ValueIsAtomic ==
    ASSUME NEW v, HasRead(v), Decodable(call.type, v),
           result = Pending, result' = [kind |-> "Value", value |-> Decode(call.type, v)],
           call.op = "read", UNCHANGED <<od, call, served>>
    PROVE  AtomicStep
<1>1. served # <<>> /\ served[1].value = v
  BY DEF HasRead, Accessed
<1>2. Atomic!Succeed
  BY <1>1 DEF Atomic!Succeed, Atomic!Running, Pending
<1>3. QED
  BY <1>2 DEF AtomicStep, Atomic!Next

\* A call starts with no access made.
LEMMA StartIsAtomic ==
    ASSUME result # Pending, result \in Results, result' = Pending, served' = <<>>, UNCHANGED od,
           call'.op \in {"read", "write"}, call'.addr \in Address
    PROVE  AtomicStep
<1>1. result.kind # "Pending"
  BY DEF Results, Pending
<1>2. Atomic!Start
  BY <1>1 DEF Atomic!Start, Atomic!Running, Pending
<1>3. QED
  BY <1>2 DEF AtomicStep, Atomic!Next

\* The application changes an object in one step.
LEMMA PublishIsAtomic ==
    ASSUME od \in [Objects -> Seq(Byte)], NEW o \in Objects, NEW value, DeviceSet(o, value),
           UNCHANGED <<call, result>>
    PROVE  AtomicStep
<1>1. od' = [od EXCEPT ![o] = value] /\ od'[o] = value
  BY DEF DeviceSet
<1>2. Atomic!Publish
  BY <1>1 DEF Atomic!Publish, DeviceSet, IsValue
<1>3. QED
  BY <1>2 DEF AtomicStep, Atomic!Next

-----------------------------------------------------------------------------
(* One request under way                                                   *)

LEMMA Singletons ==
    ASSUME NEW f, NEW g
    PROVE  /\ <<f>> # <<>> /\ Head(<<f>>) = f /\ Tail(<<f>>) = <<>>
           /\ Append(<<>>, g) = <<g>>
           /\ (<<f>> = <<g>> => f = g)
OBVIOUS

\* The handler that takes it, and what that leaves on the bus.
LEMMA HandlerOf ==
    ASSUME NEW f, Asked(f), ServerStep
    PROVE  /\ f.cs = "DownloadExpedited" => OnDownloadExpedited
           /\ f.cs = "DownloadSegmented" => OnDownloadSegmented
           /\ f.cs = "UploadInitiate" => OnUploadInitiate
           /\ f.cs = "UploadSegment" => OnUploadSegment
           /\ f.cs = "Segment" => OnDownloadSegment
           /\ c2s' = <<>>
           /\ Head(c2s) = f
           /\ \A g : Reply(g) => s2c' = <<g>>
<1>1. Head(c2s) = f /\ Tail(c2s) = <<>>
  BY Singletons DEF Asked
<1>2. \A g : Reply(g) => s2c' = <<g>>
  BY Singletons DEF Asked, Reply
<1>3. QED
  BY <1>1, <1>2
     DEF ServerStep, OnDownloadExpedited, OnDownloadSegmented, OnUploadInitiate,
         OnUploadSegment, OnDownloadSegment, OnClientAbort, OnUnknown, Handle

\* No request, no step of the server.
LEMMA NothingAsked ==
    ASSUME ServerStep PROVE c2s # <<>>
BY DEF ServerStep, OnDownloadExpedited, OnDownloadSegmented, OnUploadInitiate,
       OnUploadSegment, OnDownloadSegment, OnClientAbort, OnUnknown, Handle

\* A refusal of a call that is not legal.
LEMMA RefusalOf ==
    ASSUME NEW f, Asked(f), ServerStep, ~Legal, UNCHANGED call,
           NEW addr \in Address \cup {NoAddress}, NEW code \in AbortCode, ReplyAbort(addr, code)
    PROVE  Refused'
<1>1. c2s' = <<>> /\ s2c' = <<EncodeAbort(addr, code)>>
  BY HandlerOf DEF ReplyAbort
<1>2. ~Legal'
  BY DEF Legal
<1>3. QED
  BY <1>1, <1>2 DEF Refused

-----------------------------------------------------------------------------
(* The server's half of the conversation                                   *)

\* What the invariant says of a call.
LEMMA CallTyped ==
    ASSUME Inv, call # NoCall
    PROVE  /\ call.addr \in Address
           /\ call.type \in DataType
           /\ call.op = "write" => call.value \in Seq(Byte)
BY DEF Inv, ClientTypeOK, Calls, NoCall

\* A legal write is of a length that the object takes, in either way.
LEMMA LegalWriteFits ==
    ASSUME Inv, call # NoCall, Legal, Writing
    PROVE  /\ call.addr \in Objects /\ Writable(call.addr)
           /\ call.value \in Seq(Byte)
           /\ Decodable(Type[call.addr], call.value)
BY CallTyped DEF Legal, Writing, IsValue

\* An expedited write: the object is written and confirmed, or an illegal call refused.
LEMMA ServeExpeditedWrite ==
    ASSUME Inv, Serve, call # NoCall, result = Pending, ExpeditedWrite
    PROVE  ExpeditedWrite' /\ AtomicStep
<1> DEFINE req == EncodeDownloadExpedited(call.addr, call.value)
<1>1. ServerStep /\ UNCHANGED clientVars /\ UNCHANGED <<call, result, client, lost>>
  BY DEF Serve, clientVars, roundVars
<1>2. Asked(req) /\ FitsExpedited(call.value) /\ served = <<>>
  BY <1>1, NothingAsked DEF ExpeditedWrite, Answered, Refused, Silent, Drained
<1>3. /\ req.cs = "DownloadExpedited" /\ req.addr = call.addr
      /\ req.sized = TRUE /\ req.data = call.value
  BY DEF EncodeDownloadExpedited
<1>4. OnDownloadExpedited /\ Head(c2s) = req
  BY <1>1, <1>2, <1>3, HandlerOf
<1>5. Writing' /\ client'.state = "DownloadExpedited"
  BY <1>1 DEF ExpeditedWrite, Writing
<1>6. call.addr \in Address /\ call.value \in Seq(Byte)
  BY CallTyped DEF ExpeditedWrite, Writing
<1>7. ExpeditedLength(req) = Len(call.value)
  BY <1>3 DEF ExpeditedLength
<1>8. CASE \E code \in AbortCode : Refuse(call.addr, code) /\ ~Legal
  <2>1. PICK code \in AbortCode : Refuse(call.addr, code) /\ ~Legal
    BY <1>8
  <2>2. Refused'
    BY <2>1, <1>1, <1>2, <1>6, RefusalOf DEF Refuse
  <2>3. AtomicStep
    BY <2>1, <1>1, StutterIsAtomic DEF Refuse, serverVars
  <2>4. QED
    BY <2>2, <2>3, <1>5 DEF ExpeditedWrite
<1>9. CASE /\ DownloadTarget(req) = "ok"
           /\ ExpeditedLengthOK(req)
           /\ WriteObject(call.addr, SubSeq(call.value, 1, Len(call.value)))
           /\ Reply(EncodeDownloadResponse(call.addr))
  <2>1. SubSeq(call.value, 1, Len(call.value)) = call.value
    BY <1>6
  <2>2. call.addr \in Objects
    BY <1>9, <1>3 DEF DownloadTarget
  <2>3. FixedSize[Type[call.addr]] \in 0..MaxLen
    BY <2>2, SdoServerAssumption, SdoBusAssumption
  <2>4. Len(call.value) <= ExpMax /\ Len(call.value) \in Nat
    BY <1>2, <1>6 DEF FitsExpedited
  <2>5. FixedSize[Type[call.addr]] # 0 => Len(call.value) = FixedSize[Type[call.addr]]
    BY <1>9, <1>7, <1>3 DEF ExpeditedLengthOK
  <2>6. Decodable(Type[call.addr], call.value)
    BY <2>3, <2>4, <2>5, SdoBusAssumption DEF Decodable
  <2>7. AtomicStep /\ served' # <<>>
    BY <1>1, <1>2, <1>9, <2>1, <2>2, <2>6, WriteIsAtomic DEF ExpeditedWrite, Writing
  <2>8. (Answered(EncodeDownloadResponse(call.addr)))'
    BY <1>1, <1>2, <1>9, HandlerOf DEF Answered, EncodeDownloadResponse
  <2>9. QED
    BY <2>7, <2>8, <1>5 DEF ExpeditedWrite
<1>10. DownloadTarget(req) # "ok" => ~Legal /\ DownloadTarget(req) \in AbortCode
  BY <1>3 DEF DownloadTarget, Legal, ExpeditedWrite, Writing, AbortCode
<1>11. ~ExpeditedLengthOK(req) => ~Legal
  <2> SUFFICES ASSUME Legal PROVE ExpeditedLengthOK(req)
    OBVIOUS
  <2>1. Decodable(Type[call.addr], call.value)
    BY LegalWriteFits DEF ExpeditedWrite
  <2>2. Len(call.value) <= ExpMax
    BY <1>2 DEF FitsExpedited
  <2>3. QED
    BY <2>1, <2>2, <1>3, <1>7 DEF ExpeditedLengthOK, Decodable
<1>12. QED
  BY <1>3, <1>4, <1>7, <1>8, <1>9, <1>10, <1>11 DEF OnDownloadExpedited, AbortCode

\* The announcement of a segmented write: the server is ready for the first byte.
LEMMA ServeOpeningWrite ==
    ASSUME Inv, Serve, call # NoCall, result = Pending, OpeningWrite
    PROVE  OpeningWrite' /\ AtomicStep
<1> DEFINE req == EncodeDownloadInitiateSegmented(call.addr, Len(call.value))
<1>1. ServerStep /\ UNCHANGED clientVars /\ UNCHANGED <<call, result, client, lost>>
  BY DEF Serve, clientVars, roundVars
<1>2. Asked(req) /\ served = <<>>
  BY <1>1, NothingAsked DEF OpeningWrite, Answered, Refused, Silent, Drained
<1>3. /\ req.cs = "DownloadSegmented" /\ req.addr = call.addr
      /\ req.sized = TRUE /\ req.size = Len(call.value)
  BY DEF EncodeDownloadInitiateSegmented
<1>4. OnDownloadSegmented /\ Head(c2s) = req
  BY <1>1, <1>2, <1>3, HandlerOf
<1>5. Writing' /\ client' = [state |-> "DownloadInit", data |-> call'.value]
  BY <1>1 DEF OpeningWrite, Writing
<1>6. call.addr \in Address /\ call.value \in Seq(Byte)
  BY CallTyped DEF OpeningWrite, Writing
<1>7. CASE \E code \in AbortCode : Refuse(call.addr, code) /\ ~Legal
  <2>1. PICK code \in AbortCode : Refuse(call.addr, code) /\ ~Legal
    BY <1>7
  <2>2. Refused'
    BY <2>1, <1>1, <1>2, <1>6, RefusalOf DEF Refuse
  <2>3. AtomicStep
    BY <2>1, <1>1, StutterIsAtomic DEF Refuse, serverVars
  <2>4. QED
    BY <2>2, <2>3, <1>5 DEF OpeningWrite
<1>8. CASE /\ transfer' = Download(call.addr, <<>>, Len(call.value), FALSE)
           /\ Reply(EncodeDownloadResponse(call.addr))
           /\ UNCHANGED <<od, lastWrite, served>>
  <2>1. (Answered(EncodeDownloadResponse(call.addr)))'
    BY <1>1, <1>2, <1>8, HandlerOf DEF Answered, EncodeDownloadResponse
  <2>2. transfer' = Download(call'.addr, <<>>, Len(call'.value), FALSE) /\ served' = <<>>
    BY <1>1, <1>2, <1>8
  <2>3. AtomicStep
    BY <1>1, <1>8, StutterIsAtomic
  <2>4. QED
    BY <2>1, <2>2, <2>3, <1>5 DEF OpeningWrite, Download
<1>9. DownloadTarget(req) # "ok" => ~Legal /\ DownloadTarget(req) \in AbortCode
  BY <1>3 DEF DownloadTarget, Legal, OpeningWrite, Writing, AbortCode
<1>10. ~DeclaredSizeOK(req) => ~Legal
  <2> SUFFICES ASSUME Legal PROVE DeclaredSizeOK(req)
    OBVIOUS
  <2>1. Decodable(Type[call.addr], call.value)
    BY LegalWriteFits DEF OpeningWrite
  <2>2. QED
    BY <2>1, <1>3 DEF DeclaredSizeOK, Decodable
<1>11. QED
  BY <1>3, <1>4, <1>7, <1>8, <1>9, <1>10 DEF OnDownloadSegmented, AbortCode

\* Segments are cut one after the other, and the last ends the value.
LEMMA NextSegment ==
    ASSUME NEW v \in Seq(Byte), NEW pos \in 0..Len(v)
    PROVE  /\ SegmentEnd(v, pos) \in 0..Len(v)
           /\ IsLastSegment(v, pos) <=> SegmentEnd(v, pos) = Len(v)
           /\ SubSeq(v, 1, pos) \o SubSeq(v, pos + 1, SegmentEnd(v, pos))
              = SubSeq(v, 1, SegmentEnd(v, pos))
           /\ SubSeq(v, 1, pos) \in Seq(Byte) /\ Len(SubSeq(v, 1, pos)) = pos
           /\ SubSeq(v, 1, Len(v)) = v
           /\ SubSeq(v, 1, 0) = <<>>
<1>1. Len(v) \in Nat
  OBVIOUS
<1>2. SegmentEnd(v, pos) \in pos..Len(v)
  BY <1>1, SdoBusAssumption DEF SegmentEnd, Min2
<1>3. IsLastSegment(v, pos) <=> SegmentEnd(v, pos) = Len(v)
  BY <1>1, SdoBusAssumption DEF SegmentEnd, Min2, IsLastSegment
<1>4. /\ SubSeq(v, 1, pos) \in Seq(Byte) /\ Len(SubSeq(v, 1, pos)) = pos
      /\ SubSeq(v, 1, Len(v)) = v
      /\ SubSeq(v, 1, 0) = <<>>
  BY <1>1
<1>5. SubSeq(v, 1, pos) \o SubSeq(v, pos + 1, SegmentEnd(v, pos))
      = SubSeq(v, 1, SegmentEnd(v, pos))
  <2> DEFINE k == SegmentEnd(v, pos)
  <2> HIDE DEF k
  <2>1. k \in pos..Len(v)
    BY <1>2 DEF k
  <2>2. SubSeq(v, 1, pos) \o SubSeq(v, pos + 1, k) = SubSeq(v, 1, k)
    BY <1>1, <2>1
  <2>3. QED
    BY <2>2 DEF k
<1>6. QED
  BY <1>2, <1>3, <1>4, <1>5

\* A segment of it: the server appends the piece it lacks, the last one writes the object.
LEMMA ServeSegmentedWrite ==
    ASSUME Inv, Serve, call # NoCall, result = Pending, SegmentedWrite
    PROVE  SegmentedWrite' /\ AtomicStep
<1> DEFINE v == call.value
<1>1. ServerStep /\ UNCHANGED clientVars /\ UNCHANGED <<call, result, client, lost>>
  BY DEF Serve, clientVars, roundVars
<1>2. PICK pos \in 0..Len(v) :
          /\ Asked(EncodeDataSegment(v, pos, client.toggle))
          /\ client.pos = SegmentEnd(v, pos)
          /\ HasBytes(pos, client.toggle)
  BY <1>1, NothingAsked DEF SegmentedWrite, Answered, Silent, Drained
<1> DEFINE seg == EncodeDataSegment(v, pos, client.toggle)
<1>3. /\ seg.cs = "Segment" /\ seg.toggle = client.toggle
      /\ seg.last = IsLastSegment(v, pos)
      /\ seg.data = SubSeq(v, pos + 1, SegmentEnd(v, pos))
  BY DEF EncodeDataSegment
<1>4. OnDownloadSegment /\ Head(c2s) = seg
  BY <1>1, <1>2, <1>3, HandlerOf
<1>5. Writing' /\ client'.state = "DownloadSeg" /\ client'.data = call'.value
  BY <1>1 DEF SegmentedWrite, Writing
<1>6. call.addr \in Address /\ v \in Seq(Byte)
  BY CallTyped DEF SegmentedWrite, Writing
<1>7. /\ transfer = Download(call.addr, SubSeq(v, 1, pos), Len(v), client.toggle)
      /\ served = <<>>
  BY <1>2 DEF HasBytes
<1>8. /\ transfer.kind = "Download" /\ transfer.addr = call.addr
      /\ transfer.buf = SubSeq(v, 1, pos) /\ transfer.declared = Len(v)
      /\ transfer.toggle = client.toggle
  BY <1>7 DEF Download
<1>9. /\ SegmentEnd(v, pos) \in 0..Len(v)
      /\ IsLastSegment(v, pos) <=> SegmentEnd(v, pos) = Len(v)
      /\ transfer.buf \o seg.data = SubSeq(v, 1, SegmentEnd(v, pos))
      /\ Len(SubSeq(v, 1, SegmentEnd(v, pos))) = SegmentEnd(v, pos)
      /\ SubSeq(v, 1, Len(v)) = v
  BY <1>3, <1>6, <1>8, NextSegment
<1> DEFINE buf == transfer.buf \o seg.data
<1>10. FitsBuffer(buf)
  <2>1. Len(v) <= MaxLen
    BY <1>8 DEF Inv, ServerInv, TransferInBounds
  <2>2. QED
    BY <2>1, <1>6, <1>9, SdoBusAssumption DEF FitsBuffer
<1>11. Downloading /\ InSequence(seg)
  BY <1>3, <1>8 DEF Downloading, InSequence
<1>12. (Answered(EncodeDownloadSegmentResponse(client.toggle)))'
  <2>1. Reply(EncodeDownloadSegmentResponse(seg.toggle))
    BY <1>3, <1>4, <1>8, <1>9, <1>10, <1>11 DEF OnDownloadSegment, AsDeclared
  <2>2. c2s' = <<>> /\ s2c' = <<EncodeDownloadSegmentResponse(client.toggle)>>
    BY <1>1, <1>2, <1>3, <2>1, HandlerOf
  <2>3. QED
    BY <1>1, <2>2 DEF Answered, EncodeDownloadSegmentResponse
<1>13. CASE IsLastSegment(v, pos)
  <2>1. WriteObject(call.addr, v)
    BY <1>3, <1>4, <1>8, <1>9, <1>10, <1>11, <1>13 DEF OnDownloadSegment, AsDeclared
  <2>2. call.addr \in Objects
    BY <1>8, <1>11, TransferFields DEF Inv
  <2>3. Decodable(Type[call.addr], v)
    <3>1. FixedSize[Type[call.addr]] # 0 => Len(v) = FixedSize[Type[call.addr]]
      BY <1>8 DEF Inv, ServerInv, DownloadFits
    <3>2. Len(v) <= MaxLen
      BY <1>8 DEF Inv, ServerInv, TransferInBounds
    <3>3. QED
      BY <3>1, <3>2 DEF Decodable
  <2>4. AtomicStep /\ served' # <<>>
    BY <1>1, <1>7, <2>1, <2>2, <2>3, WriteIsAtomic DEF SegmentedWrite, Writing
  <2>5. client'.pos = Len(call'.value) /\ client'.pos \in 0..Len(call'.value)
    BY <1>1, <1>2, <1>9, <1>13
  <2>6. QED
    BY <1>5, <1>12, <2>4, <2>5 DEF SegmentedWrite
<1>14. CASE ~IsLastSegment(v, pos)
  <2>1. /\ transfer' = [transfer EXCEPT !.buf = buf, !.toggle = ~transfer.toggle]
        /\ UNCHANGED <<od, lastWrite, served>>
    BY <1>3, <1>4, <1>9, <1>10, <1>11, <1>14 DEF OnDownloadSegment
  <2>2. transfer' = Download(call.addr, SubSeq(v, 1, SegmentEnd(v, pos)), Len(v), ~client.toggle)
    BY <1>7, <1>8, <1>9, <2>1 DEF Download
  <2>3. HasBytes(client.pos, ~client.toggle)'
    BY <1>1, <1>2, <1>7, <2>1, <2>2 DEF HasBytes, Download
  <2>4. client'.pos # Len(call'.value) /\ client'.pos \in 0..Len(call'.value)
    BY <1>1, <1>2, <1>9, <1>14
  <2>5. AtomicStep
    BY <1>1, <2>1, StutterIsAtomic
  <2>6. QED
    BY <1>5, <1>12, <2>3, <2>4, <2>5 DEF SegmentedWrite
<1>15. QED
  BY <1>13, <1>14

\* The opening of a read: the access, and the value or its length.
LEMMA ServeOpeningRead ==
    ASSUME Inv, Serve, call # NoCall, result = Pending, OpeningRead
    PROVE  OpeningRead' /\ AtomicStep
<1> DEFINE req == EncodeUploadRequest(call.addr)
           v   == od[call.addr]
<1>1. ServerStep /\ UNCHANGED clientVars /\ UNCHANGED <<call, result, client, lost>>
  BY DEF Serve, clientVars, roundVars
<1>2. Asked(req) /\ served = <<>>
  BY <1>1, NothingAsked DEF OpeningRead, Answered, Refused, Silent, Drained
<1>3. req.cs = "UploadInitiate" /\ req.addr = call.addr
  BY DEF EncodeUploadRequest
<1>4. OnUploadInitiate /\ Head(c2s) = req
  BY <1>1, <1>2, <1>3, HandlerOf
<1>5. Reading' /\ client' = [state |-> "UploadInit", type |-> call'.type]
  BY <1>1 DEF OpeningRead, Reading
<1>6. call.addr \in Address
  BY CallTyped
<1>7. CASE UploadTarget(req) # "ok"
  <2>1. ~Legal /\ UploadTarget(req) \in AbortCode
    BY <1>3, <1>7 DEF UploadTarget, Legal, OpeningRead, Reading, AbortCode
  <2>2. ReplyAbort(call.addr, UploadTarget(req)) /\ UNCHANGED <<od, served>>
    BY <1>3, <1>4, <1>7 DEF OnUploadInitiate
  <2>3. Refused'
    BY <2>1, <2>2, <1>1, <1>2, <1>6, RefusalOf
  <2>4. AtomicStep
    BY <2>2, <1>1, StutterIsAtomic
  <2>5. QED
    BY <2>3, <2>4, <1>5 DEF OpeningRead
<1>8. CASE UploadTarget(req) = "ok"
  <2>1. call.addr \in Objects
    BY <1>3, <1>8 DEF UploadTarget
  <2>2. IsValue(Type[call.addr], v)
    BY <2>1 DEF Inv, ServerInv, ObjectsHoldTheirType
  <2>3. ServedRead(call.addr) /\ UNCHANGED od
    BY <1>3, <1>4, <1>8 DEF OnUploadInitiate
  <2>4. AtomicStep /\ served' = <<Accessed("read", call.addr, v)>>
    BY <1>1, <1>2, <2>1, <2>3, ReadIsAtomic DEF OpeningRead, Reading
  <2>5. HasRead(v)' /\ od'[call'.addr] = v
    BY <1>1, <2>1, <2>2, <2>3, <2>4 DEF HasRead, IsValue, Accessed
  <2>6. v \in {served'[i].value : i \in DOMAIN served'}
    <3>1. 1 \in DOMAIN served' /\ served'[1].value = v
      BY <2>4 DEF Accessed
    <3>2. QED
      BY <3>1
  <2>7. CASE FitsExpedited(v)
    <3>1. Reply(EncodeUploadExpeditedResponse(call.addr, v))
      BY <1>3, <1>4, <1>8, <2>7 DEF OnUploadInitiate
    <3>2. c2s' = <<>> /\ s2c' = <<EncodeUploadExpeditedResponse(call.addr, v)>>
      BY <1>1, <1>2, <3>1, HandlerOf
    <3>3. Answered(EncodeUploadExpeditedResponse(call.addr, v))'
      BY <1>1, <2>3, <3>2 DEF Answered, EncodeUploadExpeditedResponse
    <3>4. OpeningRead'
      BY <1>5, <2>3, <2>5, <2>6, <3>3 DEF OpeningRead
    <3>5. QED
      BY <2>4, <3>4
  <2>8. CASE ~FitsExpedited(v)
    <3>1. /\ Reply(EncodeUploadInitiateSegmentedResponse(call.addr, Len(v)))
          /\ transfer' = Upload(call.addr, v, 0, FALSE)
      BY <1>3, <1>4, <1>8, <2>8 DEF OnUploadInitiate
    <3>2. c2s' = <<>> /\ s2c' = <<EncodeUploadInitiateSegmentedResponse(call.addr, Len(v))>>
      BY <1>1, <1>2, <3>1, HandlerOf
    <3>3. Answered(EncodeUploadInitiateSegmentedResponse(call.addr, Len(v)))'
      BY <1>1, <2>3, <3>2 DEF Answered, EncodeUploadInitiateSegmentedResponse
    <3>4. (transfer = Upload(call.addr, v, 0, FALSE))'
      BY <1>1, <2>3, <3>1 DEF Upload
    <3>5. OpeningRead'
      BY <1>5, <2>5, <2>6, <3>3, <3>4 DEF OpeningRead
    <3>6. QED
      BY <2>4, <3>5
  <2>9. QED
    BY <2>7, <2>8
<1>9. QED
  BY <1>7, <1>8

\* A request for a segment: the server cuts the piece the client lacks.
LEMMA ServeSegmentedRead ==
    ASSUME Inv, Serve, call # NoCall, result = Pending, SegmentedRead
    PROVE  SegmentedRead' /\ AtomicStep
<1>1. ServerStep /\ UNCHANGED clientVars /\ UNCHANGED <<call, result, client, lost>>
  BY DEF Serve, clientVars, roundVars
<1>2. PICK v \in {served[i].value : i \in DOMAIN served} : \E pos \in 0..Len(v) :
          /\ HasRead(v)
          /\ ReadSoFar(v, pos)
          /\ Asked(EncodeUploadSegmentRequest(client.toggle))
          /\ transfer = Upload(call.addr, v, pos, client.toggle)
  BY <1>1, NothingAsked DEF SegmentedRead, Answered, Silent, Drained
<1>3. PICK pos \in 0..Len(v) :
          /\ HasRead(v)
          /\ ReadSoFar(v, pos)
          /\ Asked(EncodeUploadSegmentRequest(client.toggle))
          /\ transfer = Upload(call.addr, v, pos, client.toggle)
  BY <1>2
<1> DEFINE req == EncodeUploadSegmentRequest(client.toggle)
<1>4. req.cs = "UploadSegment" /\ req.toggle = client.toggle
  BY DEF EncodeUploadSegmentRequest
<1>5. OnUploadSegment /\ Head(c2s) = req
  BY <1>1, <1>3, <1>4, HandlerOf
<1>6. /\ transfer.kind = "Upload" /\ transfer.addr = call.addr
      /\ transfer.data = v /\ transfer.pos = pos /\ transfer.toggle = client.toggle
  BY <1>3 DEF Upload
<1>7. Uploading /\ InSequence(req)
  BY <1>4, <1>6 DEF Uploading, InSequence
<1>8. /\ Reply(EncodeDataSegment(v, pos, client.toggle))
      /\ UNCHANGED <<od, lastWrite, served>>
      /\ ~IsLastSegment(v, pos) =>
            transfer' = [transfer EXCEPT !.pos = SegmentEnd(v, pos), !.toggle = ~client.toggle]
  BY <1>5, <1>6, <1>7 DEF OnUploadSegment
<1>9. c2s' = <<>> /\ s2c' = <<EncodeDataSegment(v, pos, client.toggle)>>
  BY <1>1, <1>3, <1>8, HandlerOf
<1>10. ~IsLastSegment(v, pos) =>
          transfer' = Upload(call.addr, v, SegmentEnd(v, pos), ~client.toggle)
  BY <1>3, <1>8 DEF Upload
<1>11. AtomicStep
  BY <1>1, <1>8, StutterIsAtomic
<1>12. Reading' /\ client'.state = "UploadSeg" /\ client'.type = call'.type
  BY <1>1 DEF SegmentedRead, Reading
<1>13. HasRead(v)' /\ ReadSoFar(v, pos)'
  BY <1>1, <1>3, <1>8 DEF HasRead, ReadSoFar, IsValue, Accessed
<1>14. Answered(EncodeDataSegment(v, pos, client.toggle))'
  BY <1>1, <1>9 DEF Answered, EncodeDataSegment
<1>15. (~IsLastSegment(v, pos) =>
          transfer = Upload(call.addr, v, SegmentEnd(v, pos), ~client.toggle))'
  BY <1>1, <1>10 DEF Upload, IsLastSegment, SegmentEnd
<1>16. v \in {served'[i].value : i \in DOMAIN served'}
  BY <1>2, <1>8
<1>17. SegmentedRead'
  <2>1. \E w \in {served'[i].value : i \in DOMAIN served'} : \E p \in 0..Len(w) :
           /\ HasRead(w)'
           /\ ReadSoFar(w, p)'
           /\ Answered(EncodeDataSegment(w, p, client.toggle))'
           /\ (~IsLastSegment(w, p) =>
                  transfer = Upload(call.addr, w, SegmentEnd(w, p), ~client.toggle))'
    BY <1>13, <1>14, <1>15, <1>16
  <2>2. QED
    BY <1>12, <2>1 DEF SegmentedRead
<1>18. QED
  BY <1>11, <1>17

\* A step of the server, whatever the call has come to.
LEMMA ServeInConversation ==
    ASSUME Inv, Serve
    PROVE  result = Pending /\ Conversation' /\ AtomicStep
<1>1. c2s # <<>> /\ UNCHANGED <<call, result>>
  BY NothingAsked DEF Serve, clientVars
<1>2. result = Pending /\ Conversation
  BY <1>1 DEF Inv, Turn, Returned, Drained
<1>3. QED
  BY <1>1, <1>2, ServeExpeditedWrite, ServeOpeningWrite, ServeSegmentedWrite,
     ServeOpeningRead, ServeSegmentedRead
     DEF Conversation, NoCall

-----------------------------------------------------------------------------
(* The client's half of the conversation                                   *)

\* What the client does with the one response under way.
LEMMA ResponderOf ==
    ASSUME NEW f, Answered(f), OnResponse
    PROVE  /\ result = Pending /\ Resp = f /\ s2c' = <<>> /\ UNCHANGED call
           /\ f.cs = "Abort" => AbortCall(f.code)
           /\ f.cs # "Abort" =>
                 /\ client.state = "DownloadExpedited" => OnDownloadExpeditedResponse
                 /\ client.state = "DownloadInit" => OnDownloadInit
                 /\ client.state = "DownloadSeg" => OnDownloadSeg
                 /\ client.state = "UploadInit" => OnUploadInit
                 /\ client.state = "UploadSeg" => OnUploadSeg
           /\ \A state, frame : Send(state, frame) => c2s' = <<frame>>
<1>1. Resp = f /\ Tail(s2c) = <<>>
  BY Singletons DEF Answered, Resp
<1>2. \A state, frame : Send(state, frame) => c2s' = <<frame>>
  BY Singletons DEF Answered, Send
<1>3. s2c' = Tail(s2c) /\ UNCHANGED call /\ result = Pending
  BY DEF OnResponse, OnAbort, OnDownloadExpeditedResponse, OnDownloadInit, OnDownloadSeg,
         OnUploadInit, OnUploadSeg, Receive
<1>4. f.cs = "Abort" => OnAbort
  BY <1>1 DEF OnResponse, OnDownloadExpeditedResponse, OnDownloadInit, OnDownloadSeg,
              OnUploadInit, OnUploadSeg, IsAbort
<1>5. f.cs # "Abort" =>
         /\ client.state = "DownloadExpedited" => OnDownloadExpeditedResponse
         /\ client.state = "DownloadInit" => OnDownloadInit
         /\ client.state = "DownloadSeg" => OnDownloadSeg
         /\ client.state = "UploadInit" => OnUploadInit
         /\ client.state = "UploadSeg" => OnUploadSeg
  BY <1>1 DEF OnResponse, OnAbort, OnDownloadExpeditedResponse, OnDownloadInit, OnDownloadSeg,
              OnUploadInit, OnUploadSeg, Receive, IsAbort
<1>6. QED
  BY <1>1, <1>2, <1>3, <1>4, <1>5 DEF OnAbort

\* A response that ends the call leaves nothing under way.
LEMMA EndsDrained ==
    ASSUME NEW f, Answered(f), OnResponse, NEW outcome, Return(outcome)
    PROVE  Drained' /\ result' = outcome
BY ResponderOf DEF Return, Drained, Answered

\* The ways a call returns: by an abort, a confirmation or a value.
LEMMA AbortEnds ==
    ASSUME Respond, call # NoCall, ~Legal, NEW f, Answered(f), NEW code, AbortCall(code)
    PROVE  Turn' /\ AtomicStep
<1>1. OnResponse /\ UNCHANGED <<od, served>>
  BY DEF Respond, serverVars
<1>2. Drained' /\ result' = [kind |-> "Aborted", code |-> code]
  BY <1>1, EndsDrained DEF AbortCall
<1>3. result = Pending /\ UNCHANGED call
  BY <1>1, ResponderOf
<1>4. ~Legal'
  BY <1>3 DEF Legal
<1>5. result'.kind = "Aborted" /\ result' # Pending
  BY <1>2 DEF Pending
<1>6. AtomicStep
  BY <1>1, <1>3, <1>5, FailIsAtomic
<1>7. QED
  BY <1>2, <1>4, <1>5, <1>6 DEF Turn, Returned

LEMMA RefusalEnds ==
    ASSUME Respond, call # NoCall, Refused
    PROVE  Turn' /\ AtomicStep
<1>1. PICK addr \in Address \cup {NoAddress}, code \in AbortCode : Answered(EncodeAbort(addr, code))
  BY DEF Refused, Answered
<1>2. EncodeAbort(addr, code).cs = "Abort" /\ EncodeAbort(addr, code).code = code
  BY DEF EncodeAbort
<1>3. AbortCall(code)
  BY <1>1, <1>2, ResponderOf DEF Respond
<1>4. ~Legal
  BY DEF Refused
<1>5. QED
  BY <1>1, <1>3, <1>4, AbortEnds

LEMMA WrittenEnds ==
    ASSUME Respond, Writing, served # <<>>, NEW f, Answered(f), Return([kind |-> "Written"])
    PROVE  Turn' /\ AtomicStep
<1>1. OnResponse /\ UNCHANGED <<od, served>>
  BY DEF Respond, serverVars
<1>2. Drained' /\ result' = [kind |-> "Written"]
  BY <1>1, EndsDrained
<1>3. result = Pending /\ UNCHANGED call
  BY <1>1, ResponderOf
<1>4. result'.kind = "Written" /\ result' # Pending
  BY <1>2 DEF Pending
<1>5. AtomicStep
  BY <1>1, <1>2, <1>3, WrittenIsAtomic DEF Writing
<1>6. QED
  BY <1>2, <1>4, <1>5 DEF Turn, Returned

LEMMA ValueEnds ==
    ASSUME Respond, Reading, NEW v, HasRead(v), Decodable(call.type, v), NEW f, Answered(f),
           Return([kind |-> "Value", value |-> Decode(call.type, v)])
    PROVE  Turn' /\ AtomicStep
<1>1. OnResponse /\ UNCHANGED <<od, served>>
  BY DEF Respond, serverVars
<1>2. Drained' /\ result' = [kind |-> "Value", value |-> Decode(call.type, v)]
  BY <1>1, EndsDrained
<1>3. result = Pending /\ UNCHANGED call
  BY <1>1, ResponderOf
<1>4. result'.kind = "Value" /\ result' # Pending
  BY <1>2 DEF Pending
<1>5. AtomicStep
  BY <1>1, <1>2, <1>3, ValueIsAtomic DEF Reading
<1>6. QED
  BY <1>2, <1>4, <1>5 DEF Turn, Returned

\* The client's half: each response returns the call or draws the next request.
LEMMA RespondExpeditedWrite ==
    ASSUME Inv, Respond, call # NoCall, ExpeditedWrite
    PROVE  Turn' /\ AtomicStep
<1>1. s2c # <<>> /\ OnResponse
  BY DEF Respond, OnResponse, OnAbort, OnDownloadExpeditedResponse, OnDownloadInit,
         OnDownloadSeg, OnUploadInit, OnUploadSeg, Receive
<1>2. CASE Refused
  BY <1>2, RefusalEnds
<1>3. CASE Answered(EncodeDownloadResponse(call.addr)) /\ served # <<>>
  <2>1. EncodeDownloadResponse(call.addr).cs = "DownloadResponse"
    BY DEF EncodeDownloadResponse
  <2>2. OnDownloadExpeditedResponse /\ Resp = EncodeDownloadResponse(call.addr)
    BY <1>1, <1>3, <2>1, ResponderOf DEF ExpeditedWrite
  <2>3. Return([kind |-> "Written"])
    BY <2>1, <2>2 DEF OnDownloadExpeditedResponse
  <2>4. QED
    BY <1>3, <2>3, WrittenEnds DEF ExpeditedWrite
<1>4. QED
  BY <1>1, <1>2, <1>3 DEF ExpeditedWrite, Asked, Silent, Drained

\* The first segment follows the confirmation of the size.
LEMMA RespondOpeningWrite ==
    ASSUME Inv, Respond, call # NoCall, OpeningWrite
    PROVE  Turn' /\ AtomicStep
<1>1. s2c # <<>> /\ OnResponse /\ UNCHANGED <<od, transfer, served>>
  BY DEF Respond, serverVars, OnResponse, OnAbort, OnDownloadExpeditedResponse, OnDownloadInit,
         OnDownloadSeg, OnUploadInit, OnUploadSeg, Receive
<1>2. CASE Refused
  BY <1>2, RefusalEnds
<1>3. CASE /\ Answered(EncodeDownloadResponse(call.addr))
           /\ transfer = Download(call.addr, <<>>, Len(call.value), FALSE)
           /\ served = <<>>
  <2> DEFINE v == call.value
  <2>1. EncodeDownloadResponse(call.addr).cs = "DownloadResponse"
    BY DEF EncodeDownloadResponse
  <2>2. client.state = "DownloadInit" /\ client.data = v
    BY DEF OpeningWrite
  <2>3. OnDownloadInit /\ Resp = EncodeDownloadResponse(call.addr)
        /\ s2c' = <<>> /\ UNCHANGED call /\ result = Pending
    BY <1>1, <1>3, <2>1, <2>2, ResponderOf
  <2>4. SendDownloadSegment(v, 0, FALSE)
    BY <2>1, <2>2, <2>3 DEF OnDownloadInit
  <2>5. /\ c2s' = <<EncodeDataSegment(v, 0, FALSE)>>
        /\ client' = [state |-> "DownloadSeg", data |-> v, pos |-> SegmentEnd(v, 0),
                      toggle |-> FALSE]
        /\ UNCHANGED result
    BY <1>1, <1>3, <2>4, ResponderOf DEF SendDownloadSegment, Send
  <2>6. v \in Seq(Byte) /\ Len(v) \in Nat
    BY CallTyped DEF OpeningWrite, Writing
  <2>7. SubSeq(v, 1, 0) = <<>> /\ 0 \in 0..Len(v)
    BY <2>6
  <2>8. Asked(EncodeDataSegment(v, 0, client.toggle))'
    BY <2>3, <2>5 DEF Asked, EncodeDataSegment, IsLastSegment, SegmentEnd
  <2>9. HasBytes(0, client.toggle)'
    BY <1>1, <1>3, <2>3, <2>5, <2>7 DEF HasBytes, Download
  <2>10. Writing' /\ client'.state = "DownloadSeg" /\ client'.data = call'.value
         /\ client'.pos = SegmentEnd(call'.value, 0)
    BY <2>3, <2>5 DEF OpeningWrite, Writing
  <2>11. SegmentedWrite'
    BY <2>3, <2>7, <2>8, <2>9, <2>10 DEF SegmentedWrite
  <2>12. AtomicStep
    BY <1>1, <2>3, <2>5, StutterIsAtomic
  <2>13. QED
    BY <2>3, <2>5, <2>11, <2>12 DEF Turn, Conversation
<1>4. QED
  BY <1>1, <1>2, <1>3 DEF OpeningWrite, Asked, Silent, Drained

LEMMA RespondSegmentedWrite ==
    ASSUME Inv, Respond, call # NoCall, SegmentedWrite
    PROVE  Turn' /\ AtomicStep
<1> DEFINE v == call.value
           f == EncodeDownloadSegmentResponse(client.toggle)
<1>1. s2c # <<>> /\ OnResponse /\ UNCHANGED <<od, transfer, served>>
  BY DEF Respond, serverVars, OnResponse, OnAbort, OnDownloadExpeditedResponse, OnDownloadInit,
         OnDownloadSeg, OnUploadInit, OnUploadSeg, Receive
<1>2. /\ Answered(f)
      /\ client.pos \in 0..Len(v)
      /\ IF client.pos = Len(v) THEN served # <<>> ELSE HasBytes(client.pos, ~client.toggle)
  BY <1>1 DEF SegmentedWrite, Asked, Silent, Drained
<1>3. f.cs = "DownloadSegmentResponse" /\ f.toggle = client.toggle
  BY DEF EncodeDownloadSegmentResponse
<1>4. OnDownloadSeg /\ Resp = f /\ s2c' = <<>> /\ UNCHANGED call /\ result = Pending
  BY <1>1, <1>2, <1>3, ResponderOf DEF SegmentedWrite
<1>5. client.data = v /\ Writing /\ v \in Seq(Byte) /\ Len(v) \in Nat
  BY CallTyped DEF SegmentedWrite, Writing
<1>6. CASE client.pos = Len(v)
  <2>1. Return([kind |-> "Written"])
    BY <1>3, <1>4, <1>5, <1>6 DEF OnDownloadSeg
  <2>2. QED
    BY <1>2, <1>5, <1>6, <2>1, WrittenEnds
<1>7. CASE client.pos # Len(v)
  <2>1. ~(client.pos >= Len(v))
    BY <1>2, <1>5, <1>7
  <2>2. SendDownloadSegment(v, client.pos, ~client.toggle)
    BY <1>3, <1>4, <1>5, <2>1, Zenon DEF OnDownloadSeg
  <2>3. /\ c2s' = <<EncodeDataSegment(v, client.pos, ~client.toggle)>>
        /\ client' = [state |-> "DownloadSeg", data |-> v, pos |-> SegmentEnd(v, client.pos),
                      toggle |-> ~client.toggle]
        /\ UNCHANGED result
    BY <1>1, <1>2, <2>2, ResponderOf DEF SendDownloadSegment, Send
  <2>4. PICK pos \in 0..Len(v) : pos = client.pos
    BY <1>2
  <2>5. Asked(EncodeDataSegment(v, pos, client.toggle))'
    BY <1>4, <2>3, <2>4 DEF Asked, EncodeDataSegment, IsLastSegment, SegmentEnd
  <2>6. HasBytes(pos, client.toggle)'
    BY <1>1, <1>2, <1>4, <1>7, <2>3, <2>4 DEF HasBytes, Download
  <2>7. Writing' /\ client'.state = "DownloadSeg" /\ client'.data = call'.value
        /\ client'.pos = SegmentEnd(call'.value, pos)
    BY <1>4, <1>5, <2>3, <2>4 DEF Writing
  <2>8. SegmentedWrite'
    BY <1>4, <2>5, <2>6, <2>7 DEF SegmentedWrite
  <2>9. AtomicStep
    BY <1>1, <1>4, <2>3, StutterIsAtomic
  <2>10. QED
    BY <1>4, <2>3, <2>8, <2>9 DEF Turn, Conversation
<1>8. QED
  BY <1>6, <1>7

\* A value of the object's type is one of the caller's in a legal call, and is
\* never too long for the client's buffer.
LEMMA ValueRead ==
    ASSUME Inv, NEW v, HasRead(v)
    PROVE  /\ v \in Seq(Byte) /\ Len(v) <= MaxLen /\ Len(v) \in Nat
           /\ Legal => Decodable(call.type, v)
<1>1. Type[call.addr] \in DataType /\ IsValue(Type[call.addr], v)
  BY SdoServerAssumption DEF HasRead
<1>2. v \in Seq(Byte) /\ Len(v) <= MaxLen
  BY <1>1, ValueFitsBuffer
<1>3. QED
  BY <1>1, <1>2 DEF Legal, IsValue

LEMMA RespondOpeningRead ==
    ASSUME Inv, Respond, call # NoCall, OpeningRead
    PROVE  Turn' /\ AtomicStep
<1>1. s2c # <<>> /\ OnResponse /\ UNCHANGED <<od, transfer, served>>
  BY DEF Respond, serverVars, OnResponse, OnAbort, OnDownloadExpeditedResponse, OnDownloadInit,
         OnDownloadSeg, OnUploadInit, OnUploadSeg, Receive
<1>2. client.state = "UploadInit" /\ client.type = call.type /\ Reading
  BY DEF OpeningRead
<1>3. CASE Refused
  BY <1>3, RefusalEnds
<1>4. ASSUME NEW v \in {served[i].value : i \in DOMAIN served}, HasRead(v),
             Answered(EncodeUploadExpeditedResponse(call.addr, v))
      PROVE  Turn' /\ AtomicStep
  <2> DEFINE f == EncodeUploadExpeditedResponse(call.addr, v)
  <2>1. f.cs = "UploadExpedited" /\ f.data = v
    BY DEF EncodeUploadExpeditedResponse
  <2>2. OnUploadInit /\ Resp = f
    BY <1>1, <1>2, <1>4, <2>1, ResponderOf
  <2>3. CASE Decodable(call.type, v)
    <3>1. Return([kind |-> "Value", value |-> Decode(call.type, v)])
      BY <1>2, <2>1, <2>2, <2>3 DEF OnUploadInit
    <3>2. QED
      BY <1>2, <1>4, <2>3, <3>1, ValueEnds
  <2>4. CASE ~Decodable(call.type, v)
    <3>1. AbortCall("General")
      BY <1>2, <2>1, <2>2, <2>4 DEF OnUploadInit
    <3>2. ~Legal
      BY <1>4, <2>4, ValueRead
    <3>3. QED
      BY <1>4, <3>1, <3>2, AbortEnds
  <2>5. QED
    BY <2>3, <2>4
<1>5. ASSUME NEW v \in {served[i].value : i \in DOMAIN served}, HasRead(v),
             Answered(EncodeUploadInitiateSegmentedResponse(call.addr, Len(v))),
             transfer = Upload(call.addr, v, 0, FALSE)
      PROVE  Turn' /\ AtomicStep
  <2> DEFINE f == EncodeUploadInitiateSegmentedResponse(call.addr, Len(v))
  <2>1. f.cs = "UploadSegmented"
    BY DEF EncodeUploadInitiateSegmentedResponse
  <2>2. OnUploadInit /\ Resp = f /\ s2c' = <<>> /\ UNCHANGED call /\ result = Pending
    BY <1>1, <1>2, <1>5, <2>1, ResponderOf
  <2>3. Send([state |-> "UploadSeg", type |-> client.type, buf |-> <<>>, toggle |-> FALSE],
             EncodeUploadSegmentRequest(FALSE))
    BY <2>1, <2>2 DEF OnUploadInit
  <2>4. /\ c2s' = <<EncodeUploadSegmentRequest(FALSE)>>
        /\ client' = [state |-> "UploadSeg", type |-> call.type, buf |-> <<>>, toggle |-> FALSE]
        /\ UNCHANGED result
    BY <1>1, <1>2, <1>5, <2>3, ResponderOf DEF Send
  <2>5. v \in Seq(Byte) /\ Len(v) \in Nat
    BY <1>5, ValueRead
  <2>6. SubSeq(v, 1, 0) = <<>> /\ 0 \in 0..Len(v)
    BY <2>5
  <2>7. HasRead(v)' /\ v \in {served'[i].value : i \in DOMAIN served'}
    BY <1>1, <1>5, <2>2 DEF HasRead, IsValue, Accessed
  <2>8. ReadSoFar(v, 0)'
    BY <2>4, <2>6 DEF ReadSoFar
  <2>9. Asked(EncodeUploadSegmentRequest(client.toggle))'
    BY <2>2, <2>4 DEF Asked, EncodeUploadSegmentRequest
  <2>10. (transfer = Upload(call.addr, v, 0, client.toggle))'
    BY <1>1, <1>5, <2>2, <2>4 DEF Upload
  <2>11. Reading' /\ client'.state = "UploadSeg" /\ client'.type = call'.type
    BY <1>2, <2>2, <2>4 DEF Reading
  <2>12. SegmentedRead'
    BY <2>6, <2>7, <2>8, <2>9, <2>10, <2>11 DEF SegmentedRead
  <2>13. AtomicStep
    BY <1>1, <2>2, <2>4, StutterIsAtomic
  <2>14. QED
    BY <2>2, <2>4, <2>12, <2>13 DEF Turn, Conversation
<1>6. QED
  BY <1>1, <1>3, <1>4, <1>5 DEF OpeningRead, Asked, Silent, Drained

LEMMA RespondSegmentedRead ==
    ASSUME Inv, Respond, call # NoCall, SegmentedRead
    PROVE  Turn' /\ AtomicStep
<1>1. s2c # <<>> /\ OnResponse /\ UNCHANGED <<od, transfer, served>>
  BY DEF Respond, serverVars, OnResponse, OnAbort, OnDownloadExpeditedResponse, OnDownloadInit,
         OnDownloadSeg, OnUploadInit, OnUploadSeg, Receive
<1>2. PICK v \in {served[i].value : i \in DOMAIN served} : \E pos \in 0..Len(v) :
          /\ HasRead(v)
          /\ ReadSoFar(v, pos)
          /\ Answered(EncodeDataSegment(v, pos, client.toggle))
          /\ ~IsLastSegment(v, pos) =>
                transfer = Upload(call.addr, v, SegmentEnd(v, pos), ~client.toggle)
  BY <1>1 DEF SegmentedRead, Asked, Silent, Drained
<1>3. PICK pos \in 0..Len(v) :
          /\ HasRead(v)
          /\ ReadSoFar(v, pos)
          /\ Answered(EncodeDataSegment(v, pos, client.toggle))
          /\ ~IsLastSegment(v, pos) =>
                transfer = Upload(call.addr, v, SegmentEnd(v, pos), ~client.toggle)
  BY <1>2
<1> DEFINE seg == EncodeDataSegment(v, pos, client.toggle)
           k   == SegmentEnd(v, pos)
<1>4. /\ seg.cs = "Segment" /\ seg.toggle = client.toggle
      /\ seg.last = IsLastSegment(v, pos)
      /\ seg.data = SubSeq(v, pos + 1, k)
  BY DEF EncodeDataSegment
<1>5. client.state = "UploadSeg" /\ client.type = call.type /\ Reading
  BY DEF SegmentedRead
<1>6. OnUploadSeg /\ Resp = seg /\ s2c' = <<>> /\ UNCHANGED call /\ result = Pending
  BY <1>1, <1>3, <1>4, <1>5, ResponderOf
<1>7. v \in Seq(Byte) /\ Len(v) <= MaxLen /\ Len(v) \in Nat
  BY <1>3, ValueRead
<1>8. /\ k \in 0..Len(v)
      /\ IsLastSegment(v, pos) <=> k = Len(v)
      /\ client.buf \o seg.data = SubSeq(v, 1, k)
      /\ SubSeq(v, 1, Len(v)) = v
  <2>1. client.buf = SubSeq(v, 1, pos)
    BY <1>3 DEF ReadSoFar
  <2>2. client.buf \o seg.data = SubSeq(v, 1, pos) \o SubSeq(v, pos + 1, k)
    BY <1>4, <2>1, Zenon
  <2>3. QED
    BY <1>7, <2>2, NextSegment
<1>9. Len(SubSeq(v, 1, k)) = k /\ Len(SubSeq(v, 1, k)) <= MaxLen
  BY <1>7, <1>8, SdoBusAssumption
<1> DEFINE buf == client.buf \o Resp.data
<1>10. buf = SubSeq(v, 1, k) /\ Len(buf) <= MaxLen
  BY <1>6, <1>8, <1>9
<1>11. CASE IsLastSegment(v, pos)
  <2>1. buf = v
    BY <1>8, <1>10, <1>11
  <2>2. CASE Decodable(call.type, v)
    <3>1. Return([kind |-> "Value", value |-> Decode(call.type, v)])
      BY <1>4, <1>5, <1>6, <1>10, <1>11, <2>1, <2>2 DEF OnUploadSeg
    <3>2. QED
      BY <1>3, <1>5, <2>2, <3>1, ValueEnds
  <2>3. CASE ~Decodable(call.type, v)
    <3>1. AbortCall("General")
      BY <1>4, <1>5, <1>6, <1>10, <1>11, <2>1, <2>3 DEF OnUploadSeg
    <3>2. ~Legal
      BY <1>3, <2>3, ValueRead
    <3>3. QED
      BY <1>3, <3>1, <3>2, AbortEnds
  <2>4. QED
    BY <2>2, <2>3
<1>12. CASE ~IsLastSegment(v, pos)
  <2>1. Send([client EXCEPT !.buf = buf, !.toggle = ~client.toggle],
             EncodeUploadSegmentRequest(~client.toggle))
    BY <1>4, <1>6, <1>10, <1>12, Zenon DEF OnUploadSeg
  <2>2. /\ c2s' = <<EncodeUploadSegmentRequest(~client.toggle)>>
        /\ client' = [client EXCEPT !.buf = buf, !.toggle = ~client.toggle]
        /\ UNCHANGED result
    BY <1>1, <1>3, <2>1, ResponderOf DEF Send
  <2>3. /\ client \in [state : {"UploadSeg"}, type : DataType, buf : Seq(Byte), toggle : BOOLEAN]
    BY <1>5 DEF Inv, ClientTypeOK, ClientStates
  <2>4. /\ client'.state = "UploadSeg" /\ client'.type = call'.type
        /\ client'.buf = SubSeq(v, 1, k) /\ client'.toggle = ~client.toggle
    BY <1>5, <1>6, <1>10, <2>2, <2>3
  <2>5. PICK p \in 0..Len(v) : p = k
    BY <1>8
  <2>6. HasRead(v)' /\ v \in {served'[i].value : i \in DOMAIN served'}
    BY <1>1, <1>3, <1>6 DEF HasRead, IsValue, Accessed
  <2>7. ReadSoFar(v, p)'
    BY <2>4, <2>5 DEF ReadSoFar
  <2>8. Asked(EncodeUploadSegmentRequest(client.toggle))'
    BY <1>6, <2>2, <2>4 DEF Asked, EncodeUploadSegmentRequest
  <2>9. (transfer = Upload(call.addr, v, p, client.toggle))'
    BY <1>1, <1>3, <1>6, <1>12, <2>4, <2>5 DEF Upload
  <2>10. Reading'
    BY <1>5, <1>6 DEF Reading
  <2>11. SegmentedRead'
    BY <2>4, <2>6, <2>7, <2>8, <2>9, <2>10 DEF SegmentedRead
  <2>12. AtomicStep
    BY <1>1, <1>6, <2>2, StutterIsAtomic
  <2>13. QED
    BY <1>6, <2>2, <2>11, <2>12 DEF Turn, Conversation
<1>13. QED
  BY <1>11, <1>12

\* A step of the client, whatever the call has come to.
LEMMA RespondInTurn ==
    ASSUME Inv, Respond
    PROVE  Turn' /\ AtomicStep
<1>1. result = Pending
  BY DEF Respond, OnResponse, OnAbort, OnDownloadExpeditedResponse, OnDownloadInit,
         OnDownloadSeg, OnUploadInit, OnUploadSeg, Receive
<1>2. Conversation
  BY <1>1 DEF Inv, Turn
<1>3. QED
  BY <1>2, RespondExpeditedWrite, RespondOpeningWrite, RespondSegmentedWrite,
     RespondOpeningRead, RespondSegmentedRead
     DEF Conversation

-----------------------------------------------------------------------------
(* Types                                                                   *)

\* One request under way is typed if its frame is.
LEMMA AskedTyped ==
    ASSUME NEW f \in RequestFrames, WellFormed(f), c2s' = <<f>>, s2c' \in Seq(ResponseFrames)
    PROVE  BusTypeOK'
<1>1. c2s' \in Seq(RequestFrames) /\ \A i \in DOMAIN c2s' : c2s'[i] = f
  OBVIOUS
<1>2. \A i \in DOMAIN c2s' : WellFormed(c2s'[i])
  BY <1>1
<1>3. QED
  BY <1>1, <1>2 DEF BusTypeOK, WellFormed

\* The server's part of the invariant depends on the bus by its types only.
LEMMA ServerAside ==
    ASSUME ServerInv, BusTypeOK', UNCHANGED <<od, transfer, lastWrite>>,
           served' \in Seq(Accesses)
    PROVE  ServerInv'
BY DEF ServerInv, ServerTypeOK, ObjectsHoldTheirType, IsValue, TransferInBounds, DownloadFits

LEMMA SegmentRequest ==
    ASSUME NEW v \in Seq(Byte), NEW pos \in 0..Len(v), NEW toggle \in BOOLEAN
    PROVE  /\ EncodeDataSegment(v, pos, toggle) \in RequestFrames
           /\ WellFormed(EncodeDataSegment(v, pos, toggle))
           /\ SegmentEnd(v, pos) \in Nat
<1>1. EncodeDataSegment(v, pos, toggle) \in SegmentFrames /\ SegmentEnd(v, pos) \in pos..Len(v)
  BY SegmentWithinData
<1>2. EncodeDataSegment(v, pos, toggle).cs = "Segment"
  BY DEF EncodeDataSegment
<1>3. Len(v) \in Nat
  OBVIOUS
<1>4. QED
  BY <1>1, <1>2, <1>3 DEF RequestFrames, WellFormed

LEMMA UploadRequest ==
    ASSUME NEW toggle \in BOOLEAN
    PROVE  /\ EncodeUploadSegmentRequest(toggle) \in RequestFrames
           /\ WellFormed(EncodeUploadSegmentRequest(toggle))
BY DEF EncodeUploadSegmentRequest, RequestFrames, WellFormed

\* A response is taken from the bus, and the call stays.
LEMMA ResponseTaken ==
    ASSUME BusTypeOK, ClientTypeOK, Respond
    PROVE  /\ result = Pending /\ OnResponse
           /\ s2c # <<>> /\ s2c' = Tail(s2c) /\ UNCHANGED call
           /\ Resp \in ResponseFrames /\ s2c' \in Seq(ResponseFrames)
           /\ client \in ClientStates /\ call \in {NoCall} \cup Calls
<1>1. /\ result = Pending /\ OnResponse
      /\ s2c # <<>> /\ s2c' = Tail(s2c) /\ UNCHANGED call
  BY DEF Respond, OnResponse, OnAbort, OnDownloadExpeditedResponse, OnDownloadInit,
         OnDownloadSeg, OnUploadInit, OnUploadSeg, Receive
<1>2. s2c \in Seq(ResponseFrames)
  BY DEF BusTypeOK
<1>3. Resp \in ResponseFrames /\ s2c' \in Seq(ResponseFrames)
  BY <1>1, <1>2 DEF Resp
<1>4. QED
  BY <1>1, <1>3 DEF ClientTypeOK

LEMMA ReturnTyped ==
    ASSUME BusTypeOK, ClientTypeOK, Respond, NEW outcome \in Results, Return(outcome)
    PROVE  ClientTypeOK' /\ BusTypeOK'
<1>1. c2s' = c2s /\ s2c' \in Seq(ResponseFrames)
  BY ResponseTaken DEF Return
<1>2. Idle \in ClientStates
  BY DEF Idle, ClientStates
<1>3. BusTypeOK'
  BY <1>1 DEF BusTypeOK, WellFormed
<1>4. QED
  BY <1>2, <1>3, ResponseTaken DEF Return, ClientTypeOK

\* A well-formed request put on the bus leaves it typed.
LEMMA RequestTyped ==
    ASSUME BusTypeOK, NEW f \in RequestFrames, WellFormed(f),
           c2s' = Append(c2s, f), s2c' \in Seq(ResponseFrames)
    PROVE  BusTypeOK'
<1>1. c2s \in Seq(RequestFrames) /\ c2s' \in Seq(RequestFrames)
  BY DEF BusTypeOK
<1>2. ASSUME NEW i \in DOMAIN c2s'
      PROVE  WellFormed(c2s'[i])
  <2>1. c2s'[i] = f \/ (i \in DOMAIN c2s /\ c2s'[i] = c2s[i])
    BY <1>1
  <2>2. QED
    BY <2>1 DEF BusTypeOK
<1>3. QED
  BY <1>1, <1>2 DEF BusTypeOK, WellFormed

LEMMA SendTyped ==
    ASSUME BusTypeOK, ClientTypeOK, Respond,
           NEW state \in ClientStates, NEW f \in RequestFrames, WellFormed(f), Send(state, f)
    PROVE  ClientTypeOK' /\ BusTypeOK'
<1>1. c2s' = Append(c2s, f)
  BY DEF Send
<1>2. BusTypeOK'
  <2>1. s2c' \in Seq(ResponseFrames)
    BY ResponseTaken
  <2>2. QED
    BY <1>1, <2>1, RequestTyped
<1>3. result \in Results
  BY DEF ClientTypeOK
<1>4. QED
  BY <1>2, <1>3, ResponseTaken DEF Send, ClientTypeOK

LEMMA AbortTyped ==
    ASSUME BusTypeOK, ClientTypeOK, Respond, NEW code \in AbortCode, AbortCall(code)
    PROVE  ClientTypeOK' /\ BusTypeOK'
<1>1. [kind |-> "Aborted", code |-> code] \in Results
  BY DEF Results
<1>2. QED
  BY <1>1, ReturnTyped DEF AbortCall

LEMMA SegmentTyped ==
    ASSUME BusTypeOK, ClientTypeOK, Respond, NEW data \in Seq(Byte), NEW pos \in 0..Len(data),
           NEW toggle \in BOOLEAN, SendDownloadSegment(data, pos, toggle)
    PROVE  ClientTypeOK' /\ BusTypeOK'
<1>1. /\ EncodeDataSegment(data, pos, toggle) \in RequestFrames
      /\ WellFormed(EncodeDataSegment(data, pos, toggle))
      /\ SegmentEnd(data, pos) \in Nat
  BY SegmentRequest
<1>2. [state |-> "DownloadSeg", data |-> data, pos |-> SegmentEnd(data, pos), toggle |-> toggle]
      \in ClientStates
  BY <1>1 DEF ClientStates
<1>3. QED
  BY <1>1, <1>2, SendTyped DEF SendDownloadSegment

LEMMA ValueTyped ==
    ASSUME BusTypeOK, ClientTypeOK, Respond, NEW t \in DataType, NEW bytes \in Seq(Byte),
           Decodable(t, bytes), Return([kind |-> "Value", value |-> Decode(t, bytes)])
    PROVE  ClientTypeOK' /\ BusTypeOK'
<1>1. Decode(t, bytes) \in Seq(Byte)
  BY DecodeYieldsValue DEF IsValue
<1>2. [kind |-> "Value", value |-> Decode(t, bytes)] \in Results
  BY <1>1 DEF Results
<1>3. QED
  BY <1>2, ReturnTyped

LEMMA Toggled ==
    ASSUME NEW b \in BOOLEAN
    PROVE  (~b) \in BOOLEAN
OBVIOUS

\* A response leaves the client and the bus typed.
LEMMA RespondTyped ==
    ASSUME BusTypeOK, ClientTypeOK, Respond
    PROVE  ClientTypeOK' /\ BusTypeOK'
<1>1. OnResponse /\ "General" \in AbortCode /\ "ToggleBitNotAlternated" \in AbortCode
  BY DEF Respond, AbortCode
<1>2. [kind |-> "Written"] \in Results
  BY DEF Results
<1>3. client \in ClientStates /\ Resp \in ResponseFrames
  BY ResponseTaken
<1>4. CASE OnAbort
  <2>1. Resp.code \in AbortCode
    BY <1>3, <1>4 DEF OnAbort, IsAbort, ResponseFrames, SegmentFrames, AbortFrames
  <2>2. QED
    BY <1>4, <2>1, AbortTyped DEF OnAbort
<1>5. CASE OnDownloadExpeditedResponse
  BY <1>1, <1>2, <1>5, ReturnTyped, AbortTyped DEF OnDownloadExpeditedResponse
<1>6. CASE OnDownloadInit
  <2>1. client.data \in Seq(Byte) /\ 0 \in 0..Len(client.data) /\ FALSE \in BOOLEAN
    BY <1>3, <1>6 DEF OnDownloadInit, Receive, ClientStates
  <2>2. QED
    BY <1>1, <1>6, <2>1, AbortTyped, SegmentTyped DEF OnDownloadInit
<1>7. CASE OnDownloadSeg
  <2>1. client.data \in Seq(Byte) /\ client.pos \in Nat /\ client.toggle \in BOOLEAN
    BY <1>3, <1>7 DEF OnDownloadSeg, Receive, ClientStates
  <2>2. client.pos < Len(client.data) => client.pos \in 0..Len(client.data)
    BY <2>1
  <2>3. (~client.toggle) \in BOOLEAN
    BY <2>1, Toggled, Zenon
  <2>4. QED
    BY <1>1, <1>2, <1>7, <2>1, <2>2, <2>3, ReturnTyped, AbortTyped, SegmentTyped, Zenon
       DEF OnDownloadSeg
<1>8. CASE OnUploadInit
  <2>1. client.type \in DataType
    BY <1>3, <1>8 DEF OnUploadInit, Receive, ClientStates
  <2>2. Resp.cs = "UploadExpedited" => Resp.data \in Seq(Byte)
    BY <1>3 DEF ResponseFrames, SegmentFrames, AbortFrames
  <2>3. [state |-> "UploadSeg", type |-> client.type, buf |-> <<>>, toggle |-> FALSE]
        \in ClientStates
    BY <2>1 DEF ClientStates
  <2>4. FALSE \in BOOLEAN
    OBVIOUS
  <2>5. QED
    BY <1>1, <1>8, <2>1, <2>2, <2>3, <2>4, ValueTyped, AbortTyped, SendTyped, UploadRequest, Zenon
       DEF OnUploadInit
<1>9. CASE OnUploadSeg
  <2>1. /\ client \in [state : {"UploadSeg"}, type : DataType, buf : Seq(Byte), toggle : BOOLEAN]
        /\ client.type \in DataType /\ client.buf \in Seq(Byte) /\ client.toggle \in BOOLEAN
    BY <1>3, <1>9 DEF OnUploadSeg, Receive, ClientStates
  <2> DEFINE buf == client.buf \o Resp.data
  <2>2. Resp.cs = "Segment" => buf \in Seq(Byte)
    <3>1. Resp.cs = "Segment" => Resp.data \in Seq(Byte)
      BY <1>3 DEF ResponseFrames, SegmentFrames, AbortFrames
    <3>2. QED
      BY <2>1, <3>1
  <2>3. (~client.toggle) \in BOOLEAN
    BY <2>1, Toggled, Zenon
  <2>4. Resp.cs = "Segment" =>
           [client EXCEPT !.buf = buf, !.toggle = ~client.toggle] \in ClientStates
    BY <2>1, <2>2, <2>3 DEF ClientStates
  <2> HIDE DEF buf
  <2>5. \/ \E code \in AbortCode : AbortCall(code)
        \/ /\ Resp.cs = "Segment" /\ Decodable(client.type, buf)
           /\ Return([kind |-> "Value", value |-> Decode(client.type, buf)])
        \/ /\ Resp.cs = "Segment"
           /\ Send([client EXCEPT !.buf = buf, !.toggle = ~client.toggle],
                   EncodeUploadSegmentRequest(~client.toggle))
    BY <1>1, <1>9, Zenon DEF OnUploadSeg, buf
  <2>6. QED
    BY <2>1, <2>2, <2>3, <2>4, <2>5, ValueTyped, AbortTyped, SendTyped, UploadRequest, Zenon
<1>10. QED
  BY <1>1, <1>4, <1>5, <1>6, <1>7, <1>8, <1>9 DEF OnResponse

-----------------------------------------------------------------------------
(* The other steps                                                         *)

\* A call starts the conversation with one frame.
LEMMA StartInTurn ==
    ASSUME Inv, StartCall
    PROVE  Turn' /\ ClientTypeOK' /\ BusTypeOK' /\ AtomicStep
<1>1. result # Pending
  BY DEF StartCall, StartRead, StartWrite
<1>2. c2s = <<>> /\ s2c = <<>> /\ result \in Results
  BY <1>1 DEF Inv, Turn, Returned, Drained, ClientTypeOK
<1>3. served' = <<>> /\ UNCHANGED od
  BY DEF StartCall
<1>4. Pending \in Results
  BY DEF Pending, Results
<1>5. ASSUME NEW addr \in Address, NEW type \in DataType, StartRead(addr, type)
      PROVE  Turn' /\ ClientTypeOK' /\ BusTypeOK' /\ AtomicStep
  <2>1. /\ c2s' = <<EncodeUploadRequest(addr)>> /\ s2c' = <<>>
        /\ client' = [state |-> "UploadInit", type |-> type]
        /\ call' = ReadCall(addr, type) /\ result' = Pending
    BY <1>2, <1>5, Singletons DEF StartRead
  <2>2. /\ call'.op = "read" /\ call'.addr = addr /\ call'.type = type
        /\ call' \in Calls /\ call' # NoCall
    BY <2>1 DEF ReadCall, Calls, NoCall
  <2>3. EncodeUploadRequest(addr) \in RequestFrames /\ WellFormed(EncodeUploadRequest(addr))
    BY DEF EncodeUploadRequest, RequestFrames, WellFormed
  <2>4. BusTypeOK'
    BY <2>1, <2>3, AskedTyped
  <2>5. client' \in ClientStates
    BY <2>1 DEF ClientStates
  <2>6. Asked(EncodeUploadRequest(call.addr))'
    BY <2>1, <2>2 DEF Asked, EncodeUploadRequest
  <2>7. OpeningRead'
    BY <1>3, <2>1, <2>2, <2>6 DEF OpeningRead, Reading
  <2>8. AtomicStep
    BY <1>1, <1>2, <1>3, <2>1, <2>2, StartIsAtomic
  <2>9. QED
    BY <1>4, <2>1, <2>2, <2>4, <2>5, <2>7, <2>8 DEF Turn, Conversation, ClientTypeOK
<1>6. ASSUME NEW addr \in Address, NEW type \in DataType, NEW value \in Values,
             StartWrite(addr, type, value)
      PROVE  Turn' /\ ClientTypeOK' /\ BusTypeOK' /\ AtomicStep
  <2>1. /\ s2c' = <<>> /\ call' = WriteCall(addr, type, value) /\ result' = Pending
        /\ IsValue(type, value)
    BY <1>2, <1>6 DEF StartWrite
  <2>2. value \in Seq(Byte) /\ Len(value) \in Nat
    BY <2>1 DEF IsValue
  <2>3. /\ call'.op = "write" /\ call'.addr = addr /\ call'.type = type /\ call'.value = value
        /\ call' \in Calls /\ call' # NoCall
    BY <2>1, <2>2 DEF WriteCall, Calls, NoCall
  <2>4. Writing'
    BY <2>1, <2>3 DEF Writing
  <2>5. AtomicStep
    BY <1>1, <1>2, <1>3, <2>1, <2>3, StartIsAtomic
  <2>6. CASE FitsExpedited(value)
    <3> DEFINE f == EncodeDownloadExpedited(addr, value)
    <3>1. c2s' = <<f>> /\ client' = [state |-> "DownloadExpedited"]
      BY <1>2, <1>6, <2>6, Singletons DEF StartWrite
    <3>2. f \in RequestFrames /\ WellFormed(f)
      BY <2>2, <2>6 DEF EncodeDownloadExpedited, RequestFrames, WellFormed, FitsExpedited
    <3>3. BusTypeOK'
      BY <2>1, <3>1, <3>2, AskedTyped
    <3>4. client' \in ClientStates /\ client'.state = "DownloadExpedited"
      BY <3>1 DEF ClientStates
    <3>5. Asked(EncodeDownloadExpedited(call.addr, call.value))'
      BY <2>1, <2>3, <3>1 DEF Asked, EncodeDownloadExpedited
    <3>6. ExpeditedWrite'
      BY <1>3, <2>3, <2>4, <2>6, <3>4, <3>5 DEF ExpeditedWrite, FitsExpedited
    <3>7. QED
      BY <1>4, <2>1, <2>3, <2>5, <3>3, <3>4, <3>6 DEF Turn, Conversation, ClientTypeOK
  <2>7. CASE ~FitsExpedited(value)
    <3> DEFINE f == EncodeDownloadInitiateSegmented(addr, Len(value))
    <3>1. c2s' = <<f>> /\ client' = [state |-> "DownloadInit", data |-> value]
      BY <1>2, <1>6, <2>7, Singletons DEF StartWrite
    <3>2. f \in RequestFrames /\ WellFormed(f)
      BY <2>2 DEF EncodeDownloadInitiateSegmented, RequestFrames, WellFormed
    <3>3. BusTypeOK'
      BY <2>1, <3>1, <3>2, AskedTyped
    <3>4. client' \in ClientStates
      BY <2>2, <3>1 DEF ClientStates
    <3>5. Asked(EncodeDownloadInitiateSegmented(call.addr, Len(call.value)))'
      BY <2>1, <2>3, <3>1 DEF Asked, EncodeDownloadInitiateSegmented
    <3>6. OpeningWrite'
      BY <1>3, <2>3, <2>4, <3>1, <3>5 DEF OpeningWrite
    <3>7. QED
      BY <1>4, <2>1, <2>3, <2>5, <3>3, <3>4, <3>6 DEF Turn, Conversation, ClientTypeOK
  <2>8. QED
    BY <2>6, <2>7
<1>7. QED
  BY <1>5, <1>6 DEF StartCall

\* A conversation has one frame under way, or a frame has been lost.
LEMMA OneFrame ==
    ASSUME Conversation
    PROVE  \/ Drained /\ lost
           \/ \E f : Asked(f) \/ Answered(f)
BY DEF Conversation, ExpeditedWrite, OpeningWrite, SegmentedWrite, OpeningRead, SegmentedRead,
       Refused, Silent, Answered

\* A lost frame silences the conversation.
LEMMA LossInTurn ==
    ASSUME Inv, Lose
    PROVE  Turn' /\ BusTypeOK' /\ AtomicStep
<1>1. /\ lost' = TRUE /\ UNCHANGED <<od, transfer, lastWrite, served, client, call, result>>
      /\ LoseRequest \/ LoseResponse
  BY DEF Lose, serverVars, clientVars
<1>2. result = Pending /\ Conversation
  BY <1>1 DEF LoseRequest, LoseResponse, Inv, Turn, Returned, Drained
<1>3. c2s' = <<>> /\ s2c' = <<>>
  <2>1. PICK f : Asked(f) \/ Answered(f)
    BY <1>1, <1>2, OneFrame DEF LoseRequest, LoseResponse, Drained
  <2>2. QED
    BY <1>1, <2>1, Singletons DEF LoseRequest, LoseResponse, Asked, Answered
<1>4. Silent'
  BY <1>1, <1>3 DEF Silent, Drained
<1>5. /\ ExpeditedWrite => ExpeditedWrite'
      /\ OpeningWrite => OpeningWrite'
      /\ SegmentedWrite => SegmentedWrite'
      /\ OpeningRead => OpeningRead'
      /\ SegmentedRead => SegmentedRead'
  BY <1>1, <1>4 DEF ExpeditedWrite, OpeningWrite, SegmentedWrite, OpeningRead, SegmentedRead,
                    Writing, Reading
<1>6. BusTypeOK'
  BY <1>3 DEF BusTypeOK
<1>7. QED
  BY <1>1, <1>2, <1>5, <1>6, StutterIsAtomic DEF Turn, Conversation

\* The timely timeout ends a silent conversation and no other.
LEMMA TimeoutInTurn ==
    ASSUME Inv, TimelyTimeout
    PROVE  Turn' /\ ClientTypeOK' /\ AtomicStep
<1>1. /\ result = Pending /\ Drained /\ client' = Idle /\ result' = [kind |-> "Io"]
      /\ UNCHANGED <<call, c2s, s2c, od, served, lost>>
  BY DEF TimelyTimeout, Timeout, busVars, serverVars, roundVars
<1>2. lost
  BY <1>1, OneFrame DEF Inv, Turn, Drained, Asked, Answered
<1>3. result'.kind = "Io" /\ result' # Pending /\ result' \in Results /\ client' \in ClientStates
  BY <1>1 DEF Pending, Results, Idle, ClientStates
<1>4. Drained' /\ lost'
  BY <1>1, <1>2 DEF Drained
<1>5. AtomicStep
  BY <1>1, <1>3, FailIsAtomic
<1>6. QED
  BY <1>1, <1>3, <1>4, <1>5 DEF Turn, Returned, Inv, ClientTypeOK

\* What leaves the conversation alone.
LEMMA TurnAside ==
    ASSUME Turn, UNCHANGED <<c2s, s2c, transfer, served, client, call, result, lost>>
    PROVE  Turn'
<1>1. /\ ExpeditedWrite => ExpeditedWrite'
      /\ OpeningWrite => OpeningWrite'
      /\ SegmentedWrite => SegmentedWrite'
      /\ OpeningRead => OpeningRead'
      /\ SegmentedRead => SegmentedRead'
  BY DEF ExpeditedWrite, OpeningWrite, SegmentedWrite, OpeningRead, SegmentedRead,
         Writing, Reading, Asked, Answered, Refused, Silent, Drained, Legal, HasBytes, HasRead,
         ReadSoFar, Accessed
<1>2. Returned => Returned'
  BY DEF Returned, Drained, Legal
<1>3. QED
  BY <1>1, <1>2 DEF Turn, Conversation

-----------------------------------------------------------------------------
(* The theorems                                                            *)

LEMMA InitInv == Init => Inv /\ Atomic!Init
<1> SUFFICES ASSUME Init PROVE Inv /\ Atomic!Init
  OBVIOUS
<1>1. ServerInv
  BY InitHasInv DEF Init
<1>2. /\ ClientTypeOK /\ result # Pending /\ call = NoCall
      /\ lost \in BOOLEAN /\ foreign \in BOOLEAN
  BY DEF Init, ClientInit, ClientTypeOK, ClientStates, Results, Idle, Pending
<1>3. Turn
  BY <1>2 DEF Turn, Returned, Init, BusInit, Drained
<1>4. Atomic!Init
  BY DEF Init, ServerInit, ClientInit, Atomic!Init, NoCall
<1>5. QED
  BY <1>1, <1>2, <1>3, <1>4 DEF Inv

LEMMA StepKeepsInv == Inv /\ [Next]_vars => Inv' /\ AtomicStep
<1> SUFFICES ASSUME Inv, [Next]_vars PROVE Inv' /\ AtomicStep
  OBVIOUS
<1>1. /\ ServerInv /\ ClientTypeOK /\ Turn
      /\ BusTypeOK /\ served \in Seq(Accesses) /\ od \in [Objects -> Seq(Byte)]
      /\ lost \in BOOLEAN /\ foreign \in BOOLEAN
  BY DEF Inv, ServerInv, ServerTypeOK
<1>2. CASE StartCall
  <2>1. UNCHANGED <<od, transfer, lastWrite, foreign>> /\ served' = <<>> /\ lost' = FALSE
    BY <1>2 DEF StartCall
  <2>2. served' \in Seq(Accesses)
    BY <2>1
  <2>3. Turn' /\ ClientTypeOK' /\ BusTypeOK' /\ AtomicStep
    BY <1>2, StartInTurn
  <2>4. ServerInv'
    BY <1>1, <2>1, <2>2, <2>3, ServerAside
  <2>5. QED
    BY <1>1, <2>1, <2>3, <2>4 DEF Inv
<1>3. CASE Serve
  <2>1. ServerStep /\ UNCHANGED <<client, call, result, lost, foreign>>
    BY <1>3 DEF Serve, clientVars, roundVars
  <2>2. ServerInv'
    BY <1>1, <2>1, ServerStepKeepsInv
  <2>3. Turn' /\ AtomicStep
    BY <1>3, <2>1, ServeInConversation DEF Turn
  <2>4. QED
    BY <1>1, <2>1, <2>2, <2>3 DEF Inv, ClientTypeOK
<1>4. CASE Respond
  <2>1. UNCHANGED <<od, transfer, lastWrite, served, lost, foreign>>
    BY <1>4 DEF Respond, serverVars, roundVars
  <2>2. Turn' /\ AtomicStep /\ ClientTypeOK' /\ BusTypeOK'
    BY <1>1, <1>4, RespondInTurn, RespondTyped
  <2>3. ServerInv'
    BY <1>1, <2>1, <2>2, ServerAside
  <2>4. QED
    BY <1>1, <2>1, <2>2, <2>3 DEF Inv
<1>5. CASE Lose
  <2>1. UNCHANGED <<od, transfer, lastWrite, served, client, call, result, foreign>> /\ lost' = TRUE
    BY <1>5 DEF Lose, serverVars, clientVars
  <2>2. Turn' /\ BusTypeOK' /\ AtomicStep
    BY <1>5, LossInTurn
  <2>3. ServerInv'
    BY <1>1, <2>1, <2>2, ServerAside
  <2>4. QED
    BY <1>1, <2>1, <2>2, <2>3 DEF Inv, ClientTypeOK
<1>6. CASE TimelyTimeout
  <2>1. UNCHANGED <<c2s, s2c, od, transfer, lastWrite, served, lost, foreign>>
    BY <1>6 DEF TimelyTimeout, Timeout, busVars, serverVars, roundVars
  <2>2. Turn' /\ ClientTypeOK' /\ AtomicStep
    BY <1>6, TimeoutInTurn
  <2>3. ServerInv'
    BY <1>1, <2>1, ServerAside DEF BusTypeOK, WellFormed
  <2>4. QED
    BY <1>1, <2>1, <2>2, <2>3 DEF Inv
<1>7. CASE Application
  <2>1. UNCHANGED <<c2s, s2c, transfer, served, client, call, result, lost, foreign>>
    BY <1>7 DEF Application, TakeWrite, DeviceSet, clientVars, roundVars, busVars
  <2>2. ServerInv' /\ AtomicStep
    <3>1. CASE TakeWrite
      BY <1>1, <2>1, <3>1, TakeWriteKeepsInv, StutterIsAtomic DEF TakeWrite
    <3>2. ASSUME NEW o \in Objects, NEW value \in Values, DeviceSet(o, value)
          PROVE  ServerInv' /\ AtomicStep
      BY <1>1, <2>1, <3>2, DeviceSetKeepsInv, PublishIsAtomic
    <3>3. QED
      BY <1>7, <3>1, <3>2 DEF Application
  <2>3. Turn'
    BY <1>1, <2>1, TurnAside
  <2>4. QED
    BY <1>1, <2>1, <2>2, <2>3 DEF Inv, ClientTypeOK
<1>8. CASE Foreign \/ DropForeign \/ UNCHANGED vars
  <2>1. /\ UNCHANGED <<c2s, s2c, od, transfer, lastWrite, served, client, call, result, lost>>
        /\ foreign' \in BOOLEAN
    BY <1>1, <1>8 DEF Foreign, DropForeign, vars, busVars, serverVars, clientVars, roundVars
  <2>2. ServerInv'
    BY <1>1, <2>1, ServerAside DEF BusTypeOK, WellFormed
  <2>3. Turn' /\ AtomicStep
    BY <1>1, <2>1, TurnAside, StutterIsAtomic
  <2>4. QED
    BY <1>1, <2>1, <2>2, <2>3 DEF Inv, ClientTypeOK
<1>9. QED
  BY <1>2, <1>3, <1>4, <1>5, <1>6, <1>7, <1>8 DEF Next, Work

LEMMA AlwaysInv == Spec => []Inv
<1>1. Inv /\ [Next]_vars => Inv'
  BY StepKeepsInv
<1>2. Init => Inv
  BY InitInv
<1>3. QED
  BY <1>1, <1>2, PTL DEF Spec

\* Client, server and bus keep their types: every frame either end sends is one
\* that the decoders of sdo/mod.rs know, and well-formed.
THEOREM SystemTypeCorrect == Spec => []TypeOK
<1>1. Inv => TypeOK
  BY DEF Inv, ServerInv, TypeOK
<1>2. QED
  BY <1>1, AlwaysInv, PTL

\* Each conversation is had in one state of the client.
LEMMA StateOfConversation ==
    /\ ExpeditedWrite => client.state = "DownloadExpedited"
    /\ OpeningWrite => client.state = "DownloadInit"
    /\ SegmentedWrite => client.state = "DownloadSeg"
    /\ OpeningRead => client.state = "UploadInit"
    /\ SegmentedRead => client.state = "UploadSeg"
<1>1. ExpeditedWrite => client.state = "DownloadExpedited"
  BY DEF ExpeditedWrite
<1>2. OpeningWrite => client.state = "DownloadInit"
  <2>1. ASSUME client = [state |-> "DownloadInit", data |-> call.value]
        PROVE  client.state = "DownloadInit"
    BY <2>1
  <2>2. QED
    BY <2>1 DEF OpeningWrite
<1>3. SegmentedWrite => client.state = "DownloadSeg"
  BY DEF SegmentedWrite
<1>4. OpeningRead => client.state = "UploadInit"
  <2>1. ASSUME client = [state |-> "UploadInit", type |-> call.type]
        PROVE  client.state = "UploadInit"
    BY <2>1
  <2>2. QED
    BY <2>1 DEF OpeningRead
<1>5. SegmentedRead => client.state = "UploadSeg"
  BY DEF SegmentedRead
<1>6. QED
  BY <1>1, <1>2, <1>3, <1>4, <1>5

\* Client and server agree on the transfer whenever a segment is under way: on
\* its object, its toggle bit and the bytes that have gone over (SdoClient
\* against SdoServer).
THEOREM EndsStayInStep == Spec => []InStep
<1>1. Inv => InStep
  <2> SUFFICES ASSUME Inv, c2s # <<>>,
                      client.state \in {"UploadSeg", "DownloadSeg"}
               PROVE  InStep
    BY DEF InStep, UploadInStep, DownloadInStep
  <2>1. result = Pending
    BY DEF Inv, Turn, Returned, Drained
  <2>2. Conversation
    BY <2>1 DEF Inv, Turn
  <2>3. CASE client.state = "UploadSeg"
    <3>1. SegmentedRead
      BY <2>2, <2>3, StateOfConversation DEF Conversation
    <3>2. \E v \in {served[i].value : i \in DOMAIN served} : \E pos \in 0..Len(v) :
             /\ ReadSoFar(v, pos)
             /\ transfer = Upload(call.addr, v, pos, client.toggle)
      BY <3>1 DEF SegmentedRead, Answered, Silent, Drained
    <3>3. PICK v, pos : ReadSoFar(v, pos) /\ transfer = Upload(call.addr, v, pos, client.toggle)
      BY <3>2
    <3>4. QED
      BY <2>3, <3>3 DEF InStep, UploadInStep, DownloadInStep, ReadSoFar, Upload
  <2>4. CASE client.state = "DownloadSeg"
    <3>1. SegmentedWrite /\ call.value \in Seq(Byte)
      <4>1. SegmentedWrite
        BY <2>2, <2>4, StateOfConversation DEF Conversation
      <4>2. call # NoCall /\ call.op = "write"
        BY <2>2, <4>1 DEF Conversation, SegmentedWrite, Writing
      <4>3. QED
        BY <4>1, <4>2, CallTyped DEF Inv
    <3>2. PICK pos \in 0..Len(call.value) :
             /\ Asked(EncodeDataSegment(call.value, pos, client.toggle))
             /\ client.pos = SegmentEnd(call.value, pos)
             /\ HasBytes(pos, client.toggle)
      BY <3>1 DEF SegmentedWrite, Answered, Silent, Drained
    <3>3. Head(c2s).data = SubSeq(call.value, pos + 1, client.pos)
      BY <3>2, Singletons DEF Asked, EncodeDataSegment
    <3>4. /\ transfer.kind = "Download" /\ transfer.addr = call.addr
          /\ transfer.buf = SubSeq(call.value, 1, pos) /\ transfer.declared = Len(call.value)
          /\ transfer.toggle = client.toggle
      BY <3>2 DEF HasBytes, Download
    <3>5. client.data = call.value
      BY <3>1 DEF SegmentedWrite
    <3>6. transfer.buf \o Head(c2s).data = SubSeq(client.data, 1, client.pos)
      <4>1. transfer.buf \o Head(c2s).data
              = SubSeq(call.value, 1, pos)
                  \o SubSeq(call.value, pos + 1, SegmentEnd(call.value, pos))
        BY <3>2, <3>3, <3>4, Zenon
      <4>2. SubSeq(call.value, 1, pos) \o SubSeq(call.value, pos + 1, SegmentEnd(call.value, pos))
              = SubSeq(call.value, 1, SegmentEnd(call.value, pos))
        BY <3>1, NextSegment
      <4>3. QED
        BY <3>2, <3>5, <4>1, <4>2, Zenon
    <3>7. QED
      BY <2>4, <3>4, <3>5, <3>6 DEF InStep, UploadInStep, DownloadInStep
  <2>5. QED
    BY <2>3, <2>4
<1>2. QED
  BY <1>1, AlwaysInv, PTL

\* A legal call is never aborted, whatever earlier calls have left in the server,
\* and fails at all only if a frame of it is lost (sdo_read and sdo_write).
THEOREM LegalCallsSucceed == Spec => []LegalCallSucceeds
<1>1. Inv => LegalCallSucceeds
  <2> SUFFICES ASSUME Inv, call # NoCall, Legal
               PROVE  /\ result.kind # "Aborted"
                      /\ ~lost => /\ result.kind \in {"Pending", "Value", "Written"}
                                  /\ result = Pending => ~Drained
    BY DEF LegalCallSucceeds
  <2>1. CASE result = Pending
    <3>1. Drained => lost
      BY <2>1, OneFrame DEF Inv, Turn, Drained, Asked, Answered
    <3>2. result.kind = "Pending"
      BY <2>1 DEF Pending
    <3>3. QED
      BY <3>1, <3>2
  <2>2. CASE result # Pending
    BY <2>2 DEF Inv, Turn, Returned
  <2>3. QED
    BY <2>1, <2>2
<1>2. QED
  BY <1>1, AlwaysInv, PTL

\* The refinement: seen from outside, calls over the lossy bus make at most one
\* access each, atomically, between their start and their return, exactly one
\* if they report success, and return what it yielded.
THEOREM CallsAreAtomicAccesses == Spec => CallsAreAtomic
<1>1. Init => Atomic!Init
  BY InitInv
<1>2. Inv /\ [Next]_vars => [Atomic!Next]_Atomic!vars
  BY StepKeepsInv DEF AtomicStep
<1>3. QED
  BY <1>1, <1>2, AlwaysInv, PTL DEF Spec, CallsAreAtomic, Atomic!Spec

-----------------------------------------------------------------------------
(* A bus that repeats frames: what may be under way                        *)

\* r is s with frames left out or repeated, in their order.
Resampled(s, r) ==
    \E m \in [DOMAIN r -> DOMAIN s] :
        /\ \A i \in DOMAIN r : r[i] = s[m[i]]
        /\ \A i, j \in DOMAIN r : i < j => m[i] <= m[j]

\* All frames of s are in F, none is, or none in G comes after one in F.
Only(s, F)     == \A i \in DOMAIN s : s[i] \in F
Free(s, F)     == \A i \in DOMAIN s : s[i] \notin F
Never(s, F, G) == \A i, j \in DOMAIN s : i < j /\ s[i] \in F => s[j] \notin G

SegmentsOf(toggle) == {f \in SegmentFrames : f.toggle = toggle}

\* The accesses that the running call is to make, and has made.
TheWrite == Accessed("write", call.addr, Decode(Type[call.addr], call.value))
Stored   == \E i \in DOMAIN served : served[i] = TheWrite
WritesItsValue == \A i \in DOMAIN served : served[i].op = "write" => served[i] = TheWrite
Fetched(v) == \E i \in DOMAIN served : served[i] = Accessed("read", call.addr, v)
ReadsOnly  == \A i \in DOMAIN served : served[i].op = "read"

\* The frames of a segmented write, and where the server is in it.
Announcement == EncodeDownloadExpedited(call.addr, call.value)
Opening == EncodeDownloadInitiateSegmented(call.addr, Len(call.value))
Piece(start, toggle) == EncodeDataSegment(call.value, start, toggle)
Confirmed(toggle) == {EncodeDownloadSegmentResponse(toggle)}
Piecewise(start, toggle) ==
    transfer = Download(call.addr, SubSeq(call.value, 1, start), Len(call.value), toggle)

\* Requests sent before the piece.
BeforePiece(start, toggle) == IF start = 0 THEN {Opening} ELSE SegmentsOf(~toggle)

\* The server has the bytes before the piece sent last ...
LacksPiece(start, toggle) ==
    /\ start = 0 => toggle = FALSE
    /\ Only(c2s, BeforePiece(start, toggle) \cup {Piece(start, toggle)})
    /\ Never(c2s, {Piece(start, toggle)}, BeforePiece(start, toggle))
    /\ Piecewise(start, toggle)

\* ... or it has taken that piece, or broken off.
TookPiece(start, toggle) ==
    /\ Only(c2s, SegmentFrames)
    /\ transfer.kind = "Download" =>
          /\ Piecewise(SegmentEnd(call.value, start), ~toggle)
          /\ Only(c2s, {Piece(start, toggle)})

SendsExpedited ==
    /\ client.state = "DownloadExpedited"
    /\ Only(c2s, {Announcement})
    /\ Stored \/ Only(s2c, AbortFrames)

SendsOpening ==
    /\ client = [state |-> "DownloadInit", data |-> call.value]
    /\ Only(c2s, {Opening})
    /\ Free(s2c, Confirmed(FALSE))
    /\ Piecewise(0, FALSE) \/ Only(s2c, AbortFrames)

\* The client has sent the piece, which the server confirms once it has taken it.
SendsPiece(start, toggle) ==
    \/ LacksPiece(start, toggle) /\ Free(s2c, Confirmed(toggle))
    \/ /\ TookPiece(start, toggle)
       /\ Never(s2c, Confirmed(toggle), Confirmed(~toggle))
       /\ IsLastSegment(call.value, start) => Stored \/ Free(s2c, Confirmed(toggle))

SendsPieces ==
    /\ client.state = "DownloadSeg"
    /\ client.data = call.value
    /\ \E start \in 0..Len(call.value) :
          /\ client.pos = SegmentEnd(call.value, start)
          /\ SendsPiece(start, client.toggle)

\* What a call that is over may have left on the way to the server.
WriteIsOver ==
    \/ Only(c2s, {Announcement})
    \/ Only(c2s, {Opening})
    \/ \E start \in 0..Len(call.value), toggle \in BOOLEAN :
          LacksPiece(start, toggle) \/ TookPiece(start, toggle)

\* The frames of a segmented read.
Starting == {EncodeUploadRequest(call.addr)}
Asking(toggle) == {EncodeUploadSegmentRequest(toggle)}
BeforeAsking(start, toggle) == IF start = 0 THEN Starting ELSE Asking(~toggle)
ReadRequests == Starting \cup Asking(FALSE) \cup Asking(TRUE)

AsksOpening ==
    /\ client = [state |-> "UploadInit", type |-> call.type]
    /\ Only(c2s, Starting)
    /\ Free(s2c, SegmentFrames)
    /\ \A i \in DOMAIN s2c : s2c[i].cs = "UploadExpedited" => Fetched(s2c[i].data)
    /\ \A i \in DOMAIN s2c : s2c[i].cs = "UploadSegmented" =>
          \E v \in Seq(Byte) : Fetched(v) /\ transfer = Upload(call.addr, v, 0, FALSE)

\* The server has not cut the piece of v that the client has asked for last ...
OwesPiece(v, start, toggle) ==
    /\ start = 0 => toggle = FALSE
    /\ Only(c2s, BeforeAsking(start, toggle) \cup Asking(toggle))
    /\ Never(c2s, Asking(toggle), BeforeAsking(start, toggle))
    /\ transfer = Upload(call.addr, v, start, toggle)
    /\ Free(s2c, SegmentsOf(toggle))

\* ... or it has, or broken off.
GavePiece(v, start, toggle) ==
    /\ Only(c2s, Asking(FALSE) \cup Asking(TRUE))
    /\ transfer.kind = "Upload" =>
          /\ transfer = Upload(call.addr, v, SegmentEnd(v, start), ~toggle)
          /\ Only(c2s, Asking(toggle))
    /\ \A i \in DOMAIN s2c :
          s2c[i] \in SegmentsOf(toggle) => s2c[i] = EncodeDataSegment(v, start, toggle)
    /\ Never(s2c, SegmentsOf(toggle), SegmentsOf(~toggle))

AsksPieces ==
    /\ client.state = "UploadSeg"
    /\ client.type = call.type
    /\ \E v \in Seq(Byte) : \E start \in 0..Len(v) :
          /\ Fetched(v)
          /\ client.buf = SubSeq(v, 1, start)
          /\ OwesPiece(v, start, client.toggle) \/ GavePiece(v, start, client.toggle)

WriteInv ==
    /\ IsValue(call.type, call.value)
    /\ WritesItsValue
    /\ IF result = Pending THEN SendsExpedited \/ SendsOpening \/ SendsPieces
                           ELSE WriteIsOver
    /\ result.kind # "Value"
    /\ result.kind = "Written" => Stored

ReadInv ==
    /\ ReadsOnly
    /\ Only(c2s, ReadRequests)
    /\ result = Pending => AsksOpening \/ AsksPieces
    /\ result.kind = "Value" => \E v \in Seq(Byte) : Fetched(v) /\ Returns(v)
    /\ result.kind # "Written"

CallInv == IF call.op = "write" THEN WriteInv ELSE ReadInv

RepeatInv ==
    /\ ServerInv
    /\ ClientTypeOK
    /\ call = NoCall => c2s = <<>> /\ served = <<>> /\ result = [kind |-> "Io"]
    /\ call # NoCall => CallInv

-----------------------------------------------------------------------------
(* Sequences of frames                                                     *)

\* Losing, repeating and taking the oldest frame resample a sequence.
LEMMA Resampling ==
    ASSUME NEW S, NEW s \in Seq(S)
    PROVE  /\ Resampled(s, s)
           /\ Resampled(s, <<>>)
           /\ s # <<>> => Resampled(s, Tail(s)) /\ Resampled(s, <<Head(s)>> \o s)
<1>1. DOMAIN s = 1..Len(s) /\ Len(s) \in Nat
  OBVIOUS
<1>2. Resampled(s, s)
  <2> DEFINE m == [i \in DOMAIN s |-> i]
  <2>1. m \in [DOMAIN s -> DOMAIN s]
    OBVIOUS
  <2>2. \A i \in DOMAIN s : s[i] = s[m[i]]
    OBVIOUS
  <2>3. \A i, j \in DOMAIN s : i < j => m[i] <= m[j]
    BY <1>1
  <2>4. QED
    BY <2>1, <2>2, <2>3 DEF Resampled
<1>3. Resampled(s, <<>>)
  <2> DEFINE m == [i \in {} |-> i]
  <2>1. m \in [DOMAIN <<>> -> DOMAIN s] /\ DOMAIN <<>> = {}
    OBVIOUS
  <2>2. QED
    BY <2>1 DEF Resampled
<1>4. ASSUME s # <<>>
      PROVE  Resampled(s, Tail(s))
  <2> DEFINE r == Tail(s)
             m == [i \in DOMAIN r |-> i + 1]
  <2>1. DOMAIN r = 1..(Len(s) - 1) /\ Len(s) >= 1
    BY <1>1, <1>4
  <2>2. \A i \in DOMAIN r : r[i] = s[i + 1] /\ i + 1 \in DOMAIN s
    BY <1>1, <1>4, <2>1
  <2>3. m \in [DOMAIN r -> DOMAIN s]
    BY <2>2
  <2>4. \A i \in DOMAIN r : m[i] = i + 1
    OBVIOUS
  <2> HIDE DEF m, r
  <2>5. \A i \in DOMAIN r : r[i] = s[m[i]]
    BY <2>2, <2>4
  <2>6. \A i, j \in DOMAIN r : i < j => m[i] <= m[j]
    BY <2>1, <2>4
  <2>7. Resampled(s, r)
    BY <2>3, <2>5, <2>6 DEF Resampled
  <2>8. QED
    BY <2>7 DEF r
<1>5. ASSUME s # <<>>
      PROVE  Resampled(s, <<Head(s)>> \o s)
  <2> DEFINE r == <<Head(s)>> \o s
             m == [i \in DOMAIN r |-> IF i = 1 THEN 1 ELSE i - 1]
  <2>1. DOMAIN r = 1..(Len(s) + 1) /\ Len(s) >= 1 /\ Head(s) = s[1]
    BY <1>1, <1>5
  <2>2. \A i \in DOMAIN r : r[i] = s[IF i = 1 THEN 1 ELSE i - 1]
    BY <1>1, <1>5, <2>1
  <2>3. \A i \in DOMAIN r : (IF i = 1 THEN 1 ELSE i - 1) \in DOMAIN s
    BY <1>1, <2>1
  <2>4. m \in [DOMAIN r -> DOMAIN s]
    BY <2>3
  <2>5. \A i \in DOMAIN r : m[i] = IF i = 1 THEN 1 ELSE i - 1
    OBVIOUS
  <2> HIDE DEF m, r
  <2>6. \A i \in DOMAIN r : r[i] = s[m[i]]
    BY <2>2, <2>5
  <2>7. \A i, j \in DOMAIN r : i < j => m[i] <= m[j]
    BY <2>1, <2>5
  <2>8. Resampled(s, r)
    BY <2>4, <2>6, <2>7 DEF Resampled
  <2>9. QED
    BY <2>8 DEF r
<1>6. QED
  BY <1>2, <1>3, <1>4, <1>5

\* What is said of the frames under way holds of a resampled sequence.
LEMMA ResampledElements ==
    ASSUME NEW s, NEW r, Resampled(s, r), NEW i \in DOMAIN r
    PROVE  \E k \in DOMAIN s : r[i] = s[k]
<1>1. PICK m \in [DOMAIN r -> DOMAIN s] : \A j \in DOMAIN r : r[j] = s[m[j]]
  BY DEF Resampled
<1>2. m[i] \in DOMAIN s /\ r[i] = s[m[i]]
  BY <1>1
<1>3. QED
  BY <1>2

LEMMA ResampledOnly ==
    ASSUME NEW s, NEW r, Resampled(s, r), NEW F
    PROVE  /\ Only(s, F) => Only(r, F)
           /\ Free(s, F) => Free(r, F)
<1>1. \A i \in DOMAIN r : \E k \in DOMAIN s : r[i] = s[k]
  BY ResampledElements
<1>2. ASSUME Only(s, F) PROVE Only(r, F)
  BY <1>1, <1>2 DEF Only
<1>3. ASSUME Free(s, F) PROVE Free(r, F)
  BY <1>1, <1>3 DEF Free
<1>4. QED
  BY <1>2, <1>3

LEMMA ResampledNever ==
    ASSUME NEW S, NEW s \in Seq(S), NEW T, NEW r \in Seq(T), Resampled(s, r),
           NEW F, NEW G, F \cap G = {}, Never(s, F, G)
    PROVE  Never(r, F, G)
<1>1. PICK m \in [DOMAIN r -> DOMAIN s] :
          /\ \A i \in DOMAIN r : r[i] = s[m[i]]
          /\ \A i, j \in DOMAIN r : i < j => m[i] <= m[j]
  BY DEF Resampled
<1>2. DOMAIN s \subseteq Int
  OBVIOUS
<1>3. SUFFICES ASSUME NEW i \in DOMAIN r, NEW j \in DOMAIN r, i < j, r[i] \in F, r[j] \in G
               PROVE  FALSE
  BY Zenon DEF Never
<1>4. m[i] \in DOMAIN s /\ m[j] \in DOMAIN s /\ r[i] = s[m[i]] /\ r[j] = s[m[j]]
  BY <1>1
<1>5. m[i] <= m[j]
  BY <1>1, <1>3
<1>6. CASE m[i] = m[j]
  BY <1>3, <1>4, <1>6
<1>7. CASE m[i] < m[j]
  BY <1>3, <1>4, <1>7, Zenon DEF Never
<1>8. QED
  BY <1>2, <1>4, <1>5, <1>6, <1>7

\* Appending a frame.
LEMMA AppendedFrames ==
    ASSUME NEW S, NEW s \in Seq(S), NEW f
    PROVE  /\ DOMAIN Append(s, f) = 1..(Len(s) + 1) /\ DOMAIN s = 1..Len(s) /\ Len(s) \in Nat
           /\ Append(s, f)[Len(s) + 1] = f
           /\ \A i \in DOMAIN s : Append(s, f)[i] = s[i]
OBVIOUS

LEMMA AppendedElements ==
    ASSUME NEW S, NEW s \in Seq(S), NEW f, NEW i \in DOMAIN Append(s, f)
    PROVE  \/ i = Len(s) + 1 /\ Append(s, f)[i] = f
           \/ i \in DOMAIN s /\ Append(s, f)[i] = s[i]
BY AppendedFrames

LEMMA AppendedOnly ==
    ASSUME NEW S, NEW s \in Seq(S), NEW f, NEW F
    PROVE  /\ Only(s, F) /\ f \in F => Only(Append(s, f), F)
           /\ Free(s, F) /\ f \notin F => Free(Append(s, f), F)
BY AppendedElements, Zenon DEF Only, Free

LEMMA AppendedNever ==
    ASSUME NEW S, NEW s \in Seq(S), NEW f, NEW F, NEW G, Never(s, F, G),
           f \notin G \/ Free(s, F)
    PROVE  Never(Append(s, f), F, G)
<1> DEFINE r == Append(s, f)
<1>1. SUFFICES ASSUME NEW i \in DOMAIN r, NEW j \in DOMAIN r, i < j, r[i] \in F, r[j] \in G
               PROVE  FALSE
  BY Zenon DEF Never
<1>2. i \in DOMAIN s /\ r[i] = s[i]
  BY <1>1, AppendedFrames
<1>3. CASE j \in DOMAIN s
  <2>1. r[j] = s[j]
    BY <1>3, AppendedFrames
  <2>2. QED
    BY <1>1, <1>2, <1>3, <2>1, Zenon DEF Never
<1>4. CASE j \notin DOMAIN s
  <2>1. r[j] = f
    BY <1>4, AppendedElements
  <2>2. QED
    BY <1>1, <1>2, <2>1, Zenon DEF Free
<1>5. QED
  BY <1>3, <1>4

\* The oldest frame is one of them; what may not come after it is gone.
LEMMA OldestFrame ==
    ASSUME NEW S, NEW s \in Seq(S), s # <<>>, NEW F, NEW G
    PROVE  /\ Only(s, F) => Head(s) \in F
           /\ Free(s, F) => Head(s) \notin F
           /\ Never(s, F, G) /\ Head(s) \in F => Free(Tail(s), G)
<1>1. 1 \in DOMAIN s /\ Head(s) = s[1]
  OBVIOUS
<1>2. ASSUME Never(s, F, G), Head(s) \in F, NEW i \in DOMAIN Tail(s)
      PROVE  Tail(s)[i] \notin G
  <2>1. i + 1 \in DOMAIN s /\ Tail(s)[i] = s[i + 1] /\ 1 < i + 1
    OBVIOUS
  <2>2. QED
    BY <1>1, <1>2, <2>1, Zenon DEF Never
<1>3. QED
  BY <1>1, <1>2, Zenon DEF Only, Free

LEMMA FreeThenNever ==
    ASSUME NEW s, NEW F, NEW G
    PROVE  /\ Free(s, F) => Never(s, F, G)
           /\ Only(s, F \cup G) /\ Free(s, G) => Only(s, F)
           /\ Only(s, F) /\ F \cap G = {} => Free(s, G)
           /\ Only(s, F) /\ F \subseteq G => Only(s, G)
BY DEF Only, Free, Never

LEMMA NothingUnderWay ==
    ASSUME NEW F, NEW G
    PROVE  Only(<<>>, F) /\ Free(<<>>, F) /\ Never(<<>>, F, G)
BY DEF Only, Free, Never

-----------------------------------------------------------------------------
(* Frames that are told apart                                              *)

LEMMA WriteFramesDiffer ==
    ASSUME NEW start, NEW toggle \in BOOLEAN
    PROVE  /\ {Piece(start, toggle)} \cap BeforePiece(start, toggle) = {}
           /\ Confirmed(toggle) \cap Confirmed(~toggle) = {}
           /\ Opening.cs = "DownloadSegmented"
           /\ Piece(start, toggle).cs = "Segment" /\ Piece(start, toggle).toggle = toggle
BY DEF Piece, BeforePiece, Opening, SegmentsOf, Confirmed, EncodeDataSegment,
       EncodeDownloadInitiateSegmented, EncodeDownloadSegmentResponse

LEMMA ReadFramesDiffer ==
    ASSUME NEW start, NEW toggle \in BOOLEAN
    PROVE  /\ Asking(toggle) \cap BeforeAsking(start, toggle) = {}
           /\ SegmentsOf(toggle) \cap SegmentsOf(~toggle) = {}
BY DEF Asking, BeforeAsking, Starting, SegmentsOf, EncodeUploadRequest, EncodeUploadSegmentRequest

LEMMA PieceTyped ==
    ASSUME NEW v \in Seq(Byte), NEW start \in 0..Len(v), NEW toggle \in BOOLEAN
    PROVE  /\ EncodeDataSegment(v, start, toggle) \in SegmentsOf(toggle)
           /\ SegmentsOf(toggle) \subseteq SegmentFrames
<1>1. EncodeDataSegment(v, start, toggle) \in SegmentFrames
  BY SegmentWithinData
<1>2. QED
  BY <1>1 DEF SegmentsOf, EncodeDataSegment

\* While the call stays, so do its frames.
LEMMA FramesKept ==
    ASSUME UNCHANGED call
    PROVE  /\ Announcement' = Announcement /\ Opening' = Opening /\ Starting' = Starting
           /\ TheWrite' = TheWrite /\ ReadRequests' = ReadRequests
           /\ \A start, toggle : Piece(start, toggle)' = Piece(start, toggle)
           /\ \A start, toggle : BeforePiece(start, toggle)' = BeforePiece(start, toggle)
           /\ \A start, toggle : BeforeAsking(start, toggle)' = BeforeAsking(start, toggle)
BY DEF Announcement, Opening, Starting, TheWrite, Piece, BeforePiece, BeforeAsking, ReadRequests

-----------------------------------------------------------------------------
(* Steps of the bus                                                        *)

LEMMA LacksPieceKept ==
    ASSUME BusTypeOK, BusTypeOK', Resampled(c2s, c2s'), UNCHANGED <<call, transfer>>,
           NEW start, NEW toggle \in BOOLEAN, LacksPiece(start, toggle)
    PROVE  LacksPiece(start, toggle)'
<1>1. c2s \in Seq(RequestFrames) /\ c2s' \in Seq(RequestFrames)
  BY DEF BusTypeOK
<1>2. Only(c2s', BeforePiece(start, toggle) \cup {Piece(start, toggle)})
  BY ResampledOnly DEF LacksPiece
<1>3. Never(c2s', {Piece(start, toggle)}, BeforePiece(start, toggle))
  <2>1. Never(c2s, {Piece(start, toggle)}, BeforePiece(start, toggle))
    BY DEF LacksPiece
  <2>2. QED
    BY <1>1, <2>1, WriteFramesDiffer, ResampledNever
<1>4. Piecewise(start, toggle)' = Piecewise(start, toggle)
  BY DEF Piecewise
<1>5. QED
  BY <1>2, <1>3, <1>4, FramesKept DEF LacksPiece

LEMMA TookPieceKept ==
    ASSUME Resampled(c2s, c2s'), UNCHANGED <<call, transfer>>,
           NEW start, NEW toggle, TookPiece(start, toggle)
    PROVE  TookPiece(start, toggle)'
<1>1. Only(c2s', SegmentFrames)
  BY ResampledOnly DEF TookPiece
<1>2. Only(c2s, {Piece(start, toggle)}) => Only(c2s', {Piece(start, toggle)})
  BY ResampledOnly
<1>3. Piecewise(SegmentEnd(call.value, start), ~toggle)
      => Piecewise(SegmentEnd(call.value, start), ~toggle)'
  BY DEF Piecewise
<1>4. QED
  BY <1>1, <1>2, <1>3, FramesKept DEF TookPiece

LEMMA WriteIsOverKept ==
    ASSUME BusTypeOK, BusTypeOK', Resampled(c2s, c2s'), UNCHANGED <<call, transfer>>, WriteIsOver
    PROVE  WriteIsOver'
<1>1. CASE Only(c2s, {Announcement}) \/ Only(c2s, {Opening})
  <2>1. Only(c2s', {Announcement}) \/ Only(c2s', {Opening})
    BY <1>1, ResampledOnly
  <2>2. QED
    BY <2>1, FramesKept DEF WriteIsOver
<1>2. ASSUME NEW start \in 0..Len(call.value), NEW toggle \in BOOLEAN,
             LacksPiece(start, toggle) \/ TookPiece(start, toggle)
      PROVE  WriteIsOver'
  <2>1. LacksPiece(start, toggle)' \/ TookPiece(start, toggle)'
    BY <1>2, LacksPieceKept, TookPieceKept
  <2>2. start \in 0..Len(call'.value)
    OBVIOUS
  <2>3. QED
    BY <2>1, <2>2 DEF WriteIsOver
<1>3. QED
  BY <1>1, <1>2 DEF WriteIsOver

LEMMA ServedKept ==
    ASSUME UNCHANGED <<call, served>>
    PROVE  /\ Stored' = Stored /\ WritesItsValue' = WritesItsValue /\ ReadsOnly' = ReadsOnly
           /\ \A v : Fetched(v)' = Fetched(v)
BY DEF Stored, WritesItsValue, Fetched, ReadsOnly, TheWrite

LEMMA SendsPieceKept ==
    ASSUME BusTypeOK, BusTypeOK', Resampled(c2s, c2s'), Resampled(s2c, s2c'),
           UNCHANGED <<call, transfer, served>>,
           NEW start, NEW toggle \in BOOLEAN, SendsPiece(start, toggle)
    PROVE  SendsPiece(start, toggle)'
<1>1. s2c \in Seq(ResponseFrames) /\ s2c' \in Seq(ResponseFrames)
  BY DEF BusTypeOK
<1>2. Free(s2c, Confirmed(toggle)) => Free(s2c', Confirmed(toggle))
  BY ResampledOnly
<1>3. Never(s2c, Confirmed(toggle), Confirmed(~toggle))
      => Never(s2c', Confirmed(toggle), Confirmed(~toggle))
  BY <1>1, ResampledNever, WriteFramesDiffer
<1>4. /\ LacksPiece(start, toggle) => LacksPiece(start, toggle)'
      /\ TookPiece(start, toggle) => TookPiece(start, toggle)'
  BY LacksPieceKept, TookPieceKept
<1>5. Stored' = Stored
  BY ServedKept
<1>6. QED
  BY <1>2, <1>3, <1>4, <1>5 DEF SendsPiece

LEMMA WriteInvKept ==
    ASSUME BusTypeOK, BusTypeOK', ClientTypeOK, Resampled(c2s, c2s'), Resampled(s2c, s2c'),
           UNCHANGED <<transfer, served, client, call, result>>, WriteInv
    PROVE  WriteInv'
<1>1. Stored' = Stored /\ WritesItsValue' = WritesItsValue
  BY ServedKept
<1>2. CASE result # Pending
  <2>1. WriteIsOver'
    BY <1>2, WriteIsOverKept DEF WriteInv
  <2>2. QED
    BY <1>1, <1>2, <2>1 DEF WriteInv
<1>3. CASE result = Pending
  <2>1. SendsExpedited => SendsExpedited'
    BY <1>1, ResampledOnly, FramesKept DEF SendsExpedited
  <2>2. SendsOpening => SendsOpening'
    <3>1. Piecewise(0, FALSE)' = Piecewise(0, FALSE)
      BY DEF Piecewise
    <3>2. QED
      BY <3>1, ResampledOnly, FramesKept DEF SendsOpening
  <2>3. SendsPieces => SendsPieces'
    <3> SUFFICES ASSUME SendsPieces PROVE SendsPieces'
      OBVIOUS
    <3>1. PICK start \in 0..Len(call.value) :
              client.pos = SegmentEnd(call.value, start) /\ SendsPiece(start, client.toggle)
      BY DEF SendsPieces
    <3>2. client.toggle \in BOOLEAN
      BY DEF ClientTypeOK, ClientStates, SendsPieces
    <3>3. SendsPiece(start, client.toggle)'
      BY <3>1, <3>2, SendsPieceKept
    <3>4. QED
      BY <3>1, <3>3 DEF SendsPieces
  <2>4. QED
    BY <1>1, <1>3, <2>1, <2>2, <2>3 DEF WriteInv
<1>4. QED
  BY <1>2, <1>3

LEMMA OwesPieceKept ==
    ASSUME BusTypeOK, BusTypeOK', Resampled(c2s, c2s'), Resampled(s2c, s2c'),
           UNCHANGED <<call, transfer>>,
           NEW v, NEW start, NEW toggle \in BOOLEAN, OwesPiece(v, start, toggle)
    PROVE  OwesPiece(v, start, toggle)'
<1>1. c2s \in Seq(RequestFrames) /\ c2s' \in Seq(RequestFrames)
  BY DEF BusTypeOK
<1>2. /\ Only(c2s', BeforeAsking(start, toggle) \cup Asking(toggle))
      /\ Free(s2c', SegmentsOf(toggle))
  BY ResampledOnly DEF OwesPiece
<1>3. Never(c2s', Asking(toggle), BeforeAsking(start, toggle))
  <2>1. Never(c2s, Asking(toggle), BeforeAsking(start, toggle))
    BY DEF OwesPiece
  <2>2. QED
    BY <1>1, <2>1, ReadFramesDiffer, ResampledNever
<1>4. QED
  BY <1>2, <1>3, FramesKept DEF OwesPiece

LEMMA GavePieceKept ==
    ASSUME BusTypeOK, BusTypeOK', Resampled(c2s, c2s'), Resampled(s2c, s2c'),
           UNCHANGED <<call, transfer>>,
           NEW v, NEW start, NEW toggle \in BOOLEAN, GavePiece(v, start, toggle)
    PROVE  GavePiece(v, start, toggle)'
<1>1. s2c \in Seq(ResponseFrames) /\ s2c' \in Seq(ResponseFrames)
  BY DEF BusTypeOK
<1>2. /\ Only(c2s', Asking(FALSE) \cup Asking(TRUE))
      /\ Only(c2s, Asking(toggle)) => Only(c2s', Asking(toggle))
  BY ResampledOnly DEF GavePiece
<1>3. Never(s2c', SegmentsOf(toggle), SegmentsOf(~toggle))
  <2>1. Never(s2c, SegmentsOf(toggle), SegmentsOf(~toggle))
    BY DEF GavePiece
  <2>2. QED
    BY <1>1, <2>1, ReadFramesDiffer, ResampledNever
<1>4. \A i \in DOMAIN s2c' :
          s2c'[i] \in SegmentsOf(toggle) => s2c'[i] = EncodeDataSegment(v, start, toggle)
  <2>1. \A i \in DOMAIN s2c' : \E k \in DOMAIN s2c : s2c'[i] = s2c[k]
    BY ResampledElements
  <2>2. QED
    BY <2>1 DEF GavePiece
<1>5. QED
  BY <1>2, <1>3, <1>4 DEF GavePiece

LEMMA AsksOpeningKept ==
    ASSUME Resampled(c2s, c2s'), Resampled(s2c, s2c'),
           UNCHANGED <<call, client, transfer, served>>, AsksOpening
    PROVE  AsksOpening'
<1>1. Only(c2s', Starting) /\ Free(s2c', SegmentFrames)
  BY ResampledOnly DEF AsksOpening
<1>2. ASSUME NEW i \in DOMAIN s2c'
      PROVE  /\ s2c'[i].cs = "UploadExpedited" => Fetched(s2c'[i].data)
             /\ s2c'[i].cs = "UploadSegmented" =>
                   \E v \in Seq(Byte) : Fetched(v) /\ transfer = Upload(call.addr, v, 0, FALSE)
  <2>1. PICK k \in DOMAIN s2c : s2c'[i] = s2c[k]
    BY ResampledElements
  <2>2. QED
    BY <2>1 DEF AsksOpening
<1>3. \A v : Fetched(v)' = Fetched(v)
  BY ServedKept
<1>4. ASSUME NEW i \in DOMAIN s2c', s2c'[i].cs = "UploadExpedited"
      PROVE  Fetched(s2c[i].data)'
  BY <1>2, <1>4 DEF Fetched
<1>5. ASSUME NEW i \in DOMAIN s2c', s2c'[i].cs = "UploadSegmented"
      PROVE  (\E v \in Seq(Byte) : Fetched(v) /\ transfer = Upload(call.addr, v, 0, FALSE))'
  BY <1>2, <1>3, <1>5
<1>6. client' = [state |-> "UploadInit", type |-> call'.type]
  BY DEF AsksOpening
<1>7. QED
  BY <1>1, <1>4, <1>5, <1>6, FramesKept DEF AsksOpening

LEMMA ReadInvKept ==
    ASSUME BusTypeOK, BusTypeOK', ClientTypeOK, Resampled(c2s, c2s'), Resampled(s2c, s2c'),
           UNCHANGED <<transfer, served, client, call, result>>, ReadInv
    PROVE  ReadInv'
<1>1. ReadsOnly' = ReadsOnly /\ \A v : Fetched(v)' = Fetched(v)
  BY ServedKept
<1>2. Only(c2s', ReadRequests) /\ ReadRequests' = ReadRequests
  BY ResampledOnly, FramesKept DEF ReadInv
<1>3. AsksOpening => AsksOpening'
  BY AsksOpeningKept
<1>4. ASSUME AsksPieces PROVE AsksPieces'
  <2>1. PICK v \in Seq(Byte) : \E start \in 0..Len(v) :
            /\ Fetched(v)
            /\ client.buf = SubSeq(v, 1, start)
            /\ OwesPiece(v, start, client.toggle) \/ GavePiece(v, start, client.toggle)
    BY <1>4 DEF AsksPieces
  <2>2. PICK start \in 0..Len(v) :
            /\ Fetched(v)
            /\ client.buf = SubSeq(v, 1, start)
            /\ OwesPiece(v, start, client.toggle) \/ GavePiece(v, start, client.toggle)
    BY <2>1
  <2>3. client.toggle \in BOOLEAN
    BY <1>4 DEF ClientTypeOK, ClientStates, AsksPieces
  <2>4. OwesPiece(v, start, client.toggle)' \/ GavePiece(v, start, client.toggle)'
    BY <2>2, <2>3, OwesPieceKept, GavePieceKept
  <2>5. QED
    BY <1>1, <1>4, <2>2, <2>4 DEF AsksPieces
<1>5. ASSUME NEW v, Fetched(v), Returns(v) PROVE Fetched(v)' /\ Returns(v)'
  BY <1>1, <1>5 DEF Returns
<1>6. QED
  BY <1>1, <1>2, <1>3, <1>4, <1>5 DEF ReadInv

\* Losing and repeating frames, and the clearing of the socket between calls.
LEMMA BusStepKeepsRepeatInv ==
    ASSUME RepeatInv, BusTypeOK', Resampled(c2s, c2s'), Resampled(s2c, s2c'),
           UNCHANGED <<od, transfer, lastWrite, served, client, call, result>>
    PROVE  RepeatInv'
<1>1. BusTypeOK /\ ServerInv /\ ClientTypeOK /\ served \in Seq(Accesses)
  BY DEF RepeatInv, ServerInv, ServerTypeOK
<1>2. ServerInv' /\ ClientTypeOK'
  BY <1>1, ServerAside DEF ClientTypeOK
<1>3. ASSUME call = NoCall PROVE c2s' = <<>>
  <2>1. c2s = <<>> /\ c2s' \in Seq(RequestFrames)
    BY <1>1, <1>3 DEF RepeatInv, BusTypeOK
  <2>2. DOMAIN c2s' = {}
    BY <2>1, ResampledElements
  <2>3. QED
    BY <2>1, <2>2
<1>4. ASSUME call # NoCall PROVE CallInv'
  <2>1. CallInv
    BY <1>4 DEF RepeatInv
  <2>2. WriteInv => WriteInv'
    BY <1>1, WriteInvKept
  <2>3. ReadInv => ReadInv'
    BY <1>1, ReadInvKept
  <2>4. QED
    BY <2>1, <2>2, <2>3 DEF CallInv
<1>5. QED
  BY <1>2, <1>3, <1>4 DEF RepeatInv

-----------------------------------------------------------------------------
(* The server under a write                                                *)

LEMMA WriteTyped ==
    ASSUME ClientTypeOK, call # NoCall, call.op = "write"
    PROVE  call.addr \in Address /\ call.type \in DataType /\ call.value \in Seq(Byte)
BY DEF ClientTypeOK, Calls, NoCall

\* The server takes the oldest request, whatever else is under way.
LEMMA OldestServed ==
    ASSUME BusTypeOK, ServerStep
    PROVE  /\ c2s \in Seq(RequestFrames) /\ c2s # <<>> /\ c2s' = Tail(c2s)
           /\ Resampled(c2s, c2s')
           /\ Head(c2s).cs = "DownloadExpedited" => OnDownloadExpedited
           /\ Head(c2s).cs = "DownloadSegmented" => OnDownloadSegmented
           /\ Head(c2s).cs = "UploadInitiate" => OnUploadInitiate
           /\ Head(c2s).cs = "UploadSegment" => OnUploadSegment
           /\ Head(c2s).cs = "Segment" => OnDownloadSegment
<1>1. c2s \in Seq(RequestFrames)
  BY DEF BusTypeOK
<1>2. /\ c2s # <<>> /\ c2s' = Tail(c2s)
      /\ Head(c2s).cs = "DownloadExpedited" => OnDownloadExpedited
      /\ Head(c2s).cs = "DownloadSegmented" => OnDownloadSegmented
      /\ Head(c2s).cs = "UploadInitiate" => OnUploadInitiate
      /\ Head(c2s).cs = "UploadSegment" => OnUploadSegment
      /\ Head(c2s).cs = "Segment" => OnDownloadSegment
  BY DEF ServerStep, OnDownloadExpedited, OnDownloadSegmented, OnUploadInitiate,
         OnUploadSegment, OnDownloadSegment, OnClientAbort, OnUnknown, Handle
<1>3. Resampled(c2s, c2s')
  BY <1>1, <1>2, Resampling
<1>4. QED
  BY <1>1, <1>2, <1>3

\* Accesses made are not forgotten.
LEMMA ServedGrows ==
    ASSUME NEW a, served \in Seq(Accesses), served' = Append(served, a), UNCHANGED call
    PROVE  /\ Stored => Stored'
           /\ \A v : Fetched(v) => Fetched(v)'
           /\ a = TheWrite => Stored'
           /\ \A v : a = Accessed("read", call.addr, v) => Fetched(v)'
           /\ WritesItsValue /\ a = TheWrite => WritesItsValue'
           /\ ReadsOnly /\ a.op = "read" => ReadsOnly'
<1>1. /\ DOMAIN served' = 1..(Len(served) + 1) /\ DOMAIN served = 1..Len(served)
      /\ Len(served) \in Nat /\ served'[Len(served) + 1] = a
      /\ \A i \in DOMAIN served : served'[i] = served[i]
  BY AppendedFrames
<1>2. /\ \A i \in DOMAIN served : i \in DOMAIN served' /\ served'[i] = served[i]
      /\ Len(served) + 1 \in DOMAIN served'
      /\ \A i \in DOMAIN served' : served'[i] = a \/ (i \in DOMAIN served /\ served'[i] = served[i])
  BY <1>1
<1>3. TheWrite' = TheWrite
  BY FramesKept
<1>4. Stored => Stored'
  BY <1>2, <1>3, Zenon DEF Stored
<1>5. \A v : Fetched(v) => Fetched(v)'
  BY <1>2 DEF Fetched
<1>6. a = TheWrite => Stored'
  BY <1>1, <1>2, <1>3, Zenon DEF Stored
<1>7. \A v : a = Accessed("read", call.addr, v) => Fetched(v)'
  BY <1>1, <1>2 DEF Fetched
<1>8. WritesItsValue /\ a = TheWrite => WritesItsValue'
  BY <1>2, <1>3 DEF WritesItsValue
<1>9. ReadsOnly /\ a.op = "read" => ReadsOnly'
  BY <1>2 DEF ReadsOnly
<1>10. QED
  BY <1>4, <1>5, <1>6, <1>7, <1>8, <1>9

\* The server refuses with an abort.
Aborts == \E g \in AbortFrames : s2c' = Append(s2c, g)

LEMMA RefusalAborts ==
    ASSUME NEW addr \in Address \cup {NoAddress}, NEW code \in AbortCode, ReplyAbort(addr, code)
    PROVE  Aborts
BY DEF ReplyAbort, Reply, EncodeAbort, Aborts, AbortFrames

\* An expedited write is made, again if its frame is repeated, or refused.
LEMMA AnnouncementServed ==
    ASSUME ServerInv, ClientTypeOK, call # NoCall, call.op = "write",
           OnDownloadExpedited, Head(c2s) = Announcement, WritesItsValue, UNCHANGED call
    PROVE  /\ WritesItsValue'
           /\ Stored => Stored'
           /\ Stored' \/ Aborts
<1> DEFINE req == Announcement
<1>1. /\ req.addr = call.addr /\ req.sized = TRUE /\ req.data = call.value
  BY DEF Announcement, EncodeDownloadExpedited
<1>2. call.addr \in Address /\ call.value \in Seq(Byte)
  BY WriteTyped
<1>3. ExpeditedLength(req) = Len(call.value)
  BY <1>1 DEF ExpeditedLength
<1>4. SubSeq(call.value, 1, Len(call.value)) = call.value
  BY <1>2
<1>5. served \in Seq(Accesses)
  BY DEF ServerInv, ServerTypeOK
<1>6. DownloadTarget(req) = "ok" \/ DownloadTarget(req) \in AbortCode
  BY DEF DownloadTarget, AbortCode
<1>7. CASE \E code \in AbortCode : Refuse(call.addr, code)
  <2>1. Aborts /\ served' = served
    BY <1>2, <1>7, RefusalAborts DEF Refuse, serverVars
  <2>2. WritesItsValue'
    BY <2>1, ServedKept
  <2>3. Stored' = Stored
    BY <2>1, ServedKept
  <2>4. QED
    BY <2>1, <2>2, <2>3
<1>8. CASE WriteObject(call.addr, call.value)
  <2>1. served' = Append(served, TheWrite)
    BY <1>8 DEF WriteObject, TheWrite, Accessed
  <2>2. Stored' /\ WritesItsValue'
    BY <1>5, <2>1, ServedGrows
  <2>3. QED
    BY <2>2
<1>9. QED
  BY <1>1, <1>3, <1>4, <1>6, <1>7, <1>8 DEF OnDownloadExpedited, AbortCode

\* The announcement of a segmented write opens the transfer anew, or is refused.
LEMMA OpeningServed ==
    ASSUME ClientTypeOK, call # NoCall, call.op = "write",
           OnDownloadSegmented, Head(c2s) = Opening, UNCHANGED call
    PROVE  /\ UNCHANGED served
           /\ \/ Aborts /\ UNCHANGED transfer
              \/ /\ s2c' = Append(s2c, EncodeDownloadResponse(call.addr))
                 /\ transfer' = Download(call.addr, <<>>, Len(call.value), FALSE)
                 /\ Piecewise(0, FALSE)'
<1> DEFINE req == Opening
<1>1. /\ req.addr = call.addr /\ req.sized = TRUE /\ req.size = Len(call.value)
  BY DEF Opening, EncodeDownloadInitiateSegmented
<1>2. call.addr \in Address /\ call.value \in Seq(Byte)
  BY WriteTyped
<1>3. DownloadTarget(req) = "ok" \/ DownloadTarget(req) \in AbortCode
  BY DEF DownloadTarget, AbortCode
<1>4. CASE \E code \in AbortCode : Refuse(call.addr, code)
  BY <1>2, <1>4, RefusalAborts DEF Refuse, serverVars
<1>5. CASE /\ transfer' = Download(call.addr, <<>>, Len(call.value), FALSE)
           /\ Reply(EncodeDownloadResponse(call.addr))
           /\ UNCHANGED <<od, lastWrite, served>>
  <2>1. SubSeq(call.value, 1, 0) = <<>>
    BY <1>2
  <2>2. Piecewise(0, FALSE)'
    BY <1>5, <2>1 DEF Piecewise
  <2>3. QED
    BY <1>5, <2>2 DEF Reply
<1>6. QED
  BY <1>1, <1>3, <1>4, <1>5 DEF OnDownloadSegmented, AbortCode

\* A segment out of turn breaks the transfer off.
LEMMA SegmentRefused ==
    ASSUME ServerInv, OnDownloadSegment, Downloading => ~InSequence(Head(c2s))
    PROVE  Aborts /\ transfer' = NoTransfer /\ UNCHANGED <<od, lastWrite, served>>
<1>1. Downloading => transfer.addr \in Address
  BY TransferFields, SdoServerAssumption DEF Downloading
<1>2. "CommandInvalid" \in AbortCode /\ "ToggleBitNotAlternated" \in AbortCode
  BY DEF AbortCode
<1>3. CASE ~Downloading
  BY <1>2, <1>3, RefusalAborts DEF OnDownloadSegment
<1>4. CASE Downloading
  BY <1>1, <1>2, <1>4, RefusalAborts DEF OnDownloadSegment
<1>5. QED
  BY <1>3, <1>4

\* The piece that the server lacks is taken and confirmed; the last one makes the write.
LEMMA PieceServed ==
    ASSUME ServerInv, ClientTypeOK, call # NoCall, call.op = "write", WritesItsValue,
           UNCHANGED call, OnDownloadSegment,
           NEW start \in 0..Len(call.value), NEW toggle \in BOOLEAN,
           Piecewise(start, toggle), Head(c2s) = Piece(start, toggle)
    PROVE  /\ s2c' = Append(s2c, EncodeDownloadSegmentResponse(toggle))
           /\ WritesItsValue' /\ (Stored => Stored')
           /\ IF IsLastSegment(call.value, start)
              THEN transfer' = NoTransfer /\ Stored'
              ELSE Piecewise(SegmentEnd(call.value, start), ~toggle)'
<1> DEFINE v   == call.value
           seg == Piece(start, toggle)
           buf == transfer.buf \o seg.data
<1>1. call.addr \in Address /\ v \in Seq(Byte)
  BY WriteTyped
<1>2. /\ seg.toggle = toggle /\ seg.last = IsLastSegment(v, start)
      /\ seg.data = SubSeq(v, start + 1, SegmentEnd(v, start))
  BY DEF Piece, EncodeDataSegment
<1>3. /\ transfer.kind = "Download" /\ transfer.addr = call.addr
      /\ transfer.buf = SubSeq(v, 1, start) /\ transfer.declared = Len(v)
      /\ transfer.toggle = toggle
  BY DEF Piecewise, Download
<1>4. /\ SegmentEnd(v, start) \in 0..Len(v)
      /\ IsLastSegment(v, start) <=> SegmentEnd(v, start) = Len(v)
      /\ buf = SubSeq(v, 1, SegmentEnd(v, start))
      /\ Len(buf) = SegmentEnd(v, start)
      /\ SubSeq(v, 1, Len(v)) = v
  <2>1. /\ SegmentEnd(v, start) \in 0..Len(v)
        /\ IsLastSegment(v, start) <=> SegmentEnd(v, start) = Len(v)
        /\ buf = SubSeq(v, 1, SegmentEnd(v, start))
        /\ SubSeq(v, 1, Len(v)) = v
    BY <1>1, <1>2, <1>3, NextSegment
  <2>2. Len(SubSeq(v, 1, SegmentEnd(v, start))) = SegmentEnd(v, start)
    BY <1>1, <2>1, NextSegment
  <2>3. QED
    BY <2>1, <2>2
<1>5. FitsBuffer(buf)
  <2>1. Len(v) <= MaxLen
    BY <1>3 DEF ServerInv, TransferInBounds
  <2>2. QED
    BY <2>1, <1>1, <1>4, SdoBusAssumption DEF FitsBuffer
<1>6. Downloading /\ InSequence(seg)
  BY <1>2, <1>3 DEF Downloading, InSequence
<1>7. served \in Seq(Accesses)
  BY DEF ServerInv, ServerTypeOK
<1> HIDE DEF seg
<1>8. CASE IsLastSegment(v, start)
  <2>1. AsDeclared(buf) /\ seg.last
    BY <1>2, <1>3, <1>4, <1>8 DEF AsDeclared
  <2>2. /\ WriteObject(call.addr, v) /\ transfer' = NoTransfer
        /\ Reply(EncodeDownloadSegmentResponse(toggle))
    BY <1>2, <1>3, <1>4, <1>5, <1>6, <1>8, <2>1 DEF OnDownloadSegment, seg
  <2>3. served' = Append(served, TheWrite)
    BY <2>2 DEF WriteObject, TheWrite, Accessed
  <2>4. Stored' /\ WritesItsValue'
    BY <1>7, <2>3, ServedGrows
  <2>5. QED
    BY <1>8, <2>2, <2>4 DEF Reply
<1>9. CASE ~IsLastSegment(v, start)
  <2>1. /\ transfer' = [transfer EXCEPT !.buf = buf, !.toggle = ~transfer.toggle]
        /\ Reply(EncodeDownloadSegmentResponse(toggle))
        /\ UNCHANGED served
    BY <1>2, <1>5, <1>6, <1>9 DEF OnDownloadSegment, seg
  <2>2. transfer' = Download(call.addr, SubSeq(v, 1, SegmentEnd(v, start)), Len(v), ~toggle)
    BY <1>3, <1>4, <2>1 DEF Piecewise, Download
  <2>3. Piecewise(SegmentEnd(v, start), ~toggle)'
    BY <2>2 DEF Piecewise
  <2>4. Stored' = Stored /\ WritesItsValue' = WritesItsValue
    BY <2>1, ServedKept
  <2>5. QED
    BY <1>9, <2>1, <2>3, <2>4 DEF Reply
<1>10. QED
  BY <1>8, <1>9

\* A piece the server lacks is still to come, or taken, or the transfer is broken off.
LEMMA LacksPieceServed ==
    ASSUME ServerInv, ClientTypeOK, call # NoCall, call.op = "write", WritesItsValue,
           UNCHANGED call, ServerStep,
           NEW start \in 0..Len(call.value), NEW toggle \in BOOLEAN, LacksPiece(start, toggle)
    PROVE  /\ WritesItsValue' /\ (Stored => Stored')
           /\ \/ /\ LacksPiece(start, toggle)'
                 /\ Aborts \/ s2c' = Append(s2c, EncodeDownloadResponse(call.addr))
              \/ /\ TookPiece(start, toggle)'
                 /\ \/ Aborts /\ UNCHANGED served
                    \/ /\ s2c' = Append(s2c, EncodeDownloadSegmentResponse(toggle))
                       /\ IsLastSegment(call.value, start) => Stored'
<1> DEFINE f      == Head(c2s)
           piece  == Piece(start, toggle)
           before == BeforePiece(start, toggle)
<1>1. BusTypeOK /\ BusTypeOK'
  BY ServerStepKeepsInv DEF ServerInv
<1>2. c2s \in Seq(RequestFrames) /\ c2s # <<>> /\ c2s' = Tail(c2s) /\ Resampled(c2s, c2s')
  BY <1>1, OldestServed
<1>3. Only(c2s', before \cup {piece})
  BY <1>2, ResampledOnly DEF LacksPiece
<1>4. Never(c2s', {piece}, before)
  <2>1. Never(c2s, {piece}, before)
    BY DEF LacksPiece
  <2>2. QED
    BY <1>1, <1>2, <2>1, WriteFramesDiffer, ResampledNever DEF BusTypeOK
<1>5. start = 0 => toggle = FALSE
  BY DEF LacksPiece
<1>6. piece \in SegmentsOf(toggle) /\ \A b \in BOOLEAN : SegmentsOf(b) \subseteq SegmentFrames
  BY WriteTyped, PieceTyped DEF Piece
<1>7. f \in before \/ f = piece
  BY <1>2, OldestFrame DEF LacksPiece
<1>8. (~toggle) \in BOOLEAN
  BY Toggled, Zenon
<1>9. CASE f \in before /\ start = 0
  <2>1. f = Opening
    BY <1>9 DEF BeforePiece
  <2>2. OnDownloadSegmented
    BY <1>1, <2>1, WriteFramesDiffer, OldestServed
  <2>3. /\ UNCHANGED served
        /\ \/ Aborts /\ UNCHANGED transfer
           \/ /\ s2c' = Append(s2c, EncodeDownloadResponse(call.addr))
              /\ Piecewise(0, FALSE)'
    BY <2>1, <2>2, OpeningServed
  <2>4. Piecewise(start, toggle)'
    <3>1. UNCHANGED transfer => Piecewise(start, toggle)'
      BY DEF LacksPiece, Piecewise
    <3>2. QED
      BY <1>5, <1>9, <2>3, <3>1
  <2>5. LacksPiece(start, toggle)'
    BY <1>3, <1>4, <1>5, <2>4, FramesKept DEF LacksPiece
  <2>6. WritesItsValue' = WritesItsValue /\ Stored' = Stored
    BY <2>3, ServedKept
  <2>7. QED
    BY <2>3, <2>5, <2>6
<1>10. CASE f \in before /\ start # 0
  <2>1. before = SegmentsOf(~toggle)
    BY <1>10 DEF BeforePiece
  <2>2. f.cs = "Segment" /\ f.toggle = ~toggle
    BY <1>10, <2>1 DEF SegmentsOf, SegmentFrames
  <2>3. transfer.toggle = toggle
    BY DEF LacksPiece, Piecewise, Download
  <2>4. ~InSequence(f)
    BY <2>2, <2>3 DEF InSequence
  <2>5. Aborts /\ transfer' = NoTransfer /\ UNCHANGED served
    BY <1>1, <2>2, <2>4, OldestServed, SegmentRefused
  <2>6. Only(c2s', SegmentFrames)
    <3>1. before \cup {piece} \subseteq SegmentFrames
      BY <1>6, <1>8, <2>1
    <3>2. QED
      BY <1>3, <3>1, FreeThenNever
  <2>7. TookPiece(start, toggle)'
    BY <2>5, <2>6 DEF TookPiece, NoTransfer
  <2>8. WritesItsValue' = WritesItsValue /\ Stored' = Stored
    BY <2>5, ServedKept
  <2>9. QED
    BY <2>5, <2>7, <2>8
<1>11. CASE f = piece
  <2>1. OnDownloadSegment
    BY <1>1, <1>11, WriteFramesDiffer, OldestServed
  <2>2. /\ s2c' = Append(s2c, EncodeDownloadSegmentResponse(toggle))
        /\ WritesItsValue' /\ (Stored => Stored')
        /\ IF IsLastSegment(call.value, start)
           THEN transfer' = NoTransfer /\ Stored'
           ELSE Piecewise(SegmentEnd(call.value, start), ~toggle)'
    BY <1>11, <2>1, PieceServed DEF LacksPiece
  <2>3. Only(c2s', {piece})
    <3>1. Free(c2s', before)
      BY <1>2, <1>11, OldestFrame DEF LacksPiece
    <3>2. QED
      BY <1>3, <3>1 DEF Only, Free
  <2>4. Only(c2s', SegmentFrames)
    BY <1>6, <2>3, FreeThenNever
  <2>5. TookPiece(start, toggle)'
    <3>1. CASE IsLastSegment(call.value, start)
      <4>1. transfer'.kind # "Download"
        BY <2>2, <3>1 DEF NoTransfer
      <4>2. QED
        BY <2>4, <4>1 DEF TookPiece
    <3>2. CASE ~IsLastSegment(call.value, start)
      <4>1. Piecewise(SegmentEnd(call.value, start), ~toggle)'
        BY <2>2, <3>2
      <4>2. Only(c2s, {Piece(start, toggle)})'
        BY <2>3, FramesKept
      <4>3. QED
        BY <2>4, <4>1, <4>2 DEF TookPiece
    <3>3. QED
      BY <3>1, <3>2
  <2>6. QED
    BY <2>2, <2>5
<1>12. QED
  BY <1>7, <1>9, <1>10, <1>11

\* Once the server has taken the piece it refuses whatever segment is repeated.
LEMMA TookPieceServed ==
    ASSUME ServerInv, ServerStep, UNCHANGED call,
           NEW start, NEW toggle \in BOOLEAN, TookPiece(start, toggle)
    PROVE  TookPiece(start, toggle)' /\ Aborts /\ UNCHANGED served
<1> DEFINE f == Head(c2s)
<1>1. BusTypeOK
  BY DEF ServerInv
<1>2. c2s \in Seq(RequestFrames) /\ c2s # <<>> /\ c2s' = Tail(c2s) /\ Resampled(c2s, c2s')
  BY <1>1, OldestServed
<1>3. f \in SegmentFrames /\ Only(c2s', SegmentFrames)
  BY <1>2, OldestFrame, ResampledOnly DEF TookPiece
<1>4. OnDownloadSegment
  BY <1>1, <1>3, OldestServed DEF SegmentFrames
<1>5. Downloading => ~InSequence(f)
  <2> SUFFICES ASSUME Downloading PROVE ~InSequence(f)
    OBVIOUS
  <2>1. transfer.toggle = ~toggle
    BY DEF TookPiece, Piecewise, Downloading, Download
  <2>2. f = Piece(start, toggle)
    BY <1>2, OldestFrame DEF TookPiece, Downloading
  <2>3. f.toggle = toggle
    BY <2>2, WriteFramesDiffer
  <2>4. QED
    BY <2>1, <2>3 DEF InSequence
<1>6. Aborts /\ transfer' = NoTransfer /\ UNCHANGED served
  BY <1>4, <1>5, SegmentRefused
<1>7. TookPiece(start, toggle)'
  BY <1>3, <1>6 DEF TookPiece, NoTransfer
<1>8. QED
  BY <1>6, <1>7

LEMMA AnnouncementUnderWay ==
    ASSUME BusTypeOK, ServerStep
    PROVE  /\ Only(c2s, {Announcement}) =>
                 OnDownloadExpedited /\ Head(c2s) = Announcement /\ Only(c2s', {Announcement})
           /\ Only(c2s, {Opening}) =>
                 OnDownloadSegmented /\ Head(c2s) = Opening /\ Only(c2s', {Opening})
<1>1. c2s \in Seq(RequestFrames) /\ c2s # <<>> /\ c2s' = Tail(c2s) /\ Resampled(c2s, c2s')
  BY OldestServed
<1>2. ASSUME Only(c2s, {Announcement})
      PROVE  OnDownloadExpedited /\ Head(c2s) = Announcement /\ Only(c2s', {Announcement})
  <2>1. Head(c2s) = Announcement /\ Only(c2s', {Announcement})
    BY <1>1, <1>2, OldestFrame, ResampledOnly
  <2>2. Head(c2s).cs = "DownloadExpedited"
    BY <2>1 DEF Announcement, EncodeDownloadExpedited
  <2>3. QED
    BY <2>1, <2>2, OldestServed
<1>3. ASSUME Only(c2s, {Opening})
      PROVE  OnDownloadSegmented /\ Head(c2s) = Opening /\ Only(c2s', {Opening})
  <2>1. Head(c2s) = Opening /\ Only(c2s', {Opening})
    BY <1>1, <1>3, OldestFrame, ResampledOnly
  <2>2. Head(c2s).cs = "DownloadSegmented"
    BY <2>1 DEF Opening, EncodeDownloadInitiateSegmented
  <2>3. QED
    BY <2>1, <2>2, OldestServed
<1>4. QED
  BY <1>2, <1>3

\* What an abort from the server leaves true of the responses.
LEMMA AbortsAppended ==
    ASSUME BusTypeOK, Aborts, NEW toggle, NEW G
    PROVE  /\ Only(s2c, AbortFrames) => Only(s2c', AbortFrames)
           /\ Free(s2c, Confirmed(toggle)) => Free(s2c', Confirmed(toggle))
           /\ Never(s2c, G, Confirmed(toggle)) => Never(s2c', G, Confirmed(toggle))
<1>1. PICK g \in AbortFrames : s2c' = Append(s2c, g)
  BY DEF Aborts
<1>2. g \notin Confirmed(toggle)
  BY DEF Confirmed, EncodeDownloadSegmentResponse, AbortFrames
<1>3. s2c \in Seq(ResponseFrames)
  BY DEF BusTypeOK
<1>4. QED
  BY <1>1, <1>2, <1>3, AppendedOnly, AppendedNever

\* The server under a running write.
LEMMA ServeSendsPiece ==
    ASSUME ServerInv, ClientTypeOK, call # NoCall, call.op = "write", WritesItsValue,
           UNCHANGED call, ServerStep,
           NEW start \in 0..Len(call.value), NEW toggle \in BOOLEAN, SendsPiece(start, toggle)
    PROVE  SendsPiece(start, toggle)' /\ WritesItsValue' /\ (Stored => Stored')
<1>1. BusTypeOK /\ s2c \in Seq(ResponseFrames)
  BY DEF ServerInv, BusTypeOK
<1> DEFINE confirmation == EncodeDownloadSegmentResponse(toggle)
<1>2. /\ Confirmed(toggle) = {confirmation}
      /\ confirmation \notin Confirmed(~toggle)
      /\ EncodeDownloadResponse(call.addr) \notin Confirmed(toggle)
  BY DEF Confirmed, EncodeDownloadSegmentResponse, EncodeDownloadResponse
<1> HIDE DEF confirmation
<1>3. CASE LacksPiece(start, toggle) /\ Free(s2c, Confirmed(toggle))
  <2>1. WritesItsValue' /\ (Stored => Stored')
    BY <1>3, LacksPieceServed
  <2>2. CASE /\ LacksPiece(start, toggle)'
             /\ Aborts \/ s2c' = Append(s2c, EncodeDownloadResponse(call.addr))
    <3>1. Free(s2c', Confirmed(toggle))
      <4>1. CASE Aborts
        BY <1>1, <1>3, <4>1, AbortsAppended
      <4>2. CASE s2c' = Append(s2c, EncodeDownloadResponse(call.addr))
        BY <1>1, <1>2, <1>3, <4>2, AppendedOnly
      <4>3. QED
        BY <2>2, <4>1, <4>2
    <3>2. QED
      BY <2>1, <2>2, <3>1 DEF SendsPiece
  <2>3. CASE TookPiece(start, toggle)' /\ Aborts
    <3>1. Free(s2c', Confirmed(toggle))
      BY <1>1, <1>3, <2>3, AbortsAppended
    <3>2. Never(s2c', Confirmed(toggle), Confirmed(~toggle))
      BY <3>1, FreeThenNever
    <3>3. QED
      BY <2>1, <2>3, <3>1, <3>2 DEF SendsPiece
  <2>4. CASE /\ TookPiece(start, toggle)'
             /\ s2c' = Append(s2c, confirmation)
             /\ IsLastSegment(call.value, start) => Stored'
    <3>1. Never(s2c, Confirmed(toggle), Confirmed(~toggle))
      BY <1>3, FreeThenNever
    <3>2. Never(s2c', Confirmed(toggle), Confirmed(~toggle))
      BY <1>1, <1>2, <2>4, <3>1, AppendedNever
    <3>3. QED
      BY <2>1, <2>4, <3>2 DEF SendsPiece
  <2>5. QED
    BY <1>3, <2>2, <2>3, <2>4, LacksPieceServed DEF confirmation
<1>4. CASE /\ TookPiece(start, toggle)
           /\ Never(s2c, Confirmed(toggle), Confirmed(~toggle))
           /\ IsLastSegment(call.value, start) => Stored \/ Free(s2c, Confirmed(toggle))
  <2>1. TookPiece(start, toggle)' /\ Aborts /\ UNCHANGED served
    BY <1>4, TookPieceServed
  <2>2. /\ Never(s2c', Confirmed(toggle), Confirmed(~toggle))
        /\ Free(s2c, Confirmed(toggle)) => Free(s2c', Confirmed(toggle))
    BY <1>1, <1>4, <2>1, AbortsAppended
  <2>3. Stored' = Stored /\ WritesItsValue' = WritesItsValue
    BY <2>1, ServedKept
  <2>4. QED
    BY <1>4, <2>1, <2>2, <2>3 DEF SendsPiece
<1>5. QED
  BY <1>3, <1>4 DEF SendsPiece

\* The server once the call has returned: what is left is repeated, of the same value.
LEMMA ServeWriteIsOver ==
    ASSUME ServerInv, ClientTypeOK, call # NoCall, call.op = "write", WritesItsValue,
           UNCHANGED call, ServerStep, WriteIsOver
    PROVE  WriteIsOver' /\ WritesItsValue' /\ (Stored => Stored')
<1>1. BusTypeOK
  BY DEF ServerInv
<1>2. CASE Only(c2s, {Announcement})
  BY <1>1, <1>2, AnnouncementUnderWay, AnnouncementServed, FramesKept DEF WriteIsOver
<1>3. CASE Only(c2s, {Opening})
  <2>1. OnDownloadSegmented /\ Head(c2s) = Opening /\ Only(c2s', {Opening})
    BY <1>1, <1>3, AnnouncementUnderWay
  <2>2. UNCHANGED served
    BY <2>1, OpeningServed
  <2>3. QED
    BY <2>1, <2>2, FramesKept, ServedKept DEF WriteIsOver
<1>4. ASSUME NEW start \in 0..Len(call.value), NEW toggle \in BOOLEAN,
             LacksPiece(start, toggle) \/ TookPiece(start, toggle)
      PROVE  WriteIsOver' /\ WritesItsValue' /\ (Stored => Stored')
  <2>1. /\ LacksPiece(start, toggle)' \/ TookPiece(start, toggle)'
        /\ WritesItsValue' /\ (Stored => Stored')
    <3>1. CASE LacksPiece(start, toggle)
      BY <3>1, LacksPieceServed
    <3>2. CASE TookPiece(start, toggle)
      <4>1. TookPiece(start, toggle)' /\ UNCHANGED served
        BY <3>2, TookPieceServed
      <4>2. QED
        BY <4>1, ServedKept
    <3>3. QED
      BY <1>4, <3>1, <3>2
  <2>2. start \in 0..Len(call'.value)
    OBVIOUS
  <2>3. QED
    BY <2>1, <2>2 DEF WriteIsOver
<1>5. QED
  BY <1>2, <1>3, <1>4 DEF WriteIsOver

LEMMA ServeKeepsWriteInv ==
    ASSUME ServerInv, ClientTypeOK, call # NoCall, call.op = "write",
           ServerStep, UNCHANGED <<client, call, result>>, WriteInv
    PROVE  WriteInv'
<1>1. BusTypeOK /\ s2c \in Seq(ResponseFrames)
  BY DEF ServerInv, BusTypeOK
<1>2. WritesItsValue
  BY DEF WriteInv
<1>3. CASE result # Pending
  <2>1. WriteIsOver' /\ WritesItsValue' /\ (Stored => Stored')
    BY <1>2, <1>3, ServeWriteIsOver DEF WriteInv
  <2>2. QED
    BY <1>3, <2>1 DEF WriteInv
<1>4. CASE result = Pending /\ SendsExpedited
  <2>1. OnDownloadExpedited /\ Head(c2s) = Announcement /\ Only(c2s', {Announcement})
    BY <1>1, <1>4, AnnouncementUnderWay DEF SendsExpedited
  <2>2. WritesItsValue' /\ (Stored => Stored') /\ (Stored' \/ Aborts)
    BY <1>2, <2>1, AnnouncementServed
  <2>3. Aborts /\ Only(s2c, AbortFrames) => Only(s2c', AbortFrames)
    BY <1>1, AbortsAppended
  <2>4. SendsExpedited'
    BY <1>4, <2>1, <2>2, <2>3, FramesKept DEF SendsExpedited
  <2>5. QED
    BY <1>4, <2>2, <2>4 DEF WriteInv, Pending
<1>5. CASE result = Pending /\ SendsOpening
  <2>1. OnDownloadSegmented /\ Head(c2s) = Opening /\ Only(c2s', {Opening})
    BY <1>1, <1>5, AnnouncementUnderWay DEF SendsOpening
  <2>2. /\ UNCHANGED served
        /\ \/ Aborts /\ UNCHANGED transfer
           \/ /\ s2c' = Append(s2c, EncodeDownloadResponse(call.addr))
              /\ Piecewise(0, FALSE)'
    BY <2>1, OpeningServed
  <2>3. Piecewise(0, FALSE)' \/ Only(s2c', AbortFrames)
    <3>1. UNCHANGED transfer /\ Piecewise(0, FALSE) => Piecewise(0, FALSE)'
      BY DEF Piecewise
    <3>2. Aborts /\ Only(s2c, AbortFrames) => Only(s2c', AbortFrames)
      BY <1>1, AbortsAppended
    <3>3. QED
      BY <1>5, <2>2, <3>1, <3>2 DEF SendsOpening
  <2>4. Free(s2c', Confirmed(FALSE))
    <3>1. EncodeDownloadResponse(call.addr) \notin Confirmed(FALSE)
      BY DEF Confirmed, EncodeDownloadSegmentResponse, EncodeDownloadResponse
    <3>2. QED
      BY <1>1, <1>5, <2>2, <3>1, AbortsAppended, AppendedOnly DEF SendsOpening
  <2>5. SendsOpening'
    BY <1>5, <2>1, <2>3, <2>4, FramesKept DEF SendsOpening
  <2>6. WritesItsValue' /\ Stored' = Stored
    BY <1>2, <2>2, ServedKept
  <2>7. QED
    BY <1>5, <2>5, <2>6 DEF WriteInv, Pending
<1>6. CASE result = Pending /\ SendsPieces
  <2>1. PICK start \in 0..Len(call.value) :
            client.pos = SegmentEnd(call.value, start) /\ SendsPiece(start, client.toggle)
    BY <1>6 DEF SendsPieces
  <2>2. client.toggle \in BOOLEAN
    BY <1>6 DEF ClientTypeOK, ClientStates, SendsPieces
  <2>3. SendsPiece(start, client.toggle)' /\ WritesItsValue' /\ (Stored => Stored')
    BY <1>2, <2>1, <2>2, ServeSendsPiece
  <2>4. SendsPieces'
    BY <1>6, <2>1, <2>3 DEF SendsPieces
  <2>5. QED
    BY <1>6, <2>3, <2>4 DEF WriteInv, Pending
<1>7. QED
  BY <1>3, <1>4, <1>5, <1>6 DEF WriteInv

-----------------------------------------------------------------------------
(* The client in a write                                                   *)

\* The client takes the oldest response, in the state it is in.
LEMMA OldestAnswered ==
    ASSUME BusTypeOK, ClientTypeOK, Respond
    PROVE  /\ result = Pending /\ UNCHANGED <<call, transfer, served, od>>
           /\ s2c \in Seq(ResponseFrames) /\ s2c # <<>> /\ s2c' = Tail(s2c)
           /\ Resp = Head(s2c) /\ Resampled(s2c, s2c')
           /\ \/ \E code : AbortCall(code)
              \/ /\ Resp \notin AbortFrames
                 /\ client.state = "DownloadExpedited" => OnDownloadExpeditedResponse
                 /\ client.state = "DownloadInit" => OnDownloadInit
                 /\ client.state = "DownloadSeg" => OnDownloadSeg
                 /\ client.state = "UploadInit" => OnUploadInit
                 /\ client.state = "UploadSeg" => OnUploadSeg
<1>1. /\ result = Pending /\ OnResponse /\ s2c # <<>> /\ s2c' = Tail(s2c) /\ UNCHANGED call
      /\ UNCHANGED <<transfer, served, od>>
  BY ResponseTaken DEF Respond, serverVars
<1>2. s2c \in Seq(ResponseFrames) /\ Resp = Head(s2c)
  BY DEF BusTypeOK, Resp
<1>3. Resampled(s2c, s2c')
  BY <1>1, <1>2, Resampling
<1>4. CASE OnAbort
  BY <1>1, <1>2, <1>3, <1>4 DEF OnAbort
<1>5. CASE ~OnAbort
  <2>1. ~IsAbort
    BY <1>1, <1>5
       DEF OnResponse, OnDownloadExpeditedResponse, OnDownloadInit, OnDownloadSeg,
           OnUploadInit, OnUploadSeg
  <2>2. Resp \notin AbortFrames
    BY <2>1 DEF IsAbort, AbortFrames
  <2>3. /\ client.state = "DownloadExpedited" => OnDownloadExpeditedResponse
        /\ client.state = "DownloadInit" => OnDownloadInit
        /\ client.state = "DownloadSeg" => OnDownloadSeg
        /\ client.state = "UploadInit" => OnUploadInit
        /\ client.state = "UploadSeg" => OnUploadSeg
    BY <1>1, <1>5
       DEF OnResponse, OnDownloadExpeditedResponse, OnDownloadInit, OnDownloadSeg,
           OnUploadInit, OnUploadSeg, Receive
  <2>4. QED
    BY <1>1, <1>2, <1>3, <2>2, <2>3
<1>6. QED
  BY <1>4, <1>5

\* A write that returns leaves its frames behind.
LEMMA WriteReturns ==
    ASSUME BusTypeOK, BusTypeOK', UNCHANGED <<call, transfer, served>>,
           IsValue(call.type, call.value), WritesItsValue, WriteIsOver,
           NEW outcome, Return(outcome), outcome.kind \in {"Aborted", "Written", "Io"},
           outcome.kind = "Written" => Stored
    PROVE  WriteInv'
<1>1. c2s' = c2s /\ result' = outcome
  BY DEF Return
<1>2. Resampled(c2s, c2s')
  BY <1>1, Resampling DEF BusTypeOK
<1>3. WriteIsOver'
  BY <1>2, WriteIsOverKept
<1>4. WritesItsValue' /\ Stored' = Stored
  BY ServedKept
<1>5. result' # Pending
  BY <1>1 DEF Pending
<1>6. QED
  BY <1>1, <1>3, <1>4, <1>5 DEF WriteInv

LEMMA AbortReturns ==
    ASSUME BusTypeOK, BusTypeOK', UNCHANGED <<call, transfer, served>>,
           WriteInv, WriteIsOver, NEW code, AbortCall(code)
    PROVE  WriteInv'
BY WriteReturns DEF WriteInv, AbortCall

\* The client's next piece is one that the server lacks, unless the transfer is over.
LEMMA NextPieceSent ==
    ASSUME BusTypeOK, call.value \in Seq(Byte), UNCHANGED <<call, transfer>>,
           NEW start \in 0..Len(call.value), NEW toggle \in BOOLEAN,
           TookPiece(start, toggle), ~IsLastSegment(call.value, start),
           NEW next, next = SegmentEnd(call.value, start),
           c2s' = Append(c2s, Piece(next, ~toggle))
    PROVE  LacksPiece(next, ~toggle)' \/ TookPiece(next, ~toggle)'
<1> DEFINE v == call.value
           f == Piece(next, ~toggle)
<1>1. next \in 0..Len(v) /\ next # 0
  <2>1. next \in 0..Len(v)
    BY NextSegment
  <2>2. next # 0
    BY SdoBusAssumption DEF SegmentEnd, Min2, IsLastSegment
  <2>3. QED
    BY <2>1, <2>2
<1>2. c2s \in Seq(RequestFrames) /\ (~toggle) \in BOOLEAN /\ (~~toggle) = toggle
  BY Toggled, Zenon DEF BusTypeOK
<1>3. /\ f \in SegmentsOf(~toggle)
      /\ Piece(start, toggle) \in SegmentsOf(toggle)
      /\ SegmentsOf(~toggle) \subseteq SegmentFrames
  BY <1>1, <1>2, PieceTyped DEF Piece
<1>4. Only(c2s', SegmentFrames)
  BY <1>2, <1>3, AppendedOnly DEF TookPiece
<1>5. CASE transfer.kind = "Download"
  <2>1. Piecewise(next, ~toggle) /\ Only(c2s, {Piece(start, toggle)})
    BY <1>5 DEF TookPiece
  <2>2. BeforePiece(next, ~toggle) = SegmentsOf(toggle)
    BY <1>1, <1>2 DEF BeforePiece
  <2>3. Only(c2s, SegmentsOf(toggle))
    BY <1>3, <2>1 DEF Only
  <2>4. Only(c2s', SegmentsOf(toggle) \cup {f})
    <3>1. Only(c2s, SegmentsOf(toggle) \cup {f})
      BY <2>3 DEF Only
    <3>2. QED
      BY <1>2, <3>1, AppendedOnly
  <2>5. Never(c2s', {f}, SegmentsOf(toggle))
    <3>1. f \notin SegmentsOf(toggle)
      BY <1>2, <1>3 DEF SegmentsOf
    <3>2. Free(c2s, {f})
      BY <2>3, <3>1 DEF Only, Free
    <3>3. Never(c2s, {f}, SegmentsOf(toggle))
      BY <3>2, FreeThenNever
    <3>4. QED
      BY <1>2, <3>1, <3>3, AppendedNever
  <2>6. Piecewise(next, ~toggle)'
    BY <2>1 DEF Piecewise
  <2>7. LacksPiece(next, ~toggle)'
    BY <1>1, <2>2, <2>4, <2>5, <2>6, FramesKept DEF LacksPiece
  <2>8. QED
    BY <2>7
<1>6. CASE transfer.kind # "Download"
  <2>1. TookPiece(next, ~toggle)'
    BY <1>4, <1>6 DEF TookPiece
  <2>2. QED
    BY <2>1
<1>7. QED
  BY <1>5, <1>6

LEMMA RespondExpedited ==
    ASSUME BusTypeOK, BusTypeOK', ClientTypeOK, Respond, WriteInv, SendsExpedited
    PROVE  WriteInv'
<1>1. /\ UNCHANGED <<call, transfer, served>>
      /\ s2c \in Seq(ResponseFrames) /\ s2c # <<>> /\ Resp = Head(s2c)
      /\ (\E code : AbortCall(code)) \/ (Resp \notin AbortFrames /\ OnDownloadExpeditedResponse)
  BY OldestAnswered DEF SendsExpedited
<1>2. WriteIsOver
  BY DEF SendsExpedited, WriteIsOver
<1>3. CASE \E code : AbortCall(code)
  BY <1>1, <1>2, <1>3, AbortReturns
<1>4. CASE Resp \notin AbortFrames /\ Return([kind |-> "Written"])
  <2>1. Stored
    BY <1>1, <1>4, OldestFrame DEF SendsExpedited
  <2>2. QED
    BY <1>1, <1>2, <1>4, <2>1, WriteReturns DEF WriteInv
<1>5. QED
  BY <1>1, <1>3, <1>4 DEF OnDownloadExpeditedResponse

LEMMA RespondOpening ==
    ASSUME BusTypeOK, BusTypeOK', ClientTypeOK, Respond, call # NoCall, call.op = "write",
           WriteInv, SendsOpening
    PROVE  WriteInv'
<1> DEFINE f == Piece(0, FALSE)
<1>1. /\ UNCHANGED <<call, transfer, served>> /\ result = Pending
      /\ s2c \in Seq(ResponseFrames) /\ s2c # <<>> /\ Resp = Head(s2c) /\ Resampled(s2c, s2c')
      /\ (\E code : AbortCall(code)) \/ (Resp \notin AbortFrames /\ OnDownloadInit)
  BY OldestAnswered DEF SendsOpening
<1>2. WriteIsOver
  BY DEF SendsOpening, WriteIsOver
<1>3. CASE \E code : AbortCall(code)
  BY <1>1, <1>2, <1>3, AbortReturns
<1>4. CASE Resp \notin AbortFrames /\ SendDownloadSegment(client.data, 0, FALSE)
  <2>1. client.data = call.value /\ call.value \in Seq(Byte) /\ c2s \in Seq(RequestFrames)
    BY WriteTyped DEF SendsOpening, BusTypeOK
  <2>2. /\ client' = [state |-> "DownloadSeg", data |-> call.value,
                      pos |-> SegmentEnd(call.value, 0), toggle |-> FALSE]
        /\ c2s' = Append(c2s, f) /\ result' = Pending
    BY <1>1, <1>4, <2>1 DEF SendDownloadSegment, Send, Piece
  <2>3. Piecewise(0, FALSE)'
    <3>1. Piecewise(0, FALSE)
      BY <1>1, <1>4, OldestFrame DEF SendsOpening
    <3>2. QED
      BY <1>1, <3>1 DEF Piecewise
  <2>4. BeforePiece(0, FALSE) = {Opening} /\ f # Opening
    BY WriteFramesDiffer DEF BeforePiece
  <2>5. Only(c2s', {Opening} \cup {f})
    <3>1. Only(c2s, {Opening} \cup {f})
      BY DEF SendsOpening, Only
    <3>2. QED
      BY <2>1, <2>2, <3>1, AppendedOnly
  <2>6. Never(c2s', {f}, {Opening})
    <3>1. Free(c2s, {f})
      BY <2>4 DEF SendsOpening, Only, Free
    <3>2. QED
      BY <2>1, <2>2, <2>4, <3>1, FreeThenNever, AppendedNever
  <2>7. LacksPiece(0, FALSE)'
    BY <1>1, <2>3, <2>4, <2>5, <2>6, FramesKept DEF LacksPiece
  <2>8. Free(s2c', Confirmed(FALSE))
    BY <1>1, ResampledOnly DEF SendsOpening
  <2>9. SendsPieces'
    <3>1. /\ client'.state = "DownloadSeg" /\ client'.data = call'.value
          /\ client'.pos = SegmentEnd(call'.value, 0) /\ client'.toggle = FALSE
      BY <1>1, <2>2
    <3>2. SendsPiece(0, client.toggle)'
      BY <2>7, <2>8, <3>1 DEF SendsPiece
    <3>3. 0 \in 0..Len(call'.value)
      BY <1>1, <2>1
    <3>4. QED
      BY <3>1, <3>2, <3>3 DEF SendsPieces
  <2>10. WritesItsValue' /\ Stored' = Stored
    BY <1>1, ServedKept DEF WriteInv
  <2>11. QED
    BY <1>1, <2>2, <2>9, <2>10 DEF WriteInv, Pending
<1>5. QED
  BY <1>1, <1>3, <1>4 DEF OnDownloadInit

LEMMA RespondPieces ==
    ASSUME BusTypeOK, BusTypeOK', ClientTypeOK, Respond, call # NoCall, call.op = "write",
           WriteInv, SendsPieces
    PROVE  WriteInv'
<1> DEFINE v == call.value
<1>1. /\ UNCHANGED <<call, transfer, served>> /\ result = Pending
      /\ s2c \in Seq(ResponseFrames) /\ s2c # <<>> /\ Resp = Head(s2c) /\ s2c' = Tail(s2c)
      /\ (\E code : AbortCall(code)) \/ OnDownloadSeg
  BY OldestAnswered DEF SendsPieces
<1>2. v \in Seq(Byte) /\ client.toggle \in BOOLEAN /\ client.data = v
  BY WriteTyped DEF ClientTypeOK, ClientStates, SendsPieces
<1>3. PICK toggle \in BOOLEAN : toggle = client.toggle
  BY <1>2
<1>4. PICK start \in 0..Len(v) : client.pos = SegmentEnd(v, start) /\ SendsPiece(start, toggle)
  BY <1>3 DEF SendsPieces
<1>5. WriteIsOver
  BY <1>2, <1>4 DEF SendsPiece, WriteIsOver
<1>6. CASE \E code : AbortCall(code)
  BY <1>1, <1>5, <1>6, AbortReturns
<1>7. ASSUME Resp.cs = "DownloadSegmentResponse", Resp.toggle = toggle
      PROVE  /\ TookPiece(start, toggle)
             /\ Free(s2c', Confirmed(~toggle))
             /\ IsLastSegment(v, start) => Stored
  <2>1. Resp \in Confirmed(toggle)
    <3>1. Resp \in ResponseFrames
      BY <1>1
    <3>2. QED
      BY <1>7, <3>1
         DEF ResponseFrames, SegmentFrames, AbortFrames, Confirmed, EncodeDownloadSegmentResponse
  <2>2. ~Free(s2c, Confirmed(toggle))
    BY <1>1, <2>1, OldestFrame
  <2>3. QED
    BY <1>1, <1>4, <2>1, <2>2, OldestFrame DEF SendsPiece
<1>8. /\ SegmentEnd(v, start) \in 0..Len(v)
      /\ IsLastSegment(v, start) <=> SegmentEnd(v, start) = Len(v)
  BY <1>2, NextSegment
<1>9. CASE /\ Resp.cs = "DownloadSegmentResponse" /\ Resp.toggle = toggle
           /\ client.pos >= Len(v) /\ Return([kind |-> "Written"])
  <2>1. Stored
    BY <1>2, <1>4, <1>7, <1>8, <1>9
  <2>2. QED
    BY <1>1, <1>5, <1>9, <2>1, WriteReturns DEF WriteInv
<1>10. CASE /\ Resp.cs = "DownloadSegmentResponse" /\ Resp.toggle = toggle
           /\ client.pos < Len(v) /\ SendDownloadSegment(v, client.pos, ~client.toggle)
  <2>1. PICK next \in 0..Len(v) : next = SegmentEnd(v, start)
    BY <1>8
  <2>2. /\ client' = [state |-> "DownloadSeg", data |-> v,
                      pos |-> SegmentEnd(v, next), toggle |-> ~toggle]
        /\ c2s' = Append(c2s, Piece(next, ~toggle)) /\ result' = Pending
    BY <1>1, <1>3, <1>4, <1>10, <2>1 DEF SendDownloadSegment, Send, Piece
  <2>3. ~IsLastSegment(v, start)
    BY <1>2, <1>4, <1>8, <1>10
  <2>4. PICK other \in BOOLEAN : other = ~toggle
    BY <1>2, Toggled, Zenon
  <2>5. LacksPiece(next, other)' \/ TookPiece(next, other)'
    BY <1>1, <1>2, <1>7, <1>10, <2>1, <2>2, <2>3, <2>4, NextPieceSent
  <2>6. Free(s2c', Confirmed(other)) /\ Never(s2c', Confirmed(other), Confirmed(~other))
    BY <1>7, <1>10, <2>4, FreeThenNever
  <2>7. client'.toggle = other /\ client'.state = "DownloadSeg" /\ client'.data = call'.value
        /\ client'.pos = SegmentEnd(call'.value, next)
    BY <1>1, <2>2, <2>4
  <2>8. SendsPiece(next, client.toggle)'
    BY <2>5, <2>6, <2>7 DEF SendsPiece
  <2>9. SendsPieces'
    BY <1>1, <2>7, <2>8 DEF SendsPieces
  <2>10. WritesItsValue' /\ Stored' = Stored
    BY <1>1, ServedKept DEF WriteInv
  <2>11. QED
    BY <1>1, <2>2, <2>9, <2>10 DEF WriteInv, Pending
<1>11. QED
  BY <1>1, <1>2, <1>3, <1>6, <1>9, <1>10 DEF OnDownloadSeg

LEMMA RespondKeepsWriteInv ==
    ASSUME BusTypeOK, BusTypeOK', ClientTypeOK, Respond, call # NoCall, call.op = "write",
           WriteInv
    PROVE  WriteInv'
<1>1. result = Pending
  BY OldestAnswered
<1>2. QED
  BY <1>1, RespondExpedited, RespondOpening, RespondPieces DEF WriteInv

-----------------------------------------------------------------------------
(* The server under a read                                                 *)

\* The opening of a read is answered, again if its frame is repeated, or refused.
LEMMA StartingServed ==
    ASSUME ServerInv, ClientTypeOK, call # NoCall, OnUploadInitiate,
           Head(c2s) \in Starting, UNCHANGED call, ReadsOnly
    PROVE  /\ ReadsOnly' /\ \A v : Fetched(v) => Fetched(v)'
           /\ \/ Aborts /\ UNCHANGED transfer
              \/ \E v \in Seq(Byte) :
                    /\ Fetched(v)'
                    /\ s2c' = Append(s2c, EncodeUploadExpeditedResponse(call.addr, v))
                    /\ UNCHANGED transfer
              \/ \E v \in Seq(Byte) :
                    /\ Fetched(v)'
                    /\ s2c' = Append(s2c, EncodeUploadInitiateSegmentedResponse(call.addr, Len(v)))
                    /\ transfer' = Upload(call.addr, v, 0, FALSE)
<1> DEFINE req == Head(c2s)
<1>1. req.addr = call.addr /\ call.addr \in Address
  BY DEF Starting, EncodeUploadRequest, ClientTypeOK, Calls, NoCall
<1>2. CASE UploadTarget(req) # "ok"
  <2>1. UploadTarget(req) \in AbortCode
    BY <1>2 DEF UploadTarget, AbortCode
  <2>2. ReplyAbort(call.addr, UploadTarget(req)) /\ UNCHANGED <<transfer, served>>
    BY <1>1, <1>2 DEF OnUploadInitiate
  <2>3. Aborts
    BY <1>1, <2>1, <2>2, RefusalAborts
  <2>4. QED
    BY <2>2, <2>3, ServedKept
<1>3. CASE UploadTarget(req) = "ok"
  <2> DEFINE v == od[call.addr]
             a == Accessed("read", call.addr, v)
  <2>1. call.addr \in Objects
    BY <1>1, <1>3 DEF UploadTarget
  <2>2. v \in Seq(Byte) /\ served \in Seq(Accesses)
    BY <2>1 DEF ServerInv, ServerTypeOK
  <2>3. served' = Append(served, a) /\ a.op = "read"
    BY <1>1, <1>3 DEF OnUploadInitiate, ServedRead, Accessed
  <2> HIDE DEF a
  <2>4. ReadsOnly' /\ \A w : Fetched(w) => Fetched(w)'
    BY <2>2, <2>3, ServedGrows
  <2>5. PICK w \in Seq(Byte) : w = v
    BY <2>2
  <2>6. Fetched(w)'
    BY <2>2, <2>3, <2>5, ServedGrows DEF a
  <2>7. \/ /\ Reply(EncodeUploadExpeditedResponse(call.addr, w)) /\ UNCHANGED transfer
        \/ /\ Reply(EncodeUploadInitiateSegmentedResponse(call.addr, Len(w)))
           /\ transfer' = Upload(call.addr, w, 0, FALSE)
    BY <1>1, <1>3, <2>5 DEF OnUploadInitiate
  <2>8. QED
    BY <2>4, <2>6, <2>7 DEF Reply
<1>4. QED
  BY <1>2, <1>3

\* A request out of turn breaks the transfer off.
LEMMA AskingRefused ==
    ASSUME ServerInv, OnUploadSegment, Uploading => ~InSequence(Head(c2s))
    PROVE  Aborts /\ transfer' = NoTransfer /\ UNCHANGED served
<1>1. Uploading => transfer.addr \in Address
  BY TransferFields, SdoServerAssumption DEF Uploading
<1>2. "CommandInvalid" \in AbortCode /\ "ToggleBitNotAlternated" \in AbortCode
  BY DEF AbortCode
<1>3. CASE ~Uploading
  BY <1>2, <1>3, RefusalAborts DEF OnUploadSegment
<1>4. CASE Uploading
  BY <1>1, <1>2, <1>4, RefusalAborts DEF OnUploadSegment
<1>5. QED
  BY <1>3, <1>4

\* The requests of a read, and their handlers.
LEMMA ReadRequestUnderWay ==
    ASSUME BusTypeOK, ServerStep, Only(c2s, ReadRequests)
    PROVE  /\ Only(c2s', ReadRequests)
           /\ Head(c2s) \in ReadRequests
           /\ Head(c2s) \in Starting => OnUploadInitiate
           /\ \A toggle : Head(c2s) \in Asking(toggle) =>
                 OnUploadSegment /\ Head(c2s).toggle = toggle
<1>1. c2s \in Seq(RequestFrames) /\ c2s # <<>> /\ c2s' = Tail(c2s) /\ Resampled(c2s, c2s')
  BY OldestServed
<1>2. Only(c2s', ReadRequests) /\ Head(c2s) \in ReadRequests
  BY <1>1, OldestFrame, ResampledOnly
<1>3. Head(c2s) \in Starting => OnUploadInitiate
  <2>1. Head(c2s) \in Starting => Head(c2s).cs = "UploadInitiate"
    BY DEF Starting, EncodeUploadRequest
  <2>2. QED
    BY <2>1, OldestServed
<1>4. ASSUME NEW toggle, Head(c2s) \in Asking(toggle)
      PROVE  OnUploadSegment /\ Head(c2s).toggle = toggle
  <2>1. Head(c2s).cs = "UploadSegment" /\ Head(c2s).toggle = toggle
    BY <1>4 DEF Asking, EncodeUploadSegmentRequest
  <2>2. QED
    BY <2>1, OldestServed
<1>5. QED
  BY <1>2, <1>3, <1>4

\* What is said of the accesses, whatever the state of the read.
LEMMA ServeReadsOnly ==
    ASSUME ServerInv, ClientTypeOK, call # NoCall, ServerStep, UNCHANGED call,
           ReadsOnly, Only(c2s, ReadRequests)
    PROVE  ReadsOnly' /\ Only(c2s', ReadRequests) /\ \A v : Fetched(v) => Fetched(v)'
<1>1. BusTypeOK
  BY DEF ServerInv
<1>2. Head(c2s) \in Starting \/ OnUploadSegment
  BY <1>1, ReadRequestUnderWay DEF ReadRequests
<1>3. CASE OnUploadSegment
  <2>1. UNCHANGED served
    BY <1>3 DEF OnUploadSegment
  <2>2. QED
    BY <1>1, <2>1, ServedKept, ReadRequestUnderWay
<1>4. CASE Head(c2s) \in Starting
  BY <1>1, <1>4, StartingServed, ReadRequestUnderWay
<1>5. QED
  BY <1>2, <1>3, <1>4

\* An abort is no segment and no answer to the opening.
LEMMA AbortsAppendedToRead ==
    ASSUME BusTypeOK, Aborts, NEW toggle
    PROVE  /\ Free(s2c, SegmentFrames) => Free(s2c', SegmentFrames)
           /\ Free(s2c, SegmentsOf(toggle)) => Free(s2c', SegmentsOf(toggle))
           /\ \A F : Never(s2c, F, SegmentsOf(toggle)) => Never(s2c', F, SegmentsOf(toggle))
           /\ \A i \in DOMAIN s2c' : s2c'[i].cs = "Abort" \/ (i \in DOMAIN s2c /\ s2c'[i] = s2c[i])
<1>1. PICK g \in AbortFrames : s2c' = Append(s2c, g)
  BY DEF Aborts
<1>2. g \notin SegmentFrames /\ g \notin SegmentsOf(toggle) /\ g.cs = "Abort"
  BY DEF SegmentsOf, SegmentFrames, AbortFrames
<1>3. s2c \in Seq(ResponseFrames)
  BY DEF BusTypeOK
<1>4. \A i \in DOMAIN s2c' : s2c'[i] = g \/ (i \in DOMAIN s2c /\ s2c'[i] = s2c[i])
  BY <1>1, <1>3, AppendedElements
<1>5. \A F : Never(s2c, F, SegmentsOf(toggle)) => Never(s2c', F, SegmentsOf(toggle))
  BY <1>1, <1>2, <1>3, AppendedNever
<1>6. QED
  BY <1>1, <1>2, <1>3, <1>4, <1>5, AppendedOnly

\* A piece that the server owes is still to be asked for, of the value or of the one
\* that a repeated opening fetched anew; or it is given, or the transfer broken off.
LEMMA OwesPieceServed ==
    ASSUME ServerInv, ClientTypeOK, call # NoCall, ServerStep, UNCHANGED call,
           ReadsOnly, Only(c2s, ReadRequests),
           NEW v \in Seq(Byte), NEW start \in 0..Len(v), NEW toggle \in BOOLEAN,
           OwesPiece(v, start, toggle)
    PROVE  \/ OwesPiece(v, start, toggle)' \/ GavePiece(v, start, toggle)'
           \/ /\ start = 0
              /\ \E w \in Seq(Byte) : Fetched(w)' /\ OwesPiece(w, start, toggle)'
<1> DEFINE f      == Head(c2s)
           before == BeforeAsking(start, toggle)
<1>1. BusTypeOK /\ BusTypeOK' /\ s2c \in Seq(ResponseFrames)
  BY ServerStepKeepsInv DEF ServerInv, BusTypeOK
<1>2. c2s \in Seq(RequestFrames) /\ c2s # <<>> /\ c2s' = Tail(c2s) /\ Resampled(c2s, c2s')
  BY <1>1, OldestServed
<1>3. Only(c2s', before \cup Asking(toggle))
  BY <1>2, ResampledOnly DEF OwesPiece
<1>4. Never(c2s', Asking(toggle), before)
  <2>1. Never(c2s, Asking(toggle), before)
    BY DEF OwesPiece
  <2>2. QED
    BY <1>1, <1>2, <2>1, ReadFramesDiffer, ResampledNever DEF BusTypeOK
<1>5. (start = 0 => toggle = FALSE) /\ Free(s2c, SegmentsOf(toggle))
  BY DEF OwesPiece
<1>6. f \in before \/ f \in Asking(toggle)
  BY <1>2, OldestFrame DEF OwesPiece
<1>7. transfer = Upload(call.addr, v, start, toggle)
  BY DEF OwesPiece
<1>8. /\ transfer.kind = "Upload" /\ transfer.data = v /\ transfer.pos = start
      /\ transfer.toggle = toggle
  BY <1>7 DEF Upload
<1>9. CASE f \in before /\ start = 0
  <2>1. f \in Starting /\ OnUploadInitiate
    BY <1>1, <1>9, ReadRequestUnderWay DEF BeforeAsking
  <2>2. \/ Aborts /\ UNCHANGED transfer
        \/ \E w \in Seq(Byte) :
              /\ s2c' = Append(s2c, EncodeUploadExpeditedResponse(call.addr, w))
              /\ UNCHANGED transfer
        \/ \E w \in Seq(Byte) :
              /\ Fetched(w)'
              /\ s2c' = Append(s2c, EncodeUploadInitiateSegmentedResponse(call.addr, Len(w)))
              /\ transfer' = Upload(call.addr, w, 0, FALSE)
    BY <2>1, StartingServed
  <2>3. \A w : /\ EncodeUploadExpeditedResponse(call.addr, w) \notin SegmentsOf(toggle)
               /\ EncodeUploadInitiateSegmentedResponse(call.addr, Len(w)) \notin SegmentsOf(toggle)
    BY DEF SegmentsOf, SegmentFrames, EncodeUploadExpeditedResponse,
           EncodeUploadInitiateSegmentedResponse
  <2>4. Free(s2c', SegmentsOf(toggle))
    BY <1>1, <1>5, <2>2, <2>3, AppendedOnly, AbortsAppendedToRead
  <2>5. ASSUME NEW w, transfer' = Upload(call.addr, w, start, toggle)
        PROVE  OwesPiece(w, start, toggle)'
    BY <1>3, <1>4, <1>5, <2>4, <2>5, FramesKept DEF OwesPiece
  <2>6. QED
    BY <1>5, <1>7, <1>9, <2>2, <2>5
<1>10. CASE f \in before /\ start # 0
  <2>1. before = Asking(~toggle)
    BY <1>10 DEF BeforeAsking
  <2>2. OnUploadSegment /\ f.toggle = ~toggle
    BY <1>1, <1>10, <2>1, ReadRequestUnderWay
  <2>3. ~InSequence(f)
    BY <1>8, <2>2 DEF InSequence
  <2>4. Aborts /\ transfer' = NoTransfer
    BY <2>2, <2>3, AskingRefused
  <2>5. Free(s2c', SegmentsOf(toggle))
    BY <1>1, <1>5, <2>4, AbortsAppendedToRead
  <2>6. Only(c2s', Asking(FALSE) \cup Asking(TRUE))
    BY <1>3, <2>1 DEF Only
  <2>7. GavePiece(v, start, toggle)'
    BY <2>4, <2>5, <2>6, FreeThenNever DEF GavePiece, NoTransfer, Free
  <2>8. QED
    BY <2>7
<1>11. CASE f \in Asking(toggle)
  <2> DEFINE g == EncodeDataSegment(v, start, toggle)
  <2>1. OnUploadSegment /\ f.toggle = toggle
    BY <1>1, <1>11, ReadRequestUnderWay
  <2>2. Uploading /\ InSequence(f)
    BY <1>8, <2>1 DEF Uploading, InSequence
  <2>3. /\ s2c' = Append(s2c, g)
        /\ transfer' = IF IsLastSegment(v, start) THEN NoTransfer
                       ELSE [transfer EXCEPT !.pos = SegmentEnd(v, start), !.toggle = ~toggle]
    BY <1>8, <2>1, <2>2 DEF OnUploadSegment, Reply
  <2>4. transfer'.kind = "Upload" =>
            transfer' = Upload(call.addr, v, SegmentEnd(v, start), ~toggle)
    BY <1>7, <2>3 DEF Upload, NoTransfer
  <2>5. Only(c2s', Asking(toggle))
    <3>1. Free(c2s', before)
      BY <1>2, <1>11, OldestFrame DEF OwesPiece
    <3>2. QED
      BY <1>3, <3>1 DEF Only, Free
  <2>6. Only(c2s', Asking(FALSE) \cup Asking(TRUE))
    <3>1. Asking(toggle) \subseteq Asking(FALSE) \cup Asking(TRUE)
      BY DEF Asking
    <3>2. QED
      BY <2>5, <3>1, FreeThenNever
  <2>7. \A i \in DOMAIN s2c' : s2c'[i] \in SegmentsOf(toggle) => s2c'[i] = g
    BY <1>1, <1>5, <2>3, AppendedElements DEF Free
  <2>8. Never(s2c', SegmentsOf(toggle), SegmentsOf(~toggle))
    <3>1. g \notin SegmentsOf(~toggle)
      BY PieceTyped, ReadFramesDiffer
    <3>2. Never(s2c, SegmentsOf(toggle), SegmentsOf(~toggle))
      BY <1>5, FreeThenNever
    <3>3. QED
      BY <1>1, <2>3, <3>1, <3>2, AppendedNever
  <2>9. GavePiece(v, start, toggle)'
    BY <2>4, <2>5, <2>6, <2>7, <2>8 DEF GavePiece
  <2>10. QED
    BY <2>9
<1>12. QED
  BY <1>6, <1>9, <1>10, <1>11

\* Once the piece is given the server refuses whatever request is repeated.
LEMMA GavePieceServed ==
    ASSUME ServerInv, ServerStep, UNCHANGED call, Only(c2s, ReadRequests),
           NEW v, NEW start, NEW toggle \in BOOLEAN, GavePiece(v, start, toggle)
    PROVE  GavePiece(v, start, toggle)'
<1> DEFINE f == Head(c2s)
<1>1. BusTypeOK
  BY DEF ServerInv
<1>2. c2s \in Seq(RequestFrames) /\ c2s # <<>> /\ c2s' = Tail(c2s) /\ Resampled(c2s, c2s')
  BY <1>1, OldestServed
<1>3. Only(c2s', Asking(FALSE) \cup Asking(TRUE)) /\ f \in Asking(FALSE) \cup Asking(TRUE)
  BY <1>2, OldestFrame, ResampledOnly DEF GavePiece
<1>4. OnUploadSegment
  BY <1>1, <1>3, ReadRequestUnderWay
<1>5. Uploading => ~InSequence(f)
  <2> SUFFICES ASSUME Uploading PROVE ~InSequence(f)
    OBVIOUS
  <2>1. transfer.toggle = ~toggle
    BY DEF GavePiece, Uploading, Upload
  <2>2. f.toggle = toggle
    <3>1. f \in Asking(toggle)
      BY <1>2, OldestFrame DEF GavePiece, Uploading
    <3>2. QED
      BY <1>1, <3>1, ReadRequestUnderWay
  <2>3. QED
    BY <2>1, <2>2 DEF InSequence
<1>6. Aborts /\ transfer' = NoTransfer
  BY <1>4, <1>5, AskingRefused
<1>7. /\ Never(s2c', SegmentsOf(toggle), SegmentsOf(~toggle))
      /\ \A i \in DOMAIN s2c' :
            s2c'[i] \in SegmentsOf(toggle) => s2c'[i] = EncodeDataSegment(v, start, toggle)
  <2>1. \A i \in DOMAIN s2c' : s2c'[i].cs = "Abort" \/ (i \in DOMAIN s2c /\ s2c'[i] = s2c[i])
    BY <1>1, <1>6, AbortsAppendedToRead
  <2>2. \A g \in SegmentsOf(toggle) : g.cs # "Abort"
    BY DEF SegmentsOf, SegmentFrames
  <2>3. Never(s2c', SegmentsOf(toggle), SegmentsOf(~toggle))
    BY <1>1, <1>6, AbortsAppendedToRead DEF GavePiece
  <2>4. QED
    BY <2>1, <2>2, <2>3 DEF GavePiece
<1>8. QED
  BY <1>3, <1>6, <1>7 DEF GavePiece, NoTransfer

LEMMA AsksOpeningServed ==
    ASSUME ServerInv, ClientTypeOK, call # NoCall, ServerStep, UNCHANGED <<call, client>>,
           ReadsOnly, Only(c2s, ReadRequests), AsksOpening
    PROVE  AsksOpening'
<1>1. BusTypeOK /\ s2c \in Seq(ResponseFrames)
  BY DEF ServerInv, BusTypeOK
<1>2. c2s \in Seq(RequestFrames) /\ c2s # <<>> /\ c2s' = Tail(c2s) /\ Resampled(c2s, c2s')
  BY <1>1, OldestServed
<1>3. Head(c2s) \in Starting /\ Only(c2s', Starting)
  BY <1>2, OldestFrame, ResampledOnly DEF AsksOpening
<1>4. OnUploadInitiate
  BY <1>1, <1>3, ReadRequestUnderWay
<1>5. /\ \A v : Fetched(v) => Fetched(v)'
      /\ \/ Aborts /\ UNCHANGED transfer
         \/ \E v \in Seq(Byte) :
               /\ Fetched(v)'
               /\ s2c' = Append(s2c, EncodeUploadExpeditedResponse(call.addr, v))
               /\ UNCHANGED transfer
         \/ \E v \in Seq(Byte) :
               /\ Fetched(v)'
               /\ s2c' = Append(s2c, EncodeUploadInitiateSegmentedResponse(call.addr, Len(v)))
               /\ transfer' = Upload(call.addr, v, 0, FALSE)
  BY <1>3, <1>4, StartingServed
<1>6. \A v : /\ EncodeUploadExpeditedResponse(call.addr, v) \notin SegmentFrames
             /\ EncodeUploadExpeditedResponse(call.addr, v).cs = "UploadExpedited"
             /\ EncodeUploadExpeditedResponse(call.addr, v).data = v
  BY DEF SegmentFrames, EncodeUploadExpeditedResponse
<1>7. \A n : /\ EncodeUploadInitiateSegmentedResponse(call.addr, n) \notin SegmentFrames
             /\ EncodeUploadInitiateSegmentedResponse(call.addr, n).cs = "UploadSegmented"
  BY DEF SegmentFrames, EncodeUploadInitiateSegmentedResponse
<1>8. Free(s2c', SegmentFrames)
  <2>1. Free(s2c, SegmentFrames)
    BY DEF AsksOpening
  <2>2. CASE Aborts
    BY <1>1, <2>1, <2>2, AbortsAppendedToRead
  <2>3. CASE ~Aborts
    <3>1. PICK g : g \notin SegmentFrames /\ s2c' = Append(s2c, g)
      BY <1>5, <1>6, <1>7, <2>3
    <3>2. QED
      BY <1>1, <2>1, <3>1, AppendedOnly
  <2>4. QED
    BY <2>2, <2>3
<1>9. ASSUME NEW i \in DOMAIN s2c
      PROVE  /\ s2c[i].cs = "UploadExpedited" => Fetched(s2c[i].data)
             /\ s2c[i].cs = "UploadSegmented" =>
                   \E v \in Seq(Byte) : Fetched(v) /\ transfer = Upload(call.addr, v, 0, FALSE)
  BY DEF AsksOpening
<1> DEFINE Backed ==
        /\ \A i \in DOMAIN s2c' : s2c'[i].cs = "UploadExpedited" =>
              \E v : v = s2c'[i].data /\ Fetched(v)'
        /\ \A i \in DOMAIN s2c' : s2c'[i].cs = "UploadSegmented" =>
              \E v \in Seq(Byte) : Fetched(v)' /\ transfer' = Upload(call.addr, v, 0, FALSE)
<1>10. Backed
  <2>1. CASE Aborts /\ UNCHANGED transfer
    <3>1. \A i \in DOMAIN s2c' : s2c'[i].cs = "Abort" \/ (i \in DOMAIN s2c /\ s2c'[i] = s2c[i])
      BY <1>1, <2>1, AbortsAppendedToRead
    <3>2. QED
      BY <1>5, <1>9, <2>1, <3>1
  <2>2. ASSUME NEW v \in Seq(Byte), Fetched(v)', UNCHANGED transfer,
               s2c' = Append(s2c, EncodeUploadExpeditedResponse(call.addr, v))
        PROVE  Backed
    <3>1. \A i \in DOMAIN s2c' :
              \/ s2c'[i] = EncodeUploadExpeditedResponse(call.addr, v)
              \/ i \in DOMAIN s2c /\ s2c'[i] = s2c[i]
      BY <1>1, <2>2, AppendedElements
    <3>2. QED
      BY <1>5, <1>6, <1>9, <2>2, <3>1
  <2>3. ASSUME NEW v \in Seq(Byte), Fetched(v)', transfer' = Upload(call.addr, v, 0, FALSE),
               s2c' = Append(s2c, EncodeUploadInitiateSegmentedResponse(call.addr, Len(v)))
        PROVE  Backed
    <3>1. \A i \in DOMAIN s2c' :
              \/ s2c'[i] = EncodeUploadInitiateSegmentedResponse(call.addr, Len(v))
              \/ i \in DOMAIN s2c /\ s2c'[i] = s2c[i]
      BY <1>1, <2>3, AppendedElements
    <3>2. QED
      BY <1>5, <1>7, <1>9, <2>3, <3>1
  <2>4. QED
    BY <1>5, <2>1, <2>2, <2>3
<1>11. \A i \in DOMAIN s2c' : s2c'[i].cs = "UploadExpedited" => Fetched(s2c[i].data)'
  BY <1>10 DEF Fetched
<1>12. client' = [state |-> "UploadInit", type |-> call'.type]
  BY DEF AsksOpening
<1>13. Only(c2s, Starting)'
  BY <1>3, FramesKept
<1>14. QED
  BY <1>8, <1>10, <1>11, <1>12, <1>13 DEF AsksOpening

LEMMA AsksPiecesServed ==
    ASSUME ServerInv, ClientTypeOK, call # NoCall, ServerStep, UNCHANGED <<call, client>>,
           ReadsOnly, Only(c2s, ReadRequests), AsksPieces
    PROVE  AsksPieces'
<1>1. PICK v \in Seq(Byte) : \E start \in 0..Len(v) :
          /\ Fetched(v)
          /\ client.buf = SubSeq(v, 1, start)
          /\ OwesPiece(v, start, client.toggle) \/ GavePiece(v, start, client.toggle)
  BY DEF AsksPieces
<1>2. PICK start \in 0..Len(v) :
          /\ Fetched(v)
          /\ client.buf = SubSeq(v, 1, start)
          /\ OwesPiece(v, start, client.toggle) \/ GavePiece(v, start, client.toggle)
  BY <1>1
<1>3. client.toggle \in BOOLEAN
  BY DEF ClientTypeOK, ClientStates, AsksPieces
<1>4. PICK toggle \in BOOLEAN : toggle = client.toggle
  BY <1>3
<1>5. Fetched(v)'
  BY <1>2, ServeReadsOnly
<1>6. CASE OwesPiece(v, start, toggle)' \/ GavePiece(v, start, toggle)'
  <2>1. OwesPiece(v, start, client.toggle)' \/ GavePiece(v, start, client.toggle)'
    BY <1>4, <1>6 DEF OwesPiece, GavePiece
  <2>2. QED
    BY <1>2, <1>5, <2>1 DEF AsksPieces
<1>7. ASSUME start = 0, NEW w \in Seq(Byte), Fetched(w)', OwesPiece(w, start, toggle)'
      PROVE  AsksPieces'
  <2>1. SubSeq(w, 1, 0) = SubSeq(v, 1, 0) /\ 0 \in 0..Len(w)
    OBVIOUS
  <2>2. OwesPiece(w, 0, client.toggle)'
    BY <1>4, <1>7 DEF OwesPiece
  <2>3. client'.buf = SubSeq(w, 1, 0)
    BY <1>2, <1>7, <2>1
  <2>4. QED
    BY <1>7, <2>1, <2>2, <2>3 DEF AsksPieces
<1>8. CASE GavePiece(v, start, toggle)
  BY <1>6, <1>8, GavePieceServed
<1>9. CASE OwesPiece(v, start, toggle)
  BY <1>6, <1>7, <1>9, OwesPieceServed
<1>10. QED
  BY <1>2, <1>4, <1>8, <1>9

LEMMA ServeKeepsReadInv ==
    ASSUME ServerInv, ClientTypeOK, call # NoCall, ServerStep,
           UNCHANGED <<client, call, result>>, ReadInv
    PROVE  ReadInv'
<1>1. ReadsOnly /\ Only(c2s, ReadRequests)
  BY DEF ReadInv
<1>2. ReadsOnly' /\ Only(c2s', ReadRequests) /\ \A v : Fetched(v) => Fetched(v)'
  BY <1>1, ServeReadsOnly
<1>3. ASSUME NEW v, Fetched(v), Returns(v) PROVE Fetched(v)' /\ Returns(v)'
  BY <1>2, <1>3 DEF Returns
<1>4. Only(c2s, ReadRequests)'
  BY <1>2, FramesKept
<1>5. result' = Pending => AsksOpening' \/ AsksPieces'
  <2>1. result = Pending => AsksOpening \/ AsksPieces
    BY DEF ReadInv
  <2>2. QED
    BY <1>1, <2>1, AsksOpeningServed, AsksPiecesServed
<1>6. QED
  BY <1>2, <1>3, <1>4, <1>5 DEF ReadInv, Pending

-----------------------------------------------------------------------------
(* The client in a read                                                    *)

\* A read that returns leaves its requests behind.
LEMMA ReadReturns ==
    ASSUME UNCHANGED <<call, transfer, served>>, ReadInv,
           NEW outcome, Return(outcome), outcome.kind \in {"Aborted", "Value", "Io"},
           outcome.kind = "Value" =>
               \E v \in Seq(Byte) :
                  Fetched(v) /\ Decodable(call.type, v) /\ outcome.value = Decode(call.type, v)
    PROVE  ReadInv'
<1>1. c2s' = c2s /\ result' = outcome
  BY DEF Return
<1>2. ReadsOnly' /\ \A v : Fetched(v)' = Fetched(v)
  BY ServedKept DEF ReadInv
<1>3. Only(c2s, ReadRequests)'
  BY <1>1, FramesKept DEF ReadInv
<1>4. result' # Pending /\ result'.kind # "Written"
  BY <1>1 DEF Pending
<1>5. result'.kind = "Value" => \E v \in Seq(Byte) : Fetched(v)' /\ Returns(v)'
  BY <1>1, <1>2 DEF Returns
<1>6. QED
  BY <1>2, <1>3, <1>4, <1>5 DEF ReadInv

LEMMA ReadAborted ==
    ASSUME UNCHANGED <<call, transfer, served>>, ReadInv, NEW code, AbortCall(code)
    PROVE  ReadInv'
BY ReadReturns DEF AbortCall

\* A request more of the read.
LEMMA RequestAppended ==
    ASSUME BusTypeOK, Only(c2s, ReadRequests), UNCHANGED call, NEW toggle \in BOOLEAN,
           c2s' = Append(c2s, EncodeUploadSegmentRequest(toggle))
    PROVE  Only(c2s, ReadRequests)'
<1>1. EncodeUploadSegmentRequest(toggle) \in ReadRequests
  BY DEF ReadRequests, Asking
<1>2. Only(c2s', ReadRequests)
  BY <1>1, AppendedOnly DEF BusTypeOK
<1>3. QED
  BY <1>2, FramesKept

LEMMA RespondOpensRead ==
    ASSUME BusTypeOK, ClientTypeOK, Respond, call # NoCall, ReadInv, AsksOpening
    PROVE  ReadInv'
<1>1. /\ UNCHANGED <<call, transfer, served>> /\ result = Pending
      /\ s2c \in Seq(ResponseFrames) /\ s2c # <<>> /\ Resp = Head(s2c) /\ Resampled(s2c, s2c')
      /\ (\E code : AbortCall(code)) \/ OnUploadInit
  BY OldestAnswered DEF AsksOpening
<1>2. client.type = call.type
  BY DEF AsksOpening
<1>3. 1 \in DOMAIN s2c /\ Resp = s2c[1] /\ Resp \in ResponseFrames
  BY <1>1
<1>4. CASE \E code : AbortCall(code)
  BY <1>1, <1>4, ReadAborted
<1>5. CASE /\ Resp.cs = "UploadExpedited" /\ Decodable(call.type, Resp.data)
           /\ Return([kind |-> "Value", value |-> Decode(call.type, Resp.data)])
  <2>1. Fetched(Resp.data)
    BY <1>3, <1>5 DEF AsksOpening
  <2>2. Resp.data \in Seq(Byte)
    BY <1>3, <1>5 DEF ResponseFrames, SegmentFrames, AbortFrames
  <2>3. QED
    BY <1>1, <1>5, <2>1, <2>2, ReadReturns
<1>6. CASE /\ Resp.cs = "UploadSegmented"
           /\ Send([state |-> "UploadSeg", type |-> call.type, buf |-> <<>>, toggle |-> FALSE],
                   EncodeUploadSegmentRequest(FALSE))
  <2> DEFINE f == EncodeUploadSegmentRequest(FALSE)
  <2>1. PICK v \in Seq(Byte) : Fetched(v) /\ transfer = Upload(call.addr, v, 0, FALSE)
    BY <1>3, <1>6 DEF AsksOpening
  <2>2. /\ client'.state = "UploadSeg" /\ client'.type = call'.type /\ client'.buf = <<>>
        /\ client'.toggle = FALSE /\ c2s' = Append(c2s, f) /\ result' = Pending
    BY <1>1, <1>6 DEF Send
  <2>3. c2s \in Seq(RequestFrames) /\ Only(c2s, Starting)
    BY DEF BusTypeOK, AsksOpening
  <2>4. /\ BeforeAsking(0, FALSE) = Starting /\ f \in Asking(FALSE) /\ f \notin Starting
        /\ Asking(FALSE) \cap Starting = {}
    BY DEF BeforeAsking, Asking, Starting, EncodeUploadRequest, EncodeUploadSegmentRequest
  <2>5. Only(c2s', Starting \cup Asking(FALSE))
    <3>1. Only(c2s, Starting \cup Asking(FALSE))
      BY <2>3 DEF Only
    <3>2. QED
      BY <2>2, <2>3, <2>4, <3>1, AppendedOnly
  <2>6. Never(c2s', Asking(FALSE), Starting)
    <3>1. Free(c2s, Asking(FALSE))
      BY <2>3, <2>4 DEF Only, Free
    <3>2. Never(c2s, Asking(FALSE), Starting)
      BY <3>1, FreeThenNever
    <3>3. QED
      BY <2>2, <2>3, <2>4, <3>2, AppendedNever
  <2>7. Free(s2c', SegmentsOf(FALSE))
    <3>1. Free(s2c', SegmentFrames)
      BY <1>1, ResampledOnly DEF AsksOpening
    <3>2. QED
      BY <3>1 DEF Free, SegmentsOf
  <2>8. OwesPiece(v, 0, FALSE)'
    BY <1>1, <2>1, <2>4, <2>5, <2>6, <2>7, FramesKept DEF OwesPiece
  <2>9. OwesPiece(v, 0, client.toggle)'
    BY <2>2, <2>8 DEF OwesPiece
  <2>10. Fetched(v)' /\ ReadsOnly'
    BY <1>1, <2>1, ServedKept DEF ReadInv
  <2>11. client'.buf = SubSeq(v, 1, 0) /\ 0 \in 0..Len(v)
    BY <2>2
  <2>12. AsksPieces'
    BY <2>2, <2>9, <2>10, <2>11 DEF AsksPieces
  <2>13. Only(c2s, ReadRequests)'
    BY <1>1, <2>2, RequestAppended DEF ReadInv
  <2>14. QED
    BY <2>2, <2>10, <2>12, <2>13 DEF ReadInv, Pending
<1>7. QED
  BY <1>1, <1>2, <1>4, <1>5, <1>6 DEF OnUploadInit

\* The client's next request is for a piece that the server owes, unless the transfer is over.
LEMMA NextPieceAsked ==
    ASSUME BusTypeOK, UNCHANGED <<call, transfer>>,
           NEW v \in Seq(Byte), NEW start \in 0..Len(v), NEW toggle \in BOOLEAN,
           GavePiece(v, start, toggle), ~IsLastSegment(v, start),
           NEW next, next = SegmentEnd(v, start), NEW other \in BOOLEAN, other = ~toggle,
           c2s' = Append(c2s, EncodeUploadSegmentRequest(other)),
           s2c # <<>>, Head(s2c) \in SegmentsOf(toggle), s2c' = Tail(s2c)
    PROVE  OwesPiece(v, next, other)' \/ GavePiece(v, next, other)'
<1> DEFINE f == EncodeUploadSegmentRequest(other)
<1>1. next \in 0..Len(v) /\ next # 0
  <2>1. next \in 0..Len(v)
    BY NextSegment
  <2>2. next # 0
    BY SdoBusAssumption DEF SegmentEnd, Min2, IsLastSegment
  <2>3. QED
    BY <2>1, <2>2
<1>2. c2s \in Seq(RequestFrames) /\ s2c \in Seq(ResponseFrames) /\ (~other) = toggle
  BY Zenon DEF BusTypeOK
<1>3. Free(s2c', SegmentsOf(other))
  BY <1>2, OldestFrame DEF GavePiece
<1>4. Only(c2s', Asking(FALSE) \cup Asking(TRUE))
  <2>1. f \in Asking(FALSE) \cup Asking(TRUE)
    BY DEF Asking
  <2>2. QED
    BY <1>2, <2>1, AppendedOnly DEF GavePiece
<1>5. CASE transfer.kind = "Upload"
  <2>1. transfer = Upload(call.addr, v, next, other) /\ Only(c2s, Asking(toggle))
    BY <1>5 DEF GavePiece
  <2>2. BeforeAsking(next, other) = Asking(toggle)
    BY <1>1, <1>2 DEF BeforeAsking
  <2>3. f \in Asking(other) /\ f \notin Asking(toggle) /\ Asking(toggle) \cap Asking(other) = {}
    BY DEF Asking, EncodeUploadSegmentRequest
  <2>4. Only(c2s', Asking(toggle) \cup Asking(other))
    <3>1. Only(c2s, Asking(toggle) \cup Asking(other))
      BY <2>1 DEF Only
    <3>2. QED
      BY <1>2, <2>3, <3>1, AppendedOnly
  <2>5. Never(c2s', Asking(other), Asking(toggle))
    <3>1. Free(c2s, Asking(other))
      BY <2>1, <2>3, FreeThenNever
    <3>2. QED
      BY <1>2, <2>3, <3>1, FreeThenNever, AppendedNever
  <2>6. OwesPiece(v, next, other)'
    BY <1>1, <1>3, <2>1, <2>2, <2>4, <2>5, FramesKept DEF OwesPiece
  <2>7. QED
    BY <2>6
<1>6. CASE transfer.kind # "Upload"
  <2>1. Never(s2c', SegmentsOf(other), SegmentsOf(~other))
    BY <1>3, FreeThenNever
  <2>2. GavePiece(v, next, other)'
    BY <1>3, <1>4, <1>6, <2>1 DEF GavePiece, Free
  <2>3. QED
    BY <2>2
<1>7. QED
  BY <1>5, <1>6

LEMMA RespondGivesPiece ==
    ASSUME BusTypeOK, ClientTypeOK, Respond, call # NoCall, ReadInv, AsksPieces
    PROVE  ReadInv'
<1>1. /\ UNCHANGED <<call, transfer, served>> /\ result = Pending
      /\ s2c \in Seq(ResponseFrames) /\ s2c # <<>> /\ Resp = Head(s2c) /\ s2c' = Tail(s2c)
      /\ (\E code : AbortCall(code)) \/ OnUploadSeg
  BY OldestAnswered DEF AsksPieces
<1>2. client.type = call.type /\ client.toggle \in BOOLEAN
  BY DEF ClientTypeOK, ClientStates, AsksPieces
<1>3. client \in [state : {"UploadSeg"}, type : DataType, buf : Seq(Byte), toggle : BOOLEAN]
  BY DEF ClientTypeOK, ClientStates, AsksPieces
<1>4. PICK toggle \in BOOLEAN : toggle = client.toggle
  BY <1>2
<1>5. PICK v \in Seq(Byte) : \E start \in 0..Len(v) :
          /\ Fetched(v)
          /\ client.buf = SubSeq(v, 1, start)
          /\ OwesPiece(v, start, toggle) \/ GavePiece(v, start, toggle)
  BY <1>4 DEF AsksPieces
<1>6. PICK start \in 0..Len(v) :
          /\ Fetched(v)
          /\ client.buf = SubSeq(v, 1, start)
          /\ OwesPiece(v, start, toggle) \/ GavePiece(v, start, toggle)
  BY <1>5
<1>7. CASE \E code : AbortCall(code)
  BY <1>1, <1>7, ReadAborted
<1>8. ASSUME Resp.cs = "Segment", Resp.toggle = toggle
      PROVE  /\ Resp \in SegmentsOf(toggle) /\ GavePiece(v, start, toggle)
             /\ Resp.last <=> IsLastSegment(v, start)
             /\ client.buf \o Resp.data = SubSeq(v, 1, SegmentEnd(v, start))
  <2>1. Resp \in SegmentsOf(toggle)
    <3>1. Resp \in ResponseFrames
      BY <1>1
    <3>2. Resp \in SegmentFrames
      BY <1>8, <3>1 DEF ResponseFrames, AbortFrames
    <3>3. QED
      BY <1>8, <3>2 DEF SegmentsOf
  <2>2. GavePiece(v, start, toggle)
    <3>1. ~Free(s2c, SegmentsOf(toggle))
      BY <1>1, <2>1, OldestFrame
    <3>2. QED
      BY <1>6, <3>1 DEF OwesPiece
  <2>3. Resp = EncodeDataSegment(v, start, toggle)
    <3>1. 1 \in DOMAIN s2c /\ Resp = s2c[1]
      BY <1>1
    <3>2. QED
      BY <2>1, <2>2, <3>1 DEF GavePiece
  <2>4. /\ Resp.last = IsLastSegment(v, start)
        /\ Resp.data = SubSeq(v, start + 1, SegmentEnd(v, start))
    BY <2>3 DEF EncodeDataSegment
  <2>5. client.buf \o Resp.data = SubSeq(v, 1, SegmentEnd(v, start))
    <3>1. SubSeq(v, 1, start) \o SubSeq(v, start + 1, SegmentEnd(v, start))
          = SubSeq(v, 1, SegmentEnd(v, start))
      BY NextSegment
    <3>2. QED
      BY <1>6, <2>4, <3>1, Zenon
  <2>6. QED
    BY <2>1, <2>2, <2>4, <2>5
<1> DEFINE buf == client.buf \o Resp.data
<1>9. /\ SegmentEnd(v, start) \in 0..Len(v) /\ SubSeq(v, 1, Len(v)) = v
      /\ IsLastSegment(v, start) <=> SegmentEnd(v, start) = Len(v)
  BY NextSegment
<1>10. CASE /\ Resp.cs = "Segment" /\ Resp.toggle = toggle /\ Resp.last
            /\ Decodable(call.type, buf)
            /\ Return([kind |-> "Value", value |-> Decode(call.type, buf)])
  <2>1. buf = v
    BY <1>8, <1>9, <1>10
  <2>2. QED
    BY <1>1, <1>6, <1>10, <2>1, ReadReturns
<1>11. CASE /\ Resp.cs = "Segment" /\ Resp.toggle = toggle /\ ~Resp.last
            /\ Send([client EXCEPT !.buf = buf, !.toggle = ~client.toggle],
                    EncodeUploadSegmentRequest(~client.toggle))
  <2>1. PICK next \in 0..Len(v) : next = SegmentEnd(v, start)
    BY <1>9
  <2>2. PICK other \in BOOLEAN : other = ~toggle
    BY Toggled, Zenon
  <2>3. buf = SubSeq(v, 1, next)
    BY <1>8, <1>11, <2>1
  <2>4. /\ client'.state = "UploadSeg" /\ client'.type = call'.type
        /\ client'.buf = SubSeq(v, 1, next) /\ client'.toggle = other
        /\ c2s' = Append(c2s, EncodeUploadSegmentRequest(other)) /\ result' = Pending
    <3>1. /\ client' = [client EXCEPT !.buf = buf, !.toggle = other]
          /\ c2s' = Append(c2s, EncodeUploadSegmentRequest(other)) /\ result' = Pending
      BY <1>1, <1>4, <1>11, <2>2 DEF Send
    <3>2. QED
      BY <1>1, <1>2, <1>3, <2>3, <3>1
  <2>5. OwesPiece(v, next, other)' \/ GavePiece(v, next, other)'
    BY <1>1, <1>8, <1>11, <2>1, <2>2, <2>4, NextPieceAsked
  <2>6. OwesPiece(v, next, client.toggle)' \/ GavePiece(v, next, client.toggle)'
    BY <2>4, <2>5 DEF OwesPiece, GavePiece
  <2>7. Fetched(v)' /\ ReadsOnly'
    BY <1>1, <1>6, ServedKept DEF ReadInv
  <2>8. AsksPieces'
    BY <2>4, <2>6, <2>7 DEF AsksPieces
  <2>9. Only(c2s, ReadRequests)'
    BY <1>1, <2>4, RequestAppended DEF ReadInv
  <2>10. QED
    BY <2>4, <2>7, <2>8, <2>9 DEF ReadInv, Pending
<1>12. QED
  <2>1. CASE OnUploadSeg
    BY <1>1, <1>2, <1>4, <1>7, <1>10, <1>11, <2>1 DEF OnUploadSeg
  <2>2. QED
    BY <1>1, <1>7, <2>1

LEMMA RespondKeepsReadInv ==
    ASSUME BusTypeOK, ClientTypeOK, Respond, call # NoCall, ReadInv
    PROVE  ReadInv'
<1>1. result = Pending
  BY OldestAnswered
<1>2. QED
  BY <1>1, RespondOpensRead, RespondGivesPiece DEF ReadInv

-----------------------------------------------------------------------------
(* The other steps                                                         *)

LEMMA SingleFrame ==
    ASSUME NEW f, NEW F, f \in F
    PROVE  Only(<<f>>, F)
BY DEF Only

\* A call that starts on a quiet bus.
LEMMA StartKeepsRepeatInv ==
    ASSUME RepeatInv, Drained, StartCall
    PROVE  RepeatInv'
<1>1. /\ c2s = <<>> /\ s2c = <<>> /\ served' = <<>>
      /\ UNCHANGED <<od, transfer, lastWrite>>
  BY DEF Drained, StartCall
<1>2. ServerInv /\ served' \in Seq(Accesses) /\ Pending \in Results /\ ReadsOnly' /\ WritesItsValue'
  BY <1>1 DEF RepeatInv, Pending, Results, ReadsOnly, WritesItsValue
<1>3. SUFFICES ClientTypeOK' /\ BusTypeOK' /\ call' # NoCall /\ CallInv'
  BY <1>1, <1>2, ServerAside DEF RepeatInv
<1>4. ASSUME NEW addr \in Address, NEW type \in DataType, StartRead(addr, type)
      PROVE  ClientTypeOK' /\ BusTypeOK' /\ call' # NoCall /\ CallInv'
  <2>1. /\ c2s' = <<EncodeUploadRequest(addr)>> /\ s2c' = <<>>
        /\ client' = [state |-> "UploadInit", type |-> type]
        /\ call' = ReadCall(addr, type) /\ result' = Pending
    BY <1>1, <1>4, Singletons DEF StartRead
  <2>2. /\ call'.op = "read" /\ call'.addr = addr /\ call'.type = type
        /\ call' \in Calls /\ call' # NoCall
    BY <2>1 DEF ReadCall, Calls, NoCall
  <2>3. EncodeUploadRequest(addr) \in RequestFrames /\ WellFormed(EncodeUploadRequest(addr))
    BY DEF EncodeUploadRequest, RequestFrames, WellFormed
  <2>4. BusTypeOK'
    BY <2>1, <2>3, AskedTyped
  <2>5. client' \in ClientStates
    BY <2>1 DEF ClientStates
  <2>6. Only(c2s, Starting)' /\ Only(c2s, ReadRequests)'
    BY <2>1, <2>2, SingleFrame DEF Starting, ReadRequests
  <2>7. Free(s2c', SegmentFrames) /\ DOMAIN s2c' = {}
    BY <2>1, NothingUnderWay
  <2>8. AsksOpening'
    BY <2>1, <2>2, <2>6, <2>7 DEF AsksOpening
  <2>9. ReadInv'
    BY <1>2, <2>1, <2>6, <2>8 DEF ReadInv, Pending
  <2>10. QED
    BY <1>2, <2>1, <2>2, <2>4, <2>5, <2>9 DEF CallInv, ClientTypeOK
<1>5. ASSUME NEW addr \in Address, NEW type \in DataType, NEW value \in Values,
             StartWrite(addr, type, value)
      PROVE  ClientTypeOK' /\ BusTypeOK' /\ call' # NoCall /\ CallInv'
  <2>1. /\ s2c' = <<>> /\ call' = WriteCall(addr, type, value) /\ result' = Pending
        /\ IsValue(type, value)
    BY <1>1, <1>5 DEF StartWrite
  <2>2. value \in Seq(Byte) /\ Len(value) \in Nat
    BY <2>1 DEF IsValue
  <2>3. /\ call'.op = "write" /\ call'.addr = addr /\ call'.type = type /\ call'.value = value
        /\ call' \in Calls /\ call' # NoCall
    BY <2>1, <2>2 DEF WriteCall, Calls, NoCall
  <2>4. Only(s2c', AbortFrames) /\ Free(s2c', Confirmed(FALSE))
    BY <2>1, NothingUnderWay
  <2>5. CASE FitsExpedited(value)
    <3> DEFINE f == EncodeDownloadExpedited(addr, value)
    <3>1. c2s' = <<f>> /\ client' = [state |-> "DownloadExpedited"]
      BY <1>1, <1>5, <2>5, Singletons DEF StartWrite
    <3>2. f \in RequestFrames /\ WellFormed(f)
      BY <2>2, <2>5 DEF EncodeDownloadExpedited, RequestFrames, WellFormed, FitsExpedited
    <3>3. BusTypeOK'
      BY <2>1, <3>1, <3>2, AskedTyped
    <3>4. client' \in ClientStates /\ client'.state = "DownloadExpedited"
      BY <3>1 DEF ClientStates
    <3>5. Only(c2s, {Announcement})'
      BY <2>3, <3>1, SingleFrame DEF Announcement
    <3>6. SendsExpedited'
      BY <2>4, <3>4, <3>5 DEF SendsExpedited
    <3>7. WriteInv'
      BY <1>2, <2>1, <2>3, <3>6 DEF WriteInv, Pending
    <3>8. QED
      BY <1>2, <2>1, <2>3, <3>3, <3>4, <3>7 DEF CallInv, ClientTypeOK
  <2>6. CASE ~FitsExpedited(value)
    <3> DEFINE f == EncodeDownloadInitiateSegmented(addr, Len(value))
    <3>1. c2s' = <<f>> /\ client' = [state |-> "DownloadInit", data |-> value]
      BY <1>1, <1>5, <2>6, Singletons DEF StartWrite
    <3>2. f \in RequestFrames /\ WellFormed(f)
      BY <2>2 DEF EncodeDownloadInitiateSegmented, RequestFrames, WellFormed
    <3>3. BusTypeOK'
      BY <2>1, <3>1, <3>2, AskedTyped
    <3>4. client' \in ClientStates
      BY <2>2, <3>1 DEF ClientStates
    <3>5. Only(c2s, {Opening})'
      BY <2>3, <3>1, SingleFrame DEF Opening
    <3>6. SendsOpening'
      BY <2>3, <2>4, <3>1, <3>5 DEF SendsOpening
    <3>7. WriteInv'
      BY <1>2, <2>1, <2>3, <3>6 DEF WriteInv, Pending
    <3>8. QED
      BY <1>2, <2>1, <2>3, <3>3, <3>4, <3>7 DEF CallInv, ClientTypeOK
  <2>7. QED
    BY <2>5, <2>6
<1>6. QED
  BY <1>4, <1>5 DEF StartCall

\* The timeout ends a call of which nothing is under way any more.
LEMMA TimeoutKeepsRepeatInv ==
    ASSUME RepeatInv, TimelyTimeout
    PROVE  RepeatInv'
<1>1. /\ Drained /\ client' = Idle /\ result = Pending /\ result' = [kind |-> "Io"]
      /\ UNCHANGED <<call, c2s, s2c, od, transfer, lastWrite, served>>
  BY DEF TimelyTimeout, Timeout, busVars, serverVars
<1>2. ServerInv /\ ClientTypeOK /\ served \in Seq(Accesses)
  BY DEF RepeatInv, ServerInv, ServerTypeOK
<1>3. ClientTypeOK'
  BY <1>1, <1>2 DEF ClientTypeOK, ClientStates, Results, Idle
<1>4. ServerInv'
  BY <1>1, <1>2, ServerAside DEF ServerInv, BusTypeOK, WellFormed
<1>5. call # NoCall
  BY <1>1 DEF RepeatInv, Pending
<1>6. c2s' = <<>> /\ result'.kind = "Io" /\ result' # Pending
  BY <1>1 DEF Drained, Pending
<1>7. WriteInv => WriteInv'
  <2>1. Only(c2s, {Announcement})'
    BY <1>6, NothingUnderWay
  <2>2. WriteIsOver'
    BY <2>1 DEF WriteIsOver
  <2>3. QED
    BY <1>1, <1>6, <2>2, ServedKept DEF WriteInv
<1>8. ReadInv => ReadInv'
  <2>1. Only(c2s, ReadRequests)'
    BY <1>6, NothingUnderWay
  <2>2. QED
    BY <1>1, <1>6, <2>1, ServedKept DEF ReadInv
<1>9. QED
  BY <1>1, <1>3, <1>4, <1>5, <1>7, <1>8 DEF RepeatInv, CallInv

\* What the application does touches neither bus nor transfer.
LEMMA ApplicationKeepsRepeatInv ==
    ASSUME RepeatInv, Application
    PROVE  RepeatInv'
<1>1. UNCHANGED <<c2s, s2c, transfer, served, client, call, result>>
  BY DEF Application, TakeWrite, DeviceSet, clientVars, busVars
<1>2. BusTypeOK /\ ServerInv /\ ClientTypeOK
  BY DEF RepeatInv, ServerInv
<1>3. ServerInv'
  <2>1. CASE TakeWrite
    BY <1>2, <2>1, TakeWriteKeepsInv
  <2>2. ASSUME NEW o \in Objects, NEW value \in Values, DeviceSet(o, value)
        PROVE  ServerInv'
    BY <1>2, <2>2, DeviceSetKeepsInv
  <2>3. QED
    BY <2>1, <2>2 DEF Application
<1>4. ClientTypeOK' /\ BusTypeOK'
  BY <1>1, <1>2, <1>3 DEF ClientTypeOK, ServerInv
<1>5. Resampled(c2s, c2s') /\ Resampled(s2c, s2c')
  BY <1>1, <1>2, Resampling DEF BusTypeOK
<1>6. (WriteInv => WriteInv') /\ (ReadInv => ReadInv')
  BY <1>1, <1>2, <1>4, <1>5, WriteInvKept, ReadInvKept
<1>7. QED
  BY <1>1, <1>3, <1>4, <1>6 DEF RepeatInv, CallInv

LEMMA ResampledBusTyped ==
    ASSUME BusTypeOK, Resampled(c2s, c2s'), c2s' \in Seq(RequestFrames),
           s2c' \in Seq(ResponseFrames)
    PROVE  BusTypeOK'
<1>1. ASSUME NEW i \in DOMAIN c2s' PROVE WellFormed(c2s'[i])
  <2>1. PICK k \in DOMAIN c2s : c2s'[i] = c2s[k]
    BY ResampledElements
  <2>2. QED
    BY <2>1 DEF BusTypeOK
<1>2. QED
  BY <1>1 DEF BusTypeOK, WellFormed

LEMMA BusResamples ==
    ASSUME BusTypeOK, Lose \/ Duplicate \/ FreshSocket \/ UNCHANGED vars
    PROVE  Resampled(c2s, c2s') /\ Resampled(s2c, s2c') /\ BusTypeOK'
<1>1. c2s \in Seq(RequestFrames) /\ s2c \in Seq(ResponseFrames)
  BY DEF BusTypeOK
<1>2. /\ c2s' = c2s \/ (c2s # <<>> /\ c2s' \in {Tail(c2s), <<Head(c2s)>> \o c2s})
      /\ \/ s2c' = s2c \/ s2c' = <<>>
         \/ s2c # <<>> /\ s2c' \in {Tail(s2c), <<Head(s2c)>> \o s2c}
  BY DEF Lose, LoseRequest, LoseResponse, Duplicate, DuplicateRequest, DuplicateResponse,
         FreshSocket, vars, busVars
<1>3. Resampled(c2s, c2s') /\ Resampled(s2c, s2c')
  BY <1>1, <1>2, Resampling
<1>4. c2s' \in Seq(RequestFrames) /\ s2c' \in Seq(ResponseFrames)
  <2>1. c2s # <<>> => /\ Tail(c2s) \in Seq(RequestFrames)
                     /\ <<Head(c2s)>> \o c2s \in Seq(RequestFrames)
    BY <1>1
  <2>2. s2c # <<>> => /\ Tail(s2c) \in Seq(ResponseFrames)
                     /\ <<Head(s2c)>> \o s2c \in Seq(ResponseFrames)
    BY <1>1
  <2>3. <<>> \in Seq(ResponseFrames)
    OBVIOUS
  <2>4. QED
    BY <1>1, <1>2, <2>1, <2>2, <2>3
<1>5. QED
  BY <1>3, <1>4, ResampledBusTyped

LEMMA InitRepeatInv == Init => RepeatInv
<1> SUFFICES ASSUME Init PROVE RepeatInv
  OBVIOUS
<1>1. ServerInv /\ c2s = <<>> /\ served = <<>>
  BY InitHasInv DEF Init, BusInit, ServerInit
<1>2. ClientTypeOK /\ call = NoCall /\ result = [kind |-> "Io"]
  BY DEF Init, ClientInit, ClientTypeOK, ClientStates, Results, Idle
<1>3. QED
  BY <1>1, <1>2 DEF RepeatInv

LEMMA StepKeepsRepeatInv == RepeatInv /\ [DuplicatingNext]_vars => RepeatInv'
<1> SUFFICES ASSUME RepeatInv, [DuplicatingNext]_vars PROVE RepeatInv'
  OBVIOUS
<1>1. ServerInv /\ ClientTypeOK /\ BusTypeOK /\ served \in Seq(Accesses)
  BY DEF RepeatInv, ServerInv, ServerTypeOK
<1>2. CASE Drained /\ StartCall
  BY <1>2, StartKeepsRepeatInv
<1>3. CASE Serve
  <2>1. ServerStep /\ UNCHANGED <<client, call, result>>
    BY <1>3 DEF Serve, clientVars
  <2>2. ServerInv' /\ ClientTypeOK'
    BY <1>1, <2>1, ServerStepKeepsInv DEF ClientTypeOK
  <2>3. call # NoCall
    BY <2>1, NothingAsked DEF RepeatInv
  <2>4. (WriteInv /\ call.op = "write" => WriteInv') /\ (ReadInv => ReadInv')
    BY <1>1, <2>1, <2>3, ServeKeepsWriteInv, ServeKeepsReadInv
  <2>5. QED
    BY <2>1, <2>2, <2>3, <2>4 DEF RepeatInv, CallInv
<1>4. CASE Respond
  <2>1. UNCHANGED <<od, transfer, lastWrite, served>>
    BY <1>4 DEF Respond, serverVars
  <2>2. ClientTypeOK' /\ BusTypeOK' /\ UNCHANGED call /\ result = Pending
    BY <1>1, <1>4, RespondTyped, OldestAnswered
  <2>3. ServerInv'
    BY <1>1, <2>1, <2>2, ServerAside
  <2>4. call # NoCall
    BY <2>2 DEF RepeatInv, Pending
  <2>5. (WriteInv /\ call.op = "write" => WriteInv') /\ (ReadInv => ReadInv')
    BY <1>1, <1>4, <2>2, <2>4, RespondKeepsWriteInv, RespondKeepsReadInv
  <2>6. QED
    BY <2>2, <2>3, <2>4, <2>5 DEF RepeatInv, CallInv
<1>5. CASE Application
  BY <1>5, ApplicationKeepsRepeatInv
<1>6. CASE TimelyTimeout
  BY <1>6, TimeoutKeepsRepeatInv
<1>7. CASE Lose \/ Duplicate \/ FreshSocket \/ UNCHANGED vars
  <2>1. Resampled(c2s, c2s') /\ Resampled(s2c, s2c') /\ BusTypeOK'
    BY <1>1, <1>7, BusResamples
  <2>2. UNCHANGED <<od, transfer, lastWrite, served, client, call, result>>
    BY <1>7 DEF Lose, Duplicate, FreshSocket, vars, serverVars, clientVars
  <2>3. QED
    BY <2>1, <2>2, BusStepKeepsRepeatInv
<1>8. QED
  BY <1>2, <1>3, <1>4, <1>5, <1>6, <1>7 DEF DuplicatingNext

\* A call that succeeds has its own, whole value although the bus repeats frames: no
\* repeated request makes sdo/server.rs store anything but the value of sdo_write, and
\* no repeated segment gets into what sdo_read joins.
THEOREM CallsIntactDespiteDuplicates == DuplicatingSpec => []IntactDespiteDuplicates
<1>1. RepeatInv => IntactDespiteDuplicates
  <2> SUFFICES ASSUME RepeatInv PROVE IntactDespiteDuplicates
    OBVIOUS
  <2>1. CASE call = NoCall
    <3>1. served = <<>> /\ result.kind = "Io"
      BY <2>1 DEF RepeatInv
    <3>2. QED
      BY <3>1 DEF IntactDespiteDuplicates
  <2>2. CASE call # NoCall /\ call.op = "write"
    BY <2>2
       DEF RepeatInv, CallInv, WriteInv, Stored, WritesItsValue, TheWrite,
           IntactDespiteDuplicates
  <2>3. CASE call # NoCall /\ call.op # "write"
    <3>1. ReadInv /\ call.op = "read"
      BY <2>3 DEF RepeatInv, CallInv, ClientTypeOK, Calls, NoCall
    <3>2. ASSUME NEW v, Fetched(v), Returns(v)
          PROVE  \E i \in DOMAIN served :
                    /\ served[i].op = "read"
                    /\ served[i].addr = call.addr
                    /\ Returns(served[i].value)
      <4>1. PICK i \in DOMAIN served : served[i] = Accessed("read", call.addr, v)
        BY <3>2 DEF Fetched
      <4>2. served[i].op = "read" /\ served[i].addr = call.addr /\ served[i].value = v
        BY <4>1 DEF Accessed
      <4>3. QED
        BY <3>2, <4>2
    <3>3. \A i \in DOMAIN served : served[i].op # "write"
      BY <3>1 DEF ReadInv, ReadsOnly
    <3>4. QED
      BY <3>1, <3>2, <3>3 DEF ReadInv, IntactDespiteDuplicates
  <2>4. QED
    BY <2>1, <2>2, <2>3
<1>2. QED
  BY <1>1, InitRepeatInv, StepKeepsRepeatInv, PTL DEF DuplicatingSpec
=============================================================================
