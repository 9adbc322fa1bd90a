------------------------------ MODULE SdoServer ------------------------------
(***************************************************************************)
(* The SDO server of core/src/sdo/server.rs over the object dictionary of  *)
(* core/src/object_dictionary.rs.  Each action is one call of              *)
(* SdoServer::handle: it takes the oldest request and appends the reply.   *)
(* A value is held as its byte encoding.                                   *)
(***************************************************************************)
EXTENDS SdoBus

CONSTANTS
    Objects,      \* the addresses the dictionary holds
    Type,         \* Entry.value.data_type()
    Access,       \* Entry.access
    None,         \* the None of last_write
    InitialValue  \* what the dictionary holds at start

AccessType == {"Ro", "Wo", "Rw", "Const"}
Readable(o) == Access[o] \in {"Ro", "Rw", "Const"}
Writable(o) == Access[o] \in {"Wo", "Rw"}

ASSUME SdoServerAssumption ==
    /\ Objects \subseteq Address
    /\ None \notin Objects
    /\ Type \in [Objects -> DataType]
    /\ Access \in [Objects -> AccessType]
    /\ InitialValue \in [Objects -> Seq(Byte)]
    /\ \A o \in Objects : IsValue(Type[o], InitialValue[o])

VARIABLES
    od,         \* the value of every object
    transfer,   \* SdoServer.transfer: the segmented transfer under way
    lastWrite,  \* SdoServer.last_write
    served      \* history: the accesses to the dictionary made for requests

serverVars == <<od, transfer, lastWrite, served>>

NoTransfer == [kind |-> "None"]

\* Fault: a new upload goes on with the toggle bit of the one it replaces.
UploadKeepingToggle(addr, data, pos, toggle) ==
    [kind |-> "Upload", addr |-> addr, data |-> data, pos |-> pos,
     toggle |-> IF transfer.kind = "Upload" THEN transfer.toggle ELSE toggle]
Upload(addr, data, pos, toggle) ==
    [kind |-> "Upload", addr |-> addr, data |-> data, pos |-> pos,
     toggle |-> toggle]
Download(addr, buf, declared, toggle) ==
    [kind |-> "Download", addr |-> addr, buf |-> buf, declared |-> declared,
     toggle |-> toggle]

UploadTransfers   == [kind : {"Upload"}, addr : Objects, data : Seq(Byte),
                      pos : Nat, toggle : BOOLEAN]
DownloadTransfers == [kind : {"Download"}, addr : Objects, buf : Seq(Byte),
                      declared : Nat, toggle : BOOLEAN]
Accesses == [op : {"read", "write"}, addr : Objects, value : Seq(Byte)]

ServerTypeOK ==
    /\ od \in [Objects -> Seq(Byte)]
    /\ transfer \in {NoTransfer} \cup UploadTransfers \cup DownloadTransfers
    /\ lastWrite \in {None} \cup Objects
    /\ served \in Seq(Accesses)

\* Every object holds a value of its own type, whatever requests and in
\* whatever order arrive: the length checks of on_download_initiate and
\* on_download_segment, and the decoding before ObjectDictionary::write.
ObjectsHoldTheirType == \A o \in Objects : IsValue(Type[o], od[o])

\* A running transfer stays inside its MAX_STRING_LEN buffer, so no slice of
\* on_upload_segment and no append of on_download_segment leaves it.
TransferInBounds ==
    /\ transfer.kind = "Upload" =>
          /\ transfer.pos <= Len(transfer.data)
          /\ Len(transfer.data) <= MaxLen
    /\ transfer.kind = "Download" =>
          /\ Len(transfer.buf) <= MaxLen
          /\ transfer.declared <= MaxLen

ServerInit ==
    /\ od = InitialValue
    /\ transfer = NoTransfer
    /\ lastWrite = None
    /\ served = <<>>

-----------------------------------------------------------------------------

Uploading   == transfer.kind = "Upload"
Downloading == transfer.kind = "Download"

Handle(cs) == c2s # <<>> /\ Head(c2s).cs = cs /\ c2s' = Tail(c2s)
Reply(frame) == s2c' = Append(s2c, frame)
ReplyAbort(addr, code) == Reply(EncodeAbort(addr, code))

\* An object is read for a request: the value leaves in this step's reply or
\* is copied into the transfer.
ServedRead(addr) ==
    served' = Append(served, [op |-> "read", addr |-> addr, value |-> od[addr]])

\* Faults: the bytes are stored undecoded; last_write is left out.
WriteRaw(addr, bytes) ==
    /\ od' = [od EXCEPT ![addr] = bytes]
    /\ lastWrite' = addr
    /\ served' = Append(served, [op |-> "write", addr |-> addr, value |-> bytes])
WriteUnannounced(addr, bytes) ==
    LET value == Decode(Type[addr], bytes) IN
    /\ od' = [od EXCEPT ![addr] = value]
    /\ served' = Append(served, [op |-> "write", addr |-> addr, value |-> value])
    /\ UNCHANGED lastWrite

\* ObjectDictionary::write on a value decoded as the object's own type,
\* followed by the note of the write in last_write.
WriteObject(addr, bytes) ==
    LET value == Decode(Type[addr], bytes) IN
    /\ od' = [od EXCEPT ![addr] = value]
    /\ lastWrite' = addr
    /\ served' = Append(served, [op |-> "write", addr |-> addr, value |-> value])

\* Fault: a refused request is left without a reply.
RefuseSilently(addr, code) == UNCHANGED <<s2c, serverVars>>

\* A request is refused and nothing changes, a running transfer included.
Refuse(addr, code) ==
    /\ ReplyAbort(addr, code)
    /\ UNCHANGED serverVars

-----------------------------------------------------------------------------
(* on_download_initiate                                                    *)

\* The data bytes an expedited download carries, by its own account or, when
\* the size bit is clear, by the object's type.
ExpeditedLength(req) ==
    IF req.sized THEN Len(req.data) ELSE FixedSize[Type[req.addr]]

ExpeditedLengthOK(req) ==
    LET len   == ExpeditedLength(req)
        fixed == FixedSize[Type[req.addr]]
    IN  len <= ExpMax /\ (fixed # 0 => len = fixed)

DeclaredSizeOK(req) ==
    LET fixed == FixedSize[Type[req.addr]]
    IN  IF fixed # 0 THEN req.size = fixed ELSE req.size <= MaxLen

\* The reasons to refuse any write to an object, in the order they are tested.
DownloadTarget(req) ==
    IF req.addr \notin Objects THEN "ObjectDoesNotExist"
    ELSE IF ~Writable(req.addr) THEN "WriteOfReadOnly"
    ELSE "ok"

OnDownloadExpedited ==
    /\ Handle("DownloadExpedited")
    /\ LET req == Head(c2s) IN
       \/ /\ DownloadTarget(req) # "ok"
          /\ Refuse(req.addr, DownloadTarget(req))
       \/ /\ DownloadTarget(req) = "ok"
          /\ ~ExpeditedLengthOK(req)
          /\ Refuse(req.addr, "LengthHigh")
       \/ /\ DownloadTarget(req) = "ok"
          /\ ExpeditedLengthOK(req)
          /\ WriteObject(req.addr, SubSeq(req.data, 1, ExpeditedLength(req)))
          /\ Reply(EncodeDownloadResponse(req.addr))
          /\ UNCHANGED transfer

OnDownloadSegmented ==
    /\ Handle("DownloadSegmented")
    /\ LET req == Head(c2s) IN
       \/ /\ DownloadTarget(req) # "ok"
          /\ Refuse(req.addr, DownloadTarget(req))
       \/ /\ DownloadTarget(req) = "ok"
          /\ ~req.sized
          /\ Refuse(req.addr, "CommandInvalid")
       \/ /\ DownloadTarget(req) = "ok"
          /\ req.sized
          /\ ~DeclaredSizeOK(req)
          /\ Refuse(req.addr, "LengthHigh")
       \/ /\ DownloadTarget(req) = "ok"
          /\ req.sized
          /\ DeclaredSizeOK(req)
          /\ transfer' = Download(req.addr, <<>>, req.size, FALSE)
          /\ Reply(EncodeDownloadResponse(req.addr))
          /\ UNCHANGED <<od, lastWrite, served>>

-----------------------------------------------------------------------------
(* on_upload_initiate                                                      *)

UploadTarget(req) ==
    IF req.addr \notin Objects THEN "ObjectDoesNotExist"
    ELSE IF ~Readable(req.addr) THEN "ReadOfWriteOnly"
    ELSE "ok"

OnUploadInitiate ==
    /\ Handle("UploadInitiate")
    /\ UNCHANGED <<od, lastWrite>>
    /\ LET addr == Head(c2s).addr IN
       \/ /\ UploadTarget(Head(c2s)) # "ok"
          /\ ReplyAbort(addr, UploadTarget(Head(c2s)))
          /\ UNCHANGED <<transfer, served>>
       \/ /\ UploadTarget(Head(c2s)) = "ok"
          /\ FitsExpedited(od[addr])
          /\ ServedRead(addr)
          /\ Reply(EncodeUploadExpeditedResponse(addr, od[addr]))
          /\ UNCHANGED transfer
       \/ /\ UploadTarget(Head(c2s)) = "ok"
          /\ ~FitsExpedited(od[addr])
          /\ ServedRead(addr)
          /\ transfer' = Upload(addr, od[addr], 0, FALSE)
          /\ Reply(EncodeUploadInitiateSegmentedResponse(addr, Len(od[addr])))

-----------------------------------------------------------------------------
(* on_upload_segment: the transfer is taken first and put back only to go  *)
(* on, so every refusal ends it, a running download included.              *)

\* The toggle bit is the expected one; and the fault of not looking at it.
AnyToggle(frame) == TRUE
InSequence(frame) == frame.toggle = transfer.toggle

OnUploadSegment ==
    /\ Handle("UploadSegment")
    /\ UNCHANGED <<od, lastWrite, served>>
    /\ \/ /\ Uploading
          /\ InSequence(Head(c2s))
          /\ Reply(EncodeDataSegment(transfer.data, transfer.pos, transfer.toggle))
          /\ transfer' =
                IF IsLastSegment(transfer.data, transfer.pos) THEN NoTransfer
                ELSE [transfer EXCEPT
                        !.pos = SegmentEnd(transfer.data, transfer.pos),
                        !.toggle = ~transfer.toggle]
       \/ /\ Uploading
          /\ ~InSequence(Head(c2s))
          /\ ReplyAbort(transfer.addr, "ToggleBitNotAlternated")
          /\ transfer' = NoTransfer
       \/ /\ ~Uploading
          /\ ReplyAbort(NoAddress, "CommandInvalid")
          /\ transfer' = NoTransfer

-----------------------------------------------------------------------------
(* on_download_segment, with the same taking of the transfer               *)

\* Vec::extend_from_slice finds room; and the fault of an unbounded buffer.
Unbounded(buf) == TRUE
FitsBuffer(buf) == Len(buf) <= MaxLen

\* All declared bytes have come; and the fault of not counting them.
AnyCount(buf) == TRUE
AsDeclared(buf) == Len(buf) = transfer.declared

OnDownloadSegment ==
    /\ Handle("Segment")
    /\ LET seg  == Head(c2s)
           buf  == transfer.buf \o seg.data
           fits == FitsBuffer(buf)
       IN
       \/ /\ ~Downloading
          /\ ReplyAbort(NoAddress, "CommandInvalid")
          /\ transfer' = NoTransfer
          /\ UNCHANGED <<od, lastWrite, served>>
       \/ /\ Downloading
          /\ ~InSequence(seg)
          /\ ReplyAbort(transfer.addr, "ToggleBitNotAlternated")
          /\ transfer' = NoTransfer
          /\ UNCHANGED <<od, lastWrite, served>>
       \/ /\ Downloading
          /\ InSequence(seg)
          /\ ~fits
          /\ ReplyAbort(transfer.addr, "LengthHigh")
          /\ transfer' = NoTransfer
          /\ UNCHANGED <<od, lastWrite, served>>
       \/ /\ Downloading
          /\ InSequence(seg)
          /\ fits
          /\ ~seg.last
          /\ Reply(EncodeDownloadSegmentResponse(seg.toggle))
          /\ transfer' = [transfer EXCEPT !.buf = buf, !.toggle = ~transfer.toggle]
          /\ UNCHANGED <<od, lastWrite, served>>
       \/ /\ Downloading
          /\ InSequence(seg)
          /\ fits
          /\ seg.last
          /\ ~AsDeclared(buf)
          /\ ReplyAbort(transfer.addr, "LengthLow")
          /\ transfer' = NoTransfer
          /\ UNCHANGED <<od, lastWrite, served>>
       \/ /\ Downloading
          /\ InSequence(seg)
          /\ fits
          /\ seg.last
          /\ AsDeclared(buf)
          /\ WriteObject(transfer.addr, buf)
          /\ Reply(EncodeDownloadSegmentResponse(seg.toggle))
          /\ transfer' = NoTransfer

-----------------------------------------------------------------------------

\* A client abort is unconfirmed: no reply.
OnClientAbort ==
    /\ Handle("Abort")
    /\ transfer' = NoTransfer
    /\ UNCHANGED <<od, lastWrite, served, s2c>>

OnUnknown ==
    /\ Handle("Unknown")
    /\ Refuse(Head(c2s).addr, "CommandInvalid")

ServerStep ==
    \/ OnDownloadExpedited
    \/ OnDownloadSegmented
    \/ OnUploadInitiate
    \/ OnUploadSegment
    \/ OnDownloadSegment
    \/ OnClientAbort
    \/ OnUnknown

\* SdoServer::take_write, polled by the application.
TakeWrite ==
    /\ lastWrite # None
    /\ lastWrite' = None
    /\ UNCHANGED <<od, transfer, served>>
    /\ UNCHANGED busVars

\* ObjectDictionary::set: the application publishes a value of the object's
\* type, whatever the master's access to it.
DeviceSet(o, value) ==
    /\ IsValue(Type[o], value)
    /\ od' = [od EXCEPT ![o] = value]
    /\ UNCHANGED <<transfer, lastWrite, served>>
    /\ UNCHANGED busVars
=============================================================================
