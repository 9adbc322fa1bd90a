------------------------------ MODULE SdoSystem ------------------------------
(***************************************************************************)
(* One SDO client and one SDO server on a bus that may lose frames: the    *)
(* host's sdo_read and sdo_write against a node's object dictionary, which *)
(* the node's application changes too.                                     *)
(***************************************************************************)
EXTENDS SdoServer, SdoClient

CONSTANTS
    Values,      \* the byte strings that calls and the application store
    MaxInFlight  \* frames under way at most when a call starts or is repeated

ASSUME SdoSystemAssumption ==
    /\ Values \subseteq Seq(Byte)
    /\ MaxInFlight \in Nat

VARIABLES
    lost,    \* history: whether a frame has been lost since the call started
    foreign  \* a frame of another node has come while recv_on waits

roundVars == <<lost, foreign>>
vars == <<busVars, serverVars, clientVars, roundVars>>

Init == BusInit /\ ServerInit /\ ClientInit /\ lost = FALSE /\ foreign = FALSE

TypeOK ==
    /\ BusTypeOK /\ ServerTypeOK /\ ClientTypeOK
    /\ lost \in BOOLEAN
    /\ foreign \in BOOLEAN

-----------------------------------------------------------------------------

\* A call of the host; the history of accesses starts anew with it.
StartCall ==
    /\ \E addr \in Address, type \in DataType :
          \/ StartRead(addr, type)
          \/ \E value \in Values : StartWrite(addr, type, value)
    /\ Len(c2s) + Len(s2c) <= MaxInFlight
    /\ served' = <<>>
    /\ lost' = FALSE
    /\ UNCHANGED <<od, transfer, lastWrite, foreign>>

Serve == ServerStep /\ UNCHANGED <<clientVars, roundVars>>

Respond == OnResponse /\ UNCHANGED <<serverVars, roundVars>>

Lose ==
    /\ LoseRequest \/ LoseResponse
    /\ lost' = TRUE
    /\ UNCHANGED <<serverVars, clientVars, foreign>>

\* A frame of another node, while no answer is under way.  recv_on drops it
\* and calls read_frame again, which has the whole timeout once more.
Foreign ==
    /\ result = Pending
    /\ Drained
    /\ ~foreign
    /\ foreign' = TRUE
    /\ UNCHANGED <<busVars, serverVars, clientVars, lost>>

DropForeign ==
    /\ foreign
    /\ foreign' = FALSE
    /\ UNCHANGED <<busVars, serverVars, clientVars, lost>>

\* The timeout is long enough for every frame that is not lost.
TimelyTimeout == Timeout /\ Drained /\ ~foreign /\ UNCHANGED <<serverVars, roundVars>>

\* The node answers, or the bus delivers, after the client has given up.
EarlyTimeout == Timeout /\ UNCHANGED <<serverVars, roundVars>>

Application ==
    /\ TakeWrite \/ \E o \in Objects, value \in Values : DeviceSet(o, value)
    /\ UNCHANGED <<clientVars, roundVars>>

Work == StartCall \/ Serve \/ Respond \/ Application

\* A bus that loses frames and has other traffic, and one that loses frames
\* and may be slower than the read timeout.
Next     == Work \/ TimelyTimeout \/ Lose \/ Foreign \/ DropForeign
LateNext == Work \/ EarlyTimeout \/ Lose

Spec     == Init /\ [][Next]_vars
LateSpec == Init /\ [][LateNext]_vars

\* The node's main loop handles what it receives, the host's loop takes each
\* response, recv_on drops what is not for it, and the read timeout fires if no
\* frame comes: none of them needs the user.
FairSpec ==
    /\ Spec
    /\ WF_vars(Serve) /\ WF_vars(Respond)
    /\ WF_vars(DropForeign) /\ WF_vars(TimelyTimeout)

-----------------------------------------------------------------------------
(* A bus that repeats frames, with a fresh socket per call (cli/src/main.rs *)
(* opens one per command) and a quiet bus before each.                     *)

Duplicate ==
    /\ Len(c2s) + Len(s2c) + Len(served) < MaxInFlight
    /\ DuplicateRequest \/ DuplicateResponse
    /\ UNCHANGED <<serverVars, clientVars, roundVars>>

FreshSocket ==
    /\ result # Pending
    /\ s2c # <<>>
    /\ s2c' = <<>>
    /\ UNCHANGED <<c2s, serverVars, clientVars, roundVars>>

DuplicatingNext ==
    \/ Drained /\ StartCall
    \/ Serve \/ Respond \/ Application \/ TimelyTimeout \/ Lose
    \/ Duplicate \/ FreshSocket

DuplicatingSpec == Init /\ [][DuplicatingNext]_vars

-----------------------------------------------------------------------------
(* Properties                                                              *)

\* The access a successful call must have made, and the value it returns.
Accessed(op, addr, value) == [op |-> op, addr |-> addr, value |-> value]

\* What the host makes of the bytes of a value: the result of the call.
Returns(value) ==
    /\ Decodable(call.type, value)
    /\ result.value = Decode(call.type, value)

\* A read that succeeds returns one value that the object named in the call
\* held, whole, at one moment during the call: sdo_read, with segments cut by
\* the server's on_upload_segment and joined by the client's on_upload_seg
\* while the application keeps changing the object.
ReadReturnsObject ==
    result.kind = "Value" =>
        /\ call.op = "read"
        /\ \E v \in {served[i].value : i \in DOMAIN served} :
              /\ served = <<Accessed("read", call.addr, v)>>
              /\ Returns(v)

\* The call names an object that exists, allows the access and has the type
\* the caller says.
Legal ==
    /\ call.addr \in Objects
    /\ call.type = Type[call.addr]
    /\ IF call.op = "read" THEN Readable(call.addr) ELSE Writable(call.addr)

\* The two ends of a running upload agree whenever a segment is requested: the
\* bytes the client has are those before the server's position, and the toggle
\* bits match (on_upload_seg against on_upload_segment).
UploadInStep ==
    client.state = "UploadSeg" /\ c2s # <<>> =>
        /\ transfer.kind = "Upload"
        /\ transfer.addr = call.addr
        /\ client.buf = SubSeq(transfer.data, 1, transfer.pos)
        /\ client.toggle = transfer.toggle

\* The two ends of a running download agree whenever a segment is under way:
\* it is the piece the server lacks, for the object the call names
\* (send_download_segment against on_download_segment).
DownloadInStep ==
    client.state = "DownloadSeg" /\ c2s # <<>> =>
        /\ transfer.kind = "Download"
        /\ transfer.addr = call.addr
        /\ transfer.declared = Len(client.data)
        /\ transfer.toggle = client.toggle
        /\ transfer.buf \o Head(c2s).data = SubSeq(client.data, 1, client.pos)

\* Whenever a segment is under way, client and server agree on the transfer.
InStep == UploadInStep /\ DownloadInStep

\* A legal call is never aborted, by either side, whatever transfers earlier calls
\* have left behind in the server; and if no frame of it is lost it succeeds,
\* without the timeout: every answer is the result or draws the next request.
LegalCallSucceeds ==
    call # NoCall /\ Legal =>
        /\ result.kind # "Aborted"
        /\ ~lost => /\ result.kind \in {"Pending", "Value", "Written"}
                    /\ result = Pending => ~Drained

\* Every call of sdo_read and sdo_write returns, unless frames of other nodes
\* go on for ever to come within the read timeout of each other (recv_on).
EveryCallReturns ==
    (<>[][~Foreign]_vars) => (result = Pending ~> result # Pending)

\* On a bus that repeats frames a call that succeeds still has its own, whole
\* value: the toggle bit and the command specifiers catch the repetition
\* within a transfer.
IntactDespiteDuplicates ==
    /\ result.kind = "Value" =>
          /\ call.op = "read"
          /\ \E i \in DOMAIN served :
                /\ served[i].op = "read"
                /\ served[i].addr = call.addr
                /\ Returns(served[i].value)
    /\ result.kind = "Written" =>
          \E i \in DOMAIN served :
                served[i] = Accessed("write", call.addr,
                                     Decode(Type[call.addr], call.value))
    /\ \A i \in DOMAIN served :
          served[i].op = "write" =>
                served[i] = Accessed("write", call.addr,
                                     Decode(Type[call.addr], call.value))

Atomic == INSTANCE AtomicObjects WITH mem <- od, made <- served

\* Calls over the lossy bus are atomic accesses to the dictionary.
CallsAreAtomic == Atomic!Spec
=============================================================================
