------------------------------ MODULE SdoClient ------------------------------
(***************************************************************************)
(* The SDO client of core/src/sdo/client.rs driven by the blocking calls   *)
(* sdo_read and sdo_write of host/src/transport.rs: send a request, wait   *)
(* for the next response on the node's COB-ID, feed it to                  *)
(* SdoClient::on_response, and send what that asks for, until the          *)
(* transaction completes, aborts, or the socket's read timeout expires.    *)
(* async_transport.rs runs the same loop; dropping its future has the      *)
(* effect of a timeout.                                                    *)
(***************************************************************************)
EXTENDS SdoBus

VARIABLES
    client,  \* SdoClient.state
    call,    \* the sdo_read or sdo_write made last
    result   \* what that call returned, or "Pending" while it runs

clientVars == <<client, call, result>>

Idle == [state |-> "Idle"]
Pending == [kind |-> "Pending"]

ReadCall(addr, type)    == [op |-> "read", addr |-> addr, type |-> type]
WriteCall(addr, type, value) ==
    [op |-> "write", addr |-> addr, type |-> type, value |-> value]

ClientStates ==
    [state : {"Idle", "DownloadExpedited"}]
    \cup [state : {"DownloadInit"}, data : Seq(Byte)]
    \cup [state : {"DownloadSeg"}, data : Seq(Byte), pos : Nat, toggle : BOOLEAN]
    \cup [state : {"UploadInit"}, type : DataType]
    \cup [state : {"UploadSeg"}, type : DataType, buf : Seq(Byte), toggle : BOOLEAN]

Calls == [op : {"read"}, addr : Address, type : DataType]
         \cup [op : {"write"}, addr : Address, type : DataType, value : Seq(Byte)]

Results == [kind : {"Pending", "Written", "Io"}]
           \cup [kind : {"Value"}, value : Seq(Byte)]
           \cup [kind : {"Aborted"}, code : AbortCode]

NoCall == [op |-> "none"]

ClientTypeOK ==
    /\ client \in ClientStates
    /\ call \in {NoCall} \cup Calls
    /\ result \in Results

ClientInit ==
    /\ client = Idle
    /\ call = NoCall
    /\ result = [kind |-> "Io"]

-----------------------------------------------------------------------------
(* Starting a transaction: SdoClient::read and SdoClient::write            *)

StartRead(addr, type) ==
    /\ result # Pending
    /\ client' = [state |-> "UploadInit", type |-> type]
    /\ c2s' = Append(c2s, EncodeUploadRequest(addr))
    /\ call' = ReadCall(addr, type)
    /\ result' = Pending
    /\ UNCHANGED s2c

StartWrite(addr, type, value) ==
    /\ result # Pending
    /\ IsValue(type, value)
    /\ IF FitsExpedited(value)
       THEN /\ client' = [state |-> "DownloadExpedited"]
            /\ c2s' = Append(c2s, EncodeDownloadExpedited(addr, value))
       ELSE /\ client' = [state |-> "DownloadInit", data |-> value]
            /\ c2s' = Append(c2s, EncodeDownloadInitiateSegmented(addr, Len(value)))
    /\ call' = WriteCall(addr, type, value)
    /\ result' = Pending
    /\ UNCHANGED s2c

-----------------------------------------------------------------------------
(* One pass of the loop: recv_on, on_response, and the event it yields     *)

Receive(state) ==
    /\ result = Pending
    /\ s2c # <<>>
    /\ client.state = state
    /\ s2c' = Tail(s2c)
    /\ UNCHANGED call

\* SdoEvent::Send
Send(state, frame) ==
    /\ client' = state
    /\ c2s' = Append(c2s, frame)
    /\ UNCHANGED result

\* SdoEvent::Complete and SdoEvent::Aborted: the call returns.
Return(outcome) ==
    /\ client' = Idle
    /\ result' = outcome
    /\ UNCHANGED c2s

AbortCall(code) == Return([kind |-> "Aborted", code |-> code])

Resp == Head(s2c)
IsAbort == Resp.cs = "Abort"

\* Fault: an abort ends the call as if it had succeeded.
AbortTakenAsSuccess ==
    /\ Receive(client.state)
    /\ IsAbort
    /\ Return([kind |-> "Written"])

OnAbort ==
    /\ Receive(client.state)
    /\ IsAbort
    /\ AbortCall(Resp.code)

\* The address a download response confirms is decoded and dropped.
OnDownloadExpeditedResponse ==
    /\ Receive("DownloadExpedited")
    /\ ~IsAbort
    /\ IF Resp.cs = "DownloadResponse"
       THEN Return([kind |-> "Written"])
       ELSE AbortCall("General")

SendDownloadSegment(data, pos, toggle) ==
    Send([state |-> "DownloadSeg", data |-> data, pos |-> SegmentEnd(data, pos),
          toggle |-> toggle],
         EncodeDataSegment(data, pos, toggle))

OnDownloadInit ==
    /\ Receive("DownloadInit")
    /\ ~IsAbort
    /\ IF Resp.cs = "DownloadResponse"
       THEN SendDownloadSegment(client.data, 0, FALSE)
       ELSE AbortCall("General")

OnDownloadSeg ==
    /\ Receive("DownloadSeg")
    /\ ~IsAbort
    /\ \/ /\ Resp.cs # "DownloadSegmentResponse"
          /\ AbortCall("General")
       \/ /\ Resp.cs = "DownloadSegmentResponse"
          /\ Resp.toggle # client.toggle
          /\ AbortCall("ToggleBitNotAlternated")
       \/ /\ Resp.cs = "DownloadSegmentResponse"
          /\ Resp.toggle = client.toggle
          /\ client.pos >= Len(client.data)
          /\ Return([kind |-> "Written"])
       \/ /\ Resp.cs = "DownloadSegmentResponse"
          /\ Resp.toggle = client.toggle
          /\ client.pos < Len(client.data)
          /\ SendDownloadSegment(client.data, client.pos, ~client.toggle)

\* The address of the response and the size a segmented one declares are
\* decoded and dropped.
OnUploadInit ==
    /\ Receive("UploadInit")
    /\ ~IsAbort
    /\ \/ /\ Resp.cs = "UploadExpedited"
          /\ Decodable(client.type, Resp.data)
          /\ Return([kind |-> "Value", value |-> Decode(client.type, Resp.data)])
       \/ /\ Resp.cs = "UploadSegmented"
          /\ Send([state |-> "UploadSeg", type |-> client.type, buf |-> <<>>,
                   toggle |-> FALSE],
                  EncodeUploadSegmentRequest(FALSE))
       \/ /\ Resp.cs = "UploadExpedited" => ~Decodable(client.type, Resp.data)
          /\ Resp.cs # "UploadSegmented"
          /\ AbortCall("General")

OnUploadSeg ==
    /\ Receive("UploadSeg")
    /\ ~IsAbort
    /\ LET buf  == client.buf \o Resp.data
           fits == Len(buf) <= MaxLen
       IN
       \/ /\ Resp.cs # "Segment"
          /\ AbortCall("General")
       \/ /\ Resp.cs = "Segment"
          /\ Resp.toggle # client.toggle
          /\ AbortCall("ToggleBitNotAlternated")
       \/ /\ Resp.cs = "Segment"
          /\ Resp.toggle = client.toggle
          /\ ~fits \/ (Resp.last /\ ~Decodable(client.type, buf))
          /\ AbortCall("General")
       \/ /\ Resp.cs = "Segment"
          /\ Resp.toggle = client.toggle
          /\ fits
          /\ Resp.last
          /\ Decodable(client.type, buf)
          /\ Return([kind |-> "Value", value |-> Decode(client.type, buf)])
       \/ /\ Resp.cs = "Segment"
          /\ Resp.toggle = client.toggle
          /\ fits
          /\ ~Resp.last
          /\ Send([client EXCEPT !.buf = buf, !.toggle = ~client.toggle],
                  EncodeUploadSegmentRequest(~client.toggle))

OnResponse ==
    \/ OnAbort
    \/ OnDownloadExpeditedResponse
    \/ OnDownloadInit
    \/ OnDownloadSeg
    \/ OnUploadInit
    \/ OnUploadSeg

\* Fault: the timeout covers the first response only.
TimeoutOnInitiateOnly ==
    /\ result = Pending
    /\ client.state \in {"UploadInit", "DownloadInit", "DownloadExpedited"}
    /\ client' = Idle
    /\ result' = [kind |-> "Io"]
    /\ UNCHANGED call
    /\ UNCHANGED busVars

\* The read timeout of the socket ends the call with an I/O error.  The
\* request or the response that is late stays under way.
Timeout ==
    /\ result = Pending
    /\ client' = Idle
    /\ result' = [kind |-> "Io"]
    /\ UNCHANGED call
    /\ UNCHANGED busVars
=============================================================================
