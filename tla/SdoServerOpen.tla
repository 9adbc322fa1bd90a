---------------------------- MODULE SdoServerOpen ----------------------------
(***************************************************************************)
(* The SDO server alone, against a client that sends any request at any    *)
(* time: other masters on the bus, other implementations, stray frames.    *)
(***************************************************************************)
EXTENDS SdoServer

CONSTANTS
    Requests,  \* the requests that may arrive
    Published  \* the values the application may publish

ASSUME SdoServerOpenAssumption ==
    /\ Requests \subseteq RequestFrames
    /\ \A req \in Requests : WellFormed(req)

openVars == <<busVars, serverVars>>

OpenInit == BusInit /\ ServerInit

\* A request arrives once the reply to the one before has left.
Request ==
    /\ c2s = <<>>
    /\ \E req \in Requests : c2s' = <<req>>
    /\ s2c' = <<>>
    /\ served' = <<>>
    /\ UNCHANGED <<od, transfer, lastWrite>>

Publish == \E o \in Objects, value \in Published : DeviceSet(o, value)

OpenNext == Request \/ ServerStep \/ TakeWrite \/ Publish

OpenSpec == OpenInit /\ [][OpenNext]_openVars

OpenTypeOK == BusTypeOK /\ ServerTypeOK

\* What a request changes in the dictionary is announced: a step of the server
\* that changes an object leaves its address for take_write, and last_write
\* names no object that the step did not write.
WritesAreAnnounced ==
    [][ServerStep =>
         /\ \A o \in Objects : od'[o] # od[o] => lastWrite' = o
         /\ lastWrite' # lastWrite =>
                \E i \in DOMAIN served' :
                    served'[i].op = "write" /\ served'[i].addr = lastWrite']_openVars

\* Every request but an abort is answered by exactly one frame, and an abort by
\* none: the client waits for each answer before it goes on.
EveryRequestAnswered ==
    [][ServerStep =>
         Len(s2c') = Len(s2c) + (IF Head(c2s).cs = "Abort" THEN 0 ELSE 1)]_openVars

\* A segmented download is stored whole or not at all: the step that stores it
\* ends a transfer whose bytes are as many as it declared, and takes all of
\* them; no other segment request touches the dictionary.
StoredWhole ==
    [][ServerStep /\ Head(c2s).cs \in {"Segment", "UploadSegment"} =>
         \/ UNCHANGED od
         \/ /\ transfer.kind = "Download"
            /\ transfer' = NoTransfer
            /\ Len(transfer.buf) + Len(Head(c2s).data) = transfer.declared
            /\ od' = [od EXCEPT ![transfer.addr] =
                        Decode(Type[transfer.addr], transfer.buf \o Head(c2s).data)]]_openVars
=============================================================================
