------------------------------- MODULE Device --------------------------------
(***************************************************************************)
(* A device on the bus (core/src/node.rs): the dispatch of frames by their *)
(* COB-IDs, the node-id and its change over LSS, emergencies with the      *)
(* error objects a master reads, and the SYNC producer.  SDO accesses are  *)
(* single exchanges here, and the node has no PDOs.                        *)
(***************************************************************************)
EXTENDS Services, ObjectDictionary, Nmt, Functions

CONSTANTS
    Ids,                \* node-ids on this bus
    Identity,           \* the LSS address of the node (0x1018)
    Errors,             \* emergencies: pairs of a code and a register
    Overflows,          \* counter overflows the application configures (0x1019)
    MAX_ERROR_HISTORY,  \* entries of Node.error_history
    HistoryLens,        \* StandardObjects.error_history_len
    MaxRaised           \* emergencies between two clearings, at most

\* Error codes of two bytes; 0 is an error reset.
ErrorCode == {code \in Nat : 0 < code /\ code < 65536}

ASSUME DeviceAssumption ==
    /\ Ids \subseteq NodeIds /\ Ids # {}
    /\ Errors \subseteq ErrorCode \X Byte
    /\ Overflows \subseteq Byte
    /\ MAX_ERROR_HISTORY \in Byte \ {0}  \* the count of 0x1003 is a byte
    /\ HistoryLens \subseteq Byte /\ HistoryLens # {}
    /\ MaxRaised \in Nat

UNCONFIGURED == 255
LssSlave == INSTANCE Lss WITH W <- 1, LastSub <- 1, MaxNodeId <- 127,
                              Unconfigured <- UNCONFIGURED

VARIABLES
    id,        \* Node.node_id
    sdoId,     \* the node-id of Node.sdo
    lss,       \* Node.lss, always enabled
    nmt,       \* Node.nmt
    od,        \* Node.od
    register,  \* Node.error_register
    history,   \* Node.error_history
    sync,      \* Node.sync_producer: its overflow and its value
    reset,     \* the application has a reset to carry out
    sent,      \* the frames the last step sent, one at most
    raised,    \* history: the emergencies since the last clearing, latest first
    stale,     \* history: a master has written 0x1003:0 since the last mirroring
    heard,     \* history: the last EMCY frame, as a host decodes it
    lastSync,  \* history: the count of the last SYNC frame since it was configured
    foreign    \* history: the last step received a frame that is not for this node

nodeVars == <<id, sdoId, lss, nmt, od, register, history, sync>>
errorVars == <<register, history, raised, heard>>
syncVars == <<sync, lastSync>>
vars == <<nodeVars, reset, sent, raised, stale, heard, lastSync, foreign>>

NoSync == [overflow |-> -1, value |-> 0]

\* Receivers besides the nodes: every node, every LSS slave, and the hosts.
Everybody == -1
Slaves == -2
Hosts == 0

\* A frame of the node; `service` says which of its services sends it.
TxFrame(service, cob, data) == [service |-> service, cob |-> cob, data |-> data]

-----------------------------------------------------------------------------
(* The objects (core/src/standard.rs)                                      *)

ErrorRegister == Address(4097, 0)       \* 0x1001
ErrorCount    == Address(4099, 0)       \* 0x1003:0
ErrorField(sub) == Address(4099, sub)
HeartbeatTime == Address(4119, 0)       \* 0x1017

\* The entries StandardObjects::insert_into adds; 0x1000 and 0x1018 are left out.
StandardObjects(len) ==
    LET fields == {ErrorField(sub) : sub \in 1..len}
        count == IF len = 0 THEN {} ELSE {ErrorCount} IN
    [a \in {ErrorRegister, HeartbeatTime} \cup count \cup fields |->
        CASE a = ErrorRegister -> Entry("Unsigned8", 0, "Ro")
          [] a = HeartbeatTime -> Entry("Unsigned16", 0, "Rw")
          [] a = ErrorCount    -> Entry("Unsigned8", 0, "Rw")
          [] a \in fields      -> Entry("Unsigned32", 0, "Ro")]

\* The entries of 0x1003 the dictionary has, and those an error history fills.
ErrorFields == {sub \in 1..255 : Has(od, ErrorField(sub))}
Filled(h) == ErrorFields \cap 1..Len(h)

\* Node::mirror_error_objects; fault: the count is not mirrored.
MirroredWithoutCount(r, h) ==
    [a \in DOMAIN od |->
        IF a = ErrorRegister THEN [od[a] EXCEPT !.value = r]
        ELSE IF a \in {ErrorField(sub) : sub \in Filled(h)} THEN [od[a] EXCEPT !.value = h[a[2]]]
        ELSE od[a]]
Mirrored(r, h) ==
    LET counted == Set(Set(od, ErrorRegister, "Unsigned8", r),
                       ErrorCount, "Unsigned8", Len(h)) IN
    [a \in DOMAIN od |->
        IF a \in {ErrorField(sub) : sub \in Filled(h)}
        THEN Set(counted, a, "Unsigned32", h[a[2]])[a] ELSE counted[a]]

-----------------------------------------------------------------------------

Init ==
    /\ id \in Ids
    /\ sdoId = id
    \* Node::enable_lss, or Node::enable_lss_unconfigured.
    /\ lss \in {LssSlave!NewSlave(id), LssSlave!NewSlave(UNCONFIGURED)}
    /\ nmt = "Initialising"
    /\ od \in {StandardObjects(n) : n \in HistoryLens}
    /\ register = 0
    /\ history = <<>>
    /\ sync = NoSync
    /\ reset = (lss.nodeId # UNCONFIGURED)
    /\ sent = <<>>
    /\ raised = <<>>
    /\ stale = FALSE
    /\ heard = DecodeEmcy(EncodeEmcy(0, 0, <<0, 0, 0, 0, 0>>))
    /\ lastSync = 0
    /\ foreign = FALSE

lss_unconfigured == lss.nodeId = UNCONFIGURED

-----------------------------------------------------------------------------
(* Frames from the bus                                                     *)

OnLss(request) ==
    /\ lss' = LssSlave!Handled(lss, Identity, request)
    /\ LET reply == LssSlave!Reply(lss, Identity, request) IN
       sent' = IF reply = LssSlave!NoReply THEN <<>>
               ELSE <<TxFrame("LSS", LSS_SLAVE_COB_ID, reply)>>
    /\ UNCHANGED <<id, sdoId, nmt, od, errorVars, syncVars, stale>>

OnNmt(data) ==
    /\ nmt' = IF \E c \in NmtCommand : Commands(data, c, id)
              THEN Applied(nmt, CHOOSE c \in NmtCommand : Commands(data, c, id))
              ELSE nmt
    /\ sent' = <<>>
    /\ UNCHANGED <<id, sdoId, lss, od, errorVars, syncVars, stale>>

\* A value fits in one frame each way.
SdoReply(request) ==
    CASE request.op = "read" /\ CanRead(od, request.addr) ->
            [op |-> "read", addr |-> request.addr, value |-> od[request.addr].value]
      [] request.op = "write" /\ CanWrite(od, request.addr, request.type) ->
            [op |-> "write", addr |-> request.addr]
      [] OTHER -> [op |-> "abort", addr |-> request.addr]

OnSdo(request) ==
    /\ SdoActive(nmt)
    /\ sent' = <<TxFrame("SDO tx", sdo_response_cob(sdoId), SdoReply(request))>>
    /\ od' = IF request.op = "write"
             THEN Write(od, request.addr, request.type, request.value) ELSE od
    /\ stale' = (stale \/ (request.addr = ErrorCount /\ request.op = "write"))
    /\ UNCHANGED <<id, sdoId, lss, nmt, errorVars, syncVars>>

Ignore ==
    /\ sent' = <<>>
    /\ UNCHANGED <<nodeVars, raised, heard, lastSync, stale>>

\* Node::on_frame; a frame on_rpdo looks for matches no RPDO.
OnFrame(cob, data) ==
    CASE cob = LSS_MASTER_COB_ID -> OnLss(data)
      [] cob = NMT_COMMAND_COB_ID /\ ~lss_unconfigured -> OnNmt(data)
      [] cob = sdo_request_cob(sdoId) /\ ~lss_unconfigured /\ SdoActive(nmt) -> OnSdo(data)
      [] OTHER -> Ignore

\* What others put on the bus, each with its receiver: `target` is no node-id
\* in some commands, and the last frames are of other nodes.
Frames(cob, contents, for) == [cob : {cob}, data : contents, dest : {for}]

Reads == [op : {"read"}, addr : {ErrorRegister, ErrorField(1)}]
Writes == [op : {"write"}, addr : {ErrorCount}, type : {"Unsigned8"}, value : {0}]
LssRequests ==
    {LssSlave!SwitchGlobal(c) : c \in BOOLEAN}
    \cup {LssSlave!ConfigureNodeId(i) : i \in Ids \cup {128, UNCONFIGURED}}
    \cup {[cs |-> "InquireNodeId"],
          LssSlave!Fastscan(LssSlave!ZeroWord, LssSlave!FastscanInit, 0, 0)}

ServicesOf(i) ==
    {SYNC_COB_ID, TIME_COB_ID, LSS_SLAVE_COB_ID, emcy_cob_id(i), heartbeat_cob_id(i),
     sdo_response_cob(i), default_cob_id("Transmit", 1, i)}

TrafficOf(i) ==
    Frames(NMT_COMMAND_COB_ID, {encode_command(c, i) : c \in NmtCommand}, i)
    \cup Frames(sdo_request_cob(i), Reads \cup Writes, i)
    \cup UNION {Frames(cob, {<<5>>}, Hosts) : cob \in ServicesOf(i)}

Broadcasts ==
    Frames(NMT_COMMAND_COB_ID, {encode_command(c, BROADCAST) : c \in NmtCommand}, Everybody)
ToNobody == Frames(NMT_COMMAND_COB_ID, {encode_command("ResetNode", 200)}, Hosts)
ToSlaves == Frames(LSS_MASTER_COB_ID, LssRequests, Slaves)

Traffic == (UNION {TrafficOf(i) : i \in Ids}) \cup Broadcasts \cup ToNobody \cup ToSlaves

\* The application hands a frame to on_frame.  An NMT command after which the
\* node is initialising is its reset, as in the loop of the loopback example.
Receive ==
    \E frame \in Traffic :
        /\ OnFrame(frame.cob, frame.data)
        /\ foreign' = (frame.dest # Slaves /\ (lss_unconfigured \/ frame.dest \notin {id, Everybody}))
        /\ reset' = (reset \/ (frame.cob = NMT_COMMAND_COB_ID /\ nmt' = "Initialising"))

-----------------------------------------------------------------------------
(* The application                                                         *)

Application == foreign' = FALSE

\* A reset: Node::apply_lss_node_id, then Node::boot if the node has an id.
\* Faults: the SDO server is not rebuilt; the LSS slave keeps its old id; the
\* boot-up frame goes out under the old id.
AdoptKeepingLss(node) == id' = node /\ sdoId' = node /\ lss' = lss
AdoptKeepingSdo(node) == id' = node /\ sdoId' = sdoId /\ lss' = LssSlave!ApplyNodeId(lss)
Adopt(node) == id' = node /\ sdoId' = node /\ lss' = LssSlave!ApplyNodeId(lss)

BootupCobOld == heartbeat_cob_id(id)
BootupCob == heartbeat_cob_id(id')

CarryOutReset ==
    /\ reset
    /\ reset' = FALSE
    /\ IF lss.pending \in NodeIds THEN Adopt(lss.pending) ELSE UNCHANGED <<id, sdoId, lss>>
    /\ IF lss'.nodeId = UNCONFIGURED
       THEN UNCHANGED nmt /\ sent' = <<>>
       ELSE nmt' = Booted(nmt)
            /\ sent' = <<TxFrame("heartbeat", BootupCob, encode_heartbeat("Initialising"))>>
    /\ Application
    /\ UNCHANGED <<od, errorVars, syncVars, stale>>

Heartbeat ==
    /\ nmt # "Initialising"
    /\ sent' = <<TxFrame("heartbeat", heartbeat_cob_id(id), encode_heartbeat(nmt))>>
    /\ Application
    /\ UNCHANGED <<nodeVars, reset, raised, heard, lastSync, stale>>

\* Fault: a full history keeps its older entries where they are.
RecordedAtFrontOnly(code) ==
    IF Len(history) < MAX_ERROR_HISTORY THEN <<code>> \o history
    ELSE [history EXCEPT ![1] = code]
Recorded(code) ==
    <<code>> \o (IF Len(history) < MAX_ERROR_HISTORY THEN history
                 ELSE SubSeq(history, 1, MAX_ERROR_HISTORY - 1))

\* Fault: the bits of earlier errors are lost.
LatestRegister(bits) == Join(bits, GENERIC)
RegisterWith(bits) == Join(register, Join(bits, GENERIC))

SendEmcy(data) ==
    /\ sent' = <<TxFrame("EMCY", emcy_cob_id(id), data)>>
    /\ heard' = DecodeEmcy(data)

RaiseEmergency ==
    /\ ~lss_unconfigured
    /\ Len(raised) < MaxRaised
    /\ \E e \in Errors :
          /\ register' = RegisterWith(e[2])
          /\ history' = Recorded(e[1])
          /\ SendEmcy(EncodeEmcy(e[1], register', <<0, 0, 0, 0, 0>>))
          /\ raised' = <<e>> \o raised
    /\ od' = Mirrored(register', history')
    /\ stale' = FALSE
    /\ Application
    /\ UNCHANGED <<id, sdoId, lss, nmt, reset, syncVars>>

ClearErrors ==
    /\ ~lss_unconfigured
    /\ register' = 0
    /\ history' = <<>>
    /\ od' = Mirrored(register', history')
    /\ SendEmcy(EncodeEmcy(0, 0, <<0, 0, 0, 0, 0>>))
    /\ raised' = <<>>
    /\ stale' = FALSE
    /\ Application
    /\ UNCHANGED <<id, sdoId, lss, nmt, reset, syncVars>>

EnableSyncProducer ==
    /\ \E o \in Overflows :
          IF ValidOverflow(o)
          THEN sync' = [overflow |-> o, value |-> 0] /\ lastSync' = 0
          ELSE UNCHANGED syncVars
    /\ sent' = <<>>
    /\ Application
    /\ UNCHANGED <<id, sdoId, lss, nmt, reset, od, errorVars, stale>>

\* SyncCounter::advance; fault: the counter goes on from its overflow value.
WrapsToZero(counter) == (counter.value + 1) % (counter.overflow + 1)
Advanced(counter) ==
    IF counter.overflow < 2 THEN 0
    ELSE IF counter.value >= counter.overflow THEN 1
    ELSE counter.value + 1

ProduceSync ==
    /\ ~lss_unconfigured
    /\ sync # NoSync
    /\ sync' = [sync EXCEPT !.value = Advanced(sync)]
    /\ sent' = <<TxFrame("SYNC", SYNC_COB_ID, EncodeSync(sync'.value))>>
    /\ lastSync' = sync'.value
    /\ Application
    /\ UNCHANGED <<id, sdoId, lss, nmt, reset, od, errorVars, stale>>

Next ==
    \/ Receive \/ CarryOutReset \/ Heartbeat
    \/ RaiseEmergency \/ ClearErrors \/ EnableSyncProducer \/ ProduceSync

Spec == Init /\ [][Next]_vars

\* The application carries out a reset it has seen.
FairSpec == Spec /\ WF_vars(CarryOutReset)

-----------------------------------------------------------------------------
(* Properties                                                              *)

\* The error objects a master reads are the node's own state, through every order
\* of errors, clearings and SDO writes: the register always, the entries as far
\* as they exist, and the count unless a master wrote it since the last error or
\* clearing (Node::mirror_error_objects against ObjectDictionary::write).
MirrorInStep ==
    /\ od[ErrorRegister].value = register
    /\ \A sub \in Filled(history) : od[ErrorField(sub)].value = history[sub]
    /\ ErrorFields # {} /\ ~stale => od[ErrorCount].value = Len(history)

\* The error history holds the latest emergencies since the last clearing, the
\* latest first, however many there were (the shift in Node::raise_emergency).
HistoryIsMostRecent ==
    /\ Len(history) = (IF Len(raised) < MAX_ERROR_HISTORY THEN Len(raised) ELSE MAX_ERROR_HISTORY)
    /\ \A i \in DOMAIN history : history[i] = raised[i][1]

\* A host decodes from the last EMCY frame the latest error, or an error reset
\* when none is left, and the register it reads over SDO from 0x1001; both tell
\* exactly the errors since the last clearing, with the generic bit for any
\* (Node::raise_emergency, Node::clear_errors).
HostsAgreeOnErrors ==
    /\ heard.register = od[ErrorRegister].value
    /\ heard.code = IF raised = <<>> THEN 0 ELSE raised[1][1]
    /\ \A i \in 0..7 :
          Bit(heard.register, 2 ^ i) <=> \E e \in Range(raised) : i = 0 \/ Bit(e[2], 2 ^ i)

\* Once a node has an id it is one id: that of its frames, of its SDO server and
\* of its LSS slave; and no node without an id has booted (Node::set_node_id,
\* Node::apply_lss_node_id).
OneIdentity ==
    /\ sdoId = id
    /\ lss_unconfigured => nmt = "Initialising"
    /\ ~lss_unconfigured => lss.nodeId = id

\* Every frame the node sends is on the COB-ID of its service and its present
\* id, where the bus monitor labels it as that service; and a node without an
\* id sends nothing but LSS replies.
SpeaksAsItself ==
    \A i \in DOMAIN sent :
        /\ classify(sent[i].cob) = sent[i].service
        /\ sent[i].service \in {"EMCY", "SDO tx", "heartbeat"} => sent[i].cob % 128 = id
        /\ lss_unconfigured => sent[i].service = "LSS"

\* A frame for another node, for a host, or for no node at all, leaves no trace
\* in the node and gets no answer; neither does any frame but an LSS request
\* while the node has no id, its placeholder id included (Node::on_frame).
OthersLeaveNoTrace ==
    [][foreign' => UNCHANGED nodeVars /\ sent' = <<>>]_vars

\* The SYNC frames since the producer was configured count 1, 2, ... up to the
\* overflow value and start again at 1, or carry nothing (SyncCounter::advance).
SyncCounts ==
    [][sent' # <<>> /\ sent'[1].cob = SYNC_COB_ID =>
          sent'[1].data = IF sync.overflow = 0 THEN <<>>
                          ELSE <<(lastSync % sync.overflow) + 1>>]_vars

\* A node-id configured over LSS is the node's id after the next reset, unless
\* the master configures another one first (Node::apply_lss_node_id).
AssignmentTakesEffect ==
    \A i \in Ids : (reset /\ lss.pending = i) ~> (lss.pending # i \/ (id = i /\ lss.nodeId = i))
=============================================================================
