----------------------------- MODULE DeviceProofs -----------------------------
(***************************************************************************)
(* The device for all node-ids, errors, history lengths and overflow       *)
(* values: it has one identity and speaks under it, its error history is   *)
(* the latest of its errors, and its SYNC frames count.                    *)
(***************************************************************************)
EXTENDS Device, TLAPS

-----------------------------------------------------------------------------
(* Helpers                                                                 *)

SlaveFields == {"nodeId", "pending", "state", "selective", "fsSub"}

\* No LSS request changes the node-id of a slave, only the pending one.
LEMMA LssKeepsNodeId ==
    ASSUME NEW sl, DOMAIN sl = SlaveFields, NEW identity, NEW req
    PROVE  /\ DOMAIN LssSlave!Handled(sl, identity, req) = SlaveFields
           /\ LssSlave!Handled(sl, identity, req).nodeId = sl.nodeId
<1>1. /\ DOMAIN LssSlave!AfterSelective(sl, identity, req) = SlaveFields
      /\ LssSlave!AfterSelective(sl, identity, req).nodeId = sl.nodeId
  BY DEF LssSlave!AfterSelective, SlaveFields
<1>2. /\ DOMAIN LssSlave!AfterFastscan(sl, identity, req) = SlaveFields
      /\ LssSlave!AfterFastscan(sl, identity, req).nodeId = sl.nodeId
  BY DEF LssSlave!AfterFastscan, SlaveFields
<1>3. QED
  BY <1>1, <1>2 DEF LssSlave!Handled, SlaveFields

\* The id a reset adopts is the one the LSS slave has then.
LEMMA AdoptedId ==
    ASSUME NEW sl, DOMAIN sl = SlaveFields
    PROVE  /\ DOMAIN LssSlave!ApplyNodeId(sl) = SlaveFields
           /\ sl.pending \in NodeIds => LssSlave!ApplyNodeId(sl).nodeId = sl.pending
BY DEF LssSlave!ApplyNodeId, LssSlave!NodeId, NodeIds, SlaveFields

LEMMA NmtTyped ==
    ASSUME NEW s \in NmtState, NEW c \in NmtCommand
    PROVE  Applied(s, c) \in NmtState /\ Booted(s) \in NmtState
BY DEF Applied, Booted, NmtState, NmtCommand, Resets

\* The services' COB-IDs: 128 apart, and labelled as what they are.
LEMMA CobIds ==
    ASSUME NEW i \in NodeIds
    PROVE  /\ classify(emcy_cob_id(i)) = "EMCY" /\ emcy_cob_id(i) % 128 = i
           /\ classify(sdo_response_cob(i)) = "SDO tx" /\ sdo_response_cob(i) % 128 = i
           /\ classify(heartbeat_cob_id(i)) = "heartbeat" /\ heartbeat_cob_id(i) % 128 = i
           /\ classify(SYNC_COB_ID) = "SYNC"
           /\ classify(LSS_SLAVE_COB_ID) = "LSS"
           /\ SYNC_COB_ID \notin
                {emcy_cob_id(i), sdo_response_cob(i), heartbeat_cob_id(i), LSS_SLAVE_COB_ID}
<1> i \in Int /\ 0 < i /\ i < 128
  BY DEF NodeIds
<1>1. classify(emcy_cob_id(i)) = "EMCY" /\ emcy_cob_id(i) % 128 = i
  <2>1. PICK cob \in Int : cob = 128 + i
    OBVIOUS
  <2>2. 128 < cob /\ cob < 256 /\ cob % 128 = i
    BY <2>1
  <2>3. classify(cob) = "EMCY"
    BY <2>2 DEF classify
  <2>4. emcy_cob_id(i) = cob
    BY <2>1 DEF emcy_cob_id
  <2>5. classify(emcy_cob_id(i)) = "EMCY"
    BY <2>3, <2>4, Zenon
  <2>6. emcy_cob_id(i) % 128 = i
    BY <2>2, <2>4
  <2>7. QED
    BY <2>5, <2>6, Zenon
<1>2. classify(sdo_response_cob(i)) = "SDO tx" /\ sdo_response_cob(i) % 128 = i
  <2>1. PICK cob \in Int : cob = 1408 + i
    OBVIOUS
  <2>2. 1408 < cob /\ cob < 1536 /\ cob % 128 = i
    BY <2>1
  <2>3. classify(cob) = "SDO tx"
    BY <2>2 DEF classify
  <2>4. sdo_response_cob(i) = cob
    BY <2>1 DEF sdo_response_cob
  <2>5. classify(sdo_response_cob(i)) = "SDO tx"
    BY <2>3, <2>4, Zenon
  <2>6. sdo_response_cob(i) % 128 = i
    BY <2>2, <2>4
  <2>7. QED
    BY <2>5, <2>6, Zenon
<1>3. classify(heartbeat_cob_id(i)) = "heartbeat" /\ heartbeat_cob_id(i) % 128 = i
  <2>1. PICK cob \in Int : cob = 1792 + i
    OBVIOUS
  <2>2. 1792 < cob /\ cob < 1920 /\ cob % 128 = i
    BY <2>1
  <2>3. classify(cob) = "heartbeat"
    BY <2>2 DEF classify
  <2>4. heartbeat_cob_id(i) = cob
    BY <2>1 DEF heartbeat_cob_id
  <2>5. classify(heartbeat_cob_id(i)) = "heartbeat"
    BY <2>3, <2>4, Zenon
  <2>6. heartbeat_cob_id(i) % 128 = i
    BY <2>2, <2>4
  <2>7. QED
    BY <2>5, <2>6, Zenon
<1>4. classify(SYNC_COB_ID) = "SYNC" /\ classify(LSS_SLAVE_COB_ID) = "LSS"
  BY DEF classify, SYNC_COB_ID, LSS_SLAVE_COB_ID
<1>5. SYNC_COB_ID \notin
         {emcy_cob_id(i), sdo_response_cob(i), heartbeat_cob_id(i), LSS_SLAVE_COB_ID}
  BY DEF NodeIds, emcy_cob_id, sdo_response_cob, heartbeat_cob_id, SYNC_COB_ID,
         LSS_SLAVE_COB_ID
<1>6. QED
  BY <1>1, <1>2, <1>3, <1>4, <1>5

LEMMA Tuples ==
    /\ DOMAIN <<>> = {}
    /\ \A e : DOMAIN <<e>> = {1} /\ <<e>>[1] = e
<1>1. DOMAIN <<>> = {}
  <2>1. Len(<<>>) = 0 /\ \A S : <<>> \in Seq(S)
    OBVIOUS
  <2>2. DOMAIN <<>> = 1..0
    BY <2>1
  <2>3. QED
    BY <2>2
<1>2. ASSUME NEW e PROVE DOMAIN <<e>> = {1} /\ <<e>>[1] = e
  <2>1. DOMAIN <<e>> = 1..1
    OBVIOUS
  <2>2. QED
    BY <2>1
<1>3. QED
  BY <1>1, <1>2

-----------------------------------------------------------------------------
(* One identity                                                            *)

IdentityInv ==
    /\ id \in NodeIds
    /\ sdoId = id
    /\ DOMAIN lss = SlaveFields
    /\ lss.nodeId \in {UNCONFIGURED, id}
    /\ nmt \in NmtState
    /\ lss_unconfigured => nmt = "Initialising"

LEMMA IdentityInit == Init => IdentityInv
<1> SUFFICES ASSUME Init PROVE IdentityInv
  OBVIOUS
<1>1. lss = LssSlave!NewSlave(id) \/ lss = LssSlave!NewSlave(UNCONFIGURED)
  BY DEF Init
<1>2. DOMAIN lss = SlaveFields /\ lss.nodeId \in {UNCONFIGURED, id}
  BY <1>1 DEF Init, LssSlave!NewSlave, SlaveFields
<1>3. id \in Ids /\ sdoId = id /\ nmt = "Initialising"
  BY DEF Init
<1>4. id \in NodeIds
  BY <1>3, DeviceAssumption
<1>5. QED
  BY <1>2, <1>3, <1>4 DEF IdentityInv, NmtState

LEMMA ReceiveIdentity ==
    ASSUME IdentityInv, Receive
    PROVE  IdentityInv'
<1>1. PICK frame \in Traffic : OnFrame(frame.cob, frame.data)
  BY DEF Receive
<1>2. \/ OnLss(frame.data)
      \/ OnNmt(frame.data) /\ ~lss_unconfigured
      \/ OnSdo(frame.data)
      \/ Ignore
  BY <1>1 DEF OnFrame
<1>3. CASE OnLss(frame.data)
  BY <1>3, LssKeepsNodeId DEF OnLss, IdentityInv, lss_unconfigured
<1>4. CASE OnNmt(frame.data) /\ ~lss_unconfigured
  <2>1. nmt' \in NmtState
    BY <1>4, NmtTyped DEF OnNmt, IdentityInv
  <2>2. QED
    BY <1>4, <2>1 DEF OnNmt, IdentityInv, lss_unconfigured
<1>5. CASE OnSdo(frame.data) \/ Ignore
  BY <1>5 DEF OnSdo, Ignore, nodeVars, IdentityInv, lss_unconfigured
<1>6. QED
  BY <1>2, <1>3, <1>4, <1>5

LEMMA ResetIdentity ==
    ASSUME IdentityInv, CarryOutReset
    PROVE  IdentityInv'
<1>1. \/ /\ lss.pending \in NodeIds
         /\ id' = lss.pending /\ sdoId' = id' /\ lss' = LssSlave!ApplyNodeId(lss)
      \/ UNCHANGED <<id, sdoId, lss>>
  BY DEF CarryOutReset, Adopt
<1>2. /\ id' \in NodeIds /\ sdoId' = id' /\ DOMAIN lss' = SlaveFields
      /\ lss'.nodeId \in {UNCONFIGURED, id'}
      /\ lss'.nodeId = UNCONFIGURED => lss' = lss
  BY <1>1, AdoptedId DEF IdentityInv, NodeIds, UNCONFIGURED
<1>3. nmt' = nmt \/ nmt' = Booted(nmt)
  BY DEF CarryOutReset
<1>4. nmt' \in NmtState
  BY <1>3, NmtTyped DEF IdentityInv, NmtCommand
<1>5. lss'.nodeId = UNCONFIGURED => nmt' = nmt
  BY DEF CarryOutReset
<1>6. QED
  BY <1>2, <1>4, <1>5 DEF IdentityInv, lss_unconfigured

LEMMA IdentityStep == IdentityInv /\ [Next]_vars => IdentityInv'
<1> SUFFICES ASSUME IdentityInv, [Next]_vars PROVE IdentityInv'
  OBVIOUS
<1>1. CASE UNCHANGED <<id, sdoId, lss, nmt>>
  BY <1>1 DEF IdentityInv, lss_unconfigured
<1>2. Receive \/ CarryOutReset \/ UNCHANGED <<id, sdoId, lss, nmt>>
  BY DEF Next, Heartbeat, RaiseEmergency, ClearErrors, EnableSyncProducer, ProduceSync,
         nodeVars, vars
<1>3. QED
  BY <1>1, <1>2, ReceiveIdentity, ResetIdentity

LEMMA AlwaysIdentity == Spec => []IdentityInv
BY IdentityInit, IdentityStep, PTL DEF Spec

\* The id of a node is that of its SDO server and of its LSS slave, through any
\* order of LSS assignments, NMT resets and the application's handling of them;
\* and no node without an id has booted.
THEOREM NodeHasOneIdentity == Spec => []OneIdentity
<1>1. IdentityInv => OneIdentity
  BY DEF IdentityInv, OneIdentity, lss_unconfigured
<1>2. QED
  BY <1>1, AlwaysIdentity, PTL

-----------------------------------------------------------------------------
(* Speaking under that identity                                            *)

\* The one frame a step sends is on the COB-ID of its service.
SpeaksIn(frames, node, unconfigured) ==
    \A i \in DOMAIN frames :
        /\ classify(frames[i].cob) = frames[i].service
        /\ frames[i].service \in {"EMCY", "SDO tx", "heartbeat"} => frames[i].cob % 128 = node
        /\ unconfigured => frames[i].service = "LSS"

LEMMA OneFrame ==
    ASSUME NEW service, NEW cob, NEW payload, NEW node, NEW unconfigured \in BOOLEAN,
           classify(cob) = service,
           service \in {"EMCY", "SDO tx", "heartbeat"} => cob % 128 = node,
           unconfigured => service = "LSS"
    PROVE  SpeaksIn(<<TxFrame(service, cob, payload)>>, node, unconfigured)
<1> DEFINE frame == TxFrame(service, cob, payload)
<1>1. frame.cob = cob /\ frame.service = service
  BY DEF TxFrame
<1> HIDE DEF frame
<1>2. DOMAIN <<frame>> = {1} /\ <<frame>>[1] = frame
  BY Tuples
<1>3. SpeaksIn(<<frame>>, node, unconfigured)
  BY <1>1, <1>2 DEF SpeaksIn
<1>4. QED
  BY <1>3 DEF frame

\* The frames of a node's own services carry its id.
LEMMA OwnFrames ==
    ASSUME NEW node \in NodeIds, NEW payload
    PROVE  /\ SpeaksIn(<<TxFrame("SDO tx", sdo_response_cob(node), payload)>>, node, FALSE)
           /\ SpeaksIn(<<TxFrame("heartbeat", heartbeat_cob_id(node), payload)>>, node, FALSE)
           /\ SpeaksIn(<<TxFrame("EMCY", emcy_cob_id(node), payload)>>, node, FALSE)
           /\ SpeaksIn(<<TxFrame("SYNC", SYNC_COB_ID, payload)>>, node, FALSE)
<1>1. SpeaksIn(<<TxFrame("SDO tx", sdo_response_cob(node), payload)>>, node, FALSE)
  BY CobIds, OneFrame
<1>2. SpeaksIn(<<TxFrame("heartbeat", heartbeat_cob_id(node), payload)>>, node, FALSE)
  BY CobIds, OneFrame
<1>3. SpeaksIn(<<TxFrame("EMCY", emcy_cob_id(node), payload)>>, node, FALSE)
  BY CobIds, OneFrame
<1>4. SpeaksIn(<<TxFrame("SYNC", SYNC_COB_ID, payload)>>, node, FALSE)
  <2>1. classify(SYNC_COB_ID) = "SYNC" /\ "SYNC" \notin {"EMCY", "SDO tx", "heartbeat"}
    BY CobIds
  <2>2. QED
    BY <2>1, OneFrame
<1>5. QED
  BY <1>1, <1>2, <1>3, <1>4

LEMMA NoFrame ==
    ASSUME NEW node, NEW unconfigured
    PROVE  SpeaksIn(<<>>, node, unconfigured)
BY Tuples DEF SpeaksIn

LEMMA SpeaksStep ==
    ASSUME IdentityInv, IdentityInv', SpeaksAsItself, [Next]_vars
    PROVE  SpeaksAsItself'
<1> DEFINE Speaks == SpeaksIn(sent', id', lss_unconfigured')
<1>1. SUFFICES Speaks
  BY DEF SpeaksIn, SpeaksAsItself
<1>2. lss_unconfigured' \in BOOLEAN /\ id' \in NodeIds /\ id \in NodeIds
  BY DEF lss_unconfigured, IdentityInv
<1>3. CASE Receive
  <2>1. PICK frame \in Traffic : OnFrame(frame.cob, frame.data)
    BY <1>3 DEF Receive
  <2>2. \/ OnLss(frame.data)
        \/ OnNmt(frame.data)
        \/ OnSdo(frame.data) /\ ~lss_unconfigured
        \/ Ignore
    BY <2>1 DEF OnFrame
  <2>3. CASE OnLss(frame.data)
    <3>1. \/ sent' = <<>>
          \/ \E reply : sent' = <<TxFrame("LSS", LSS_SLAVE_COB_ID, reply)>>
      BY <2>3 DEF OnLss
    <3>2. classify(LSS_SLAVE_COB_ID) = "LSS"
      BY <1>2, CobIds
    <3>3. ASSUME NEW reply PROVE SpeaksIn(<<TxFrame("LSS", LSS_SLAVE_COB_ID, reply)>>, id', lss_unconfigured')
      <4>1. "LSS" \notin {"EMCY", "SDO tx", "heartbeat"}
        OBVIOUS
      <4>2. QED
        BY <1>2, <3>2, <4>1, OneFrame
    <3>4. QED
      BY <3>1, <3>3, NoFrame
  <2>4. CASE OnSdo(frame.data) /\ ~lss_unconfigured
    <3>1. \E reply : sent' = <<TxFrame("SDO tx", sdo_response_cob(id'), reply)>>
      BY <2>4 DEF OnSdo, IdentityInv
    <3>2. ~lss_unconfigured'
      BY <2>4 DEF OnSdo, lss_unconfigured
    <3>3. QED
      BY <1>2, <3>1, <3>2, OwnFrames, Zenon
  <2>5. CASE OnNmt(frame.data) \/ Ignore
    BY <2>5, NoFrame DEF OnNmt, Ignore
  <2>6. QED
    BY <2>2, <2>3, <2>4, <2>5
<1>4. CASE CarryOutReset
  <2>1. \/ sent' = <<>>
        \/ /\ ~lss_unconfigured'
           /\ \E state : sent' = <<TxFrame("heartbeat", heartbeat_cob_id(id'), state)>>
    BY <1>4 DEF CarryOutReset, BootupCob, lss_unconfigured
  <2>2. QED
    BY <1>2, <2>1, OwnFrames, NoFrame, Zenon
<1>5. CASE Heartbeat
  <2>1. /\ ~lss_unconfigured'
        /\ \E state : sent' = <<TxFrame("heartbeat", heartbeat_cob_id(id'), state)>>
    BY <1>5 DEF Heartbeat, nodeVars, IdentityInv, lss_unconfigured
  <2>2. QED
    BY <1>2, <2>1, OwnFrames, Zenon
<1>6. CASE RaiseEmergency \/ ClearErrors
  <2>1. /\ ~lss_unconfigured'
        /\ \E emcy : sent' = <<TxFrame("EMCY", emcy_cob_id(id'), emcy)>>
    BY <1>6 DEF RaiseEmergency, ClearErrors, SendEmcy, lss_unconfigured
  <2>2. QED
    BY <1>2, <2>1, OwnFrames, Zenon
<1>7. CASE EnableSyncProducer
  BY <1>7, NoFrame DEF EnableSyncProducer
<1>8. CASE ProduceSync
  <2>1. /\ ~lss_unconfigured'
        /\ \E count : sent' = <<TxFrame("SYNC", SYNC_COB_ID, count)>>
    BY <1>8 DEF ProduceSync, lss_unconfigured
  <2>2. QED
    BY <1>2, <2>1, OwnFrames, Zenon
<1>9. CASE UNCHANGED vars
  BY <1>9 DEF vars, nodeVars, SpeaksAsItself, SpeaksIn, lss_unconfigured
<1>10. QED
  BY <1>3, <1>4, <1>5, <1>6, <1>7, <1>8, <1>9 DEF Next

\* Every frame the node sends is on the COB-ID of its service and its present
\* id, and a node without an id sends nothing but LSS replies.
THEOREM NodeSpeaksAsItself == Spec => []SpeaksAsItself
<1>1. Init => SpeaksAsItself
  BY Tuples DEF Init, SpeaksAsItself
<1>2. IdentityInv /\ IdentityInv' /\ SpeaksAsItself /\ [Next]_vars => SpeaksAsItself'
  BY SpeaksStep
<1>3. QED
  BY <1>1, <1>2, AlwaysIdentity, PTL DEF Spec

-----------------------------------------------------------------------------
(* The SYNC counter                                                        *)

\* The counter stands at the count last sent.
SyncInv ==
    /\ sync \in [overflow : Int, value : Int]
    /\ sync # NoSync =>
          /\ ValidOverflow(sync.overflow)
          /\ sync.value \in 0..sync.overflow
          /\ sync.value = lastSync

LEMMA Advances ==
    ASSUME NEW o, ValidOverflow(o), NEW v \in 0..o
    PROVE  /\ Advanced([overflow |-> o, value |-> v]) \in 0..o
           /\ EncodeSync(Advanced([overflow |-> o, value |-> v])) =
                IF o = 0 THEN <<>> ELSE <<(v % o) + 1>>
<1>1. CASE o = 0
  BY <1>1 DEF Advanced, EncodeSync
<1>2. CASE o \in 2..240
  <2>1. Advanced([overflow |-> o, value |-> v]) = IF v >= o THEN 1 ELSE v + 1
    BY <1>2 DEF Advanced
  <2>2. v % o = IF v >= o THEN 0 ELSE v
    BY <1>2
  <2>3. QED
    BY <1>2, <2>1, <2>2 DEF EncodeSync
<1>3. QED
  BY <1>1, <1>2 DEF ValidOverflow

LEMMA SyncStep ==
    ASSUME SyncInv, [Next]_vars
    PROVE  SyncInv'
<1>1. CASE EnableSyncProducer
  <2>1. CASE UNCHANGED syncVars
    BY <2>1 DEF syncVars, SyncInv
  <2>2. ASSUME NEW o \in Overflows, ValidOverflow(o),
               sync' = [overflow |-> o, value |-> 0], lastSync' = 0
        PROVE  SyncInv'
    <3>1. o \in Nat
      BY <2>2 DEF ValidOverflow
    <3>2. sync' \in [overflow : Int, value : Int] /\ sync'.overflow = o /\ sync'.value = 0
      BY <2>2, <3>1
    <3>3. 0 \in 0..o
      BY <3>1
    <3>4. QED
      BY <2>2, <3>2, <3>3 DEF SyncInv
  <2>3. QED
    BY <1>1, <2>1, <2>2 DEF EnableSyncProducer
<1>2. CASE ProduceSync
  <2>1. PICK o \in Int, v \in Int :
            sync = [overflow |-> o, value |-> v] /\ ValidOverflow(o) /\ v \in 0..o
    BY <1>2 DEF ProduceSync, SyncInv
  <2>2. Advanced(sync) \in 0..o
    BY <2>1, Advances
  <2>3. sync' = [overflow |-> o, value |-> Advanced(sync)] /\ lastSync' = sync'.value
    BY <1>2, <2>1 DEF ProduceSync
  <2>4. QED
    BY <2>1, <2>2, <2>3 DEF SyncInv
<1>3. UNCHANGED syncVars \/ EnableSyncProducer \/ ProduceSync
  BY DEF Next, Receive, OnFrame, OnLss, OnNmt, OnSdo, Ignore, CarryOutReset, Heartbeat,
         RaiseEmergency, ClearErrors, vars, nodeVars, syncVars
<1>4. QED
  BY <1>1, <1>2, <1>3 DEF syncVars, SyncInv

LEMMA AlwaysSync == Spec => []SyncInv
<1>1. Init => SyncInv
  BY DEF Init, SyncInv, NoSync
<1>2. QED
  BY <1>1, SyncStep, PTL DEF Spec

\* Only ProduceSync sends on the COB-ID of SYNC.
LEMMA OthersSendNoSync ==
    ASSUME IdentityInv', SpeaksAsItself', Next, ~ProduceSync
    PROVE  sent' # <<>> => sent'[1].cob # SYNC_COB_ID
<1>1. \/ sent' = <<>>
      \/ \E service \in {"LSS", "SDO tx", "heartbeat", "EMCY"} : \E cob, payload :
            sent' = <<TxFrame(service, cob, payload)>>
  BY DEF Next, Receive, OnFrame, OnLss, OnNmt, OnSdo, Ignore, CarryOutReset, Heartbeat,
         RaiseEmergency, ClearErrors, SendEmcy, EnableSyncProducer
<1>2. SUFFICES ASSUME NEW service \in {"LSS", "SDO tx", "heartbeat", "EMCY"},
                      NEW cob, NEW payload,
                      sent' = <<TxFrame(service, cob, payload)>>
               PROVE  sent'[1].cob # SYNC_COB_ID
  BY <1>1
<1>3. 1 \in DOMAIN sent' /\ sent'[1] = TxFrame(service, cob, payload)
  BY <1>2, Tuples
<1>4. classify(sent'[1].cob) = sent'[1].service
  BY <1>3 DEF SpeaksAsItself
<1>5. sent'[1].service # "SYNC"
  <2>1. TxFrame(service, cob, payload).service = service
    BY DEF TxFrame
  <2>2. QED
    BY <1>3, <2>1
<1>6. classify(SYNC_COB_ID) = "SYNC"
  BY CobIds DEF IdentityInv
<1>7. QED
  BY <1>4, <1>5, <1>6

\* The SYNC frames since the producer was configured count 1, 2, ... up to the
\* overflow value and start again at 1, or carry nothing.
THEOREM SyncFramesCount == Spec => SyncCounts
<1> DEFINE Count == sent' # <<>> /\ sent'[1].cob = SYNC_COB_ID =>
                       sent'[1].data = IF sync.overflow = 0 THEN <<>>
                                       ELSE <<(lastSync % sync.overflow) + 1>>
<1>1. ASSUME SyncInv, ProduceSync PROVE Count
  <2>1. PICK o \in Int, v \in Int :
            /\ sync = [overflow |-> o, value |-> v] /\ ValidOverflow(o) /\ v \in 0..o
            /\ v = lastSync
    BY <1>1 DEF ProduceSync, SyncInv
  <2>2. sent' = <<TxFrame("SYNC", SYNC_COB_ID, EncodeSync(Advanced(sync)))>>
    BY <1>1, <2>1 DEF ProduceSync
  <2>3. sent'[1].data = EncodeSync(Advanced(sync))
    BY <2>2, Tuples DEF TxFrame
  <2>4. QED
    BY <2>1, <2>3, Advances
<1>2. IdentityInv' /\ SpeaksAsItself' /\ Next /\ ~ProduceSync => Count
  BY OthersSendNoSync
<1>3. SyncInv /\ IdentityInv' /\ SpeaksAsItself' /\ [Next]_vars => [Count]_vars
  BY <1>1, <1>2
<1>4. QED
  BY <1>3, AlwaysSync, AlwaysIdentity, NodeSpeaksAsItself, PTL DEF Spec, SyncCounts

-----------------------------------------------------------------------------
(* The error history                                                       *)

HistoryInv ==
    /\ raised \in Seq(Errors)
    /\ history \in Seq(ErrorCode)
    /\ HistoryIsMostRecent

LEMMA Prepended ==
    ASSUME NEW S, NEW q \in Seq(S), NEW e \in S
    PROVE  /\ <<e>> \o q \in Seq(S)
           /\ Len(<<e>> \o q) = Len(q) + 1
           /\ (<<e>> \o q)[1] = e
           /\ \A i \in 1..Len(q) : (<<e>> \o q)[i + 1] = q[i]
<1>1. <<e>> \in Seq(S) /\ Len(<<e>>) = 1
  OBVIOUS
<1>2. QED
  BY <1>1

\* What remains of the history when a new error comes.
LEMMA Shifted ==
    ASSUME HistoryInv
    PROVE  \E kept \in Seq(ErrorCode) :
              /\ \A code : Recorded(code) = <<code>> \o kept
              /\ Len(kept) = IF Len(raised) < MAX_ERROR_HISTORY THEN Len(raised)
                                                               ELSE MAX_ERROR_HISTORY - 1
              /\ \A i \in 1..Len(kept) : kept[i] = raised[i][1]
<1>1. MAX_ERROR_HISTORY \in Nat \ {0} /\ Len(raised) \in Nat
  <2>1. MAX_ERROR_HISTORY \in Nat \ {0}
    BY DeviceAssumption DEF Byte
  <2>2. Len(raised) \in Nat
    BY DEF HistoryInv
  <2>3. QED
    BY <2>1, <2>2
<1>2. /\ history \in Seq(ErrorCode)
      /\ Len(history) = (IF Len(raised) < MAX_ERROR_HISTORY THEN Len(raised)
                                                           ELSE MAX_ERROR_HISTORY)
      /\ \A i \in 1..Len(history) : history[i] = raised[i][1]
  BY DEF HistoryInv, HistoryIsMostRecent
<1>3. CASE Len(history) < MAX_ERROR_HISTORY
  BY <1>1, <1>2, <1>3 DEF Recorded
<1>4. CASE ~(Len(history) < MAX_ERROR_HISTORY)
  <2> DEFINE kept == SubSeq(history, 1, MAX_ERROR_HISTORY - 1)
  <2>1. ~(Len(raised) < MAX_ERROR_HISTORY) /\ Len(history) = MAX_ERROR_HISTORY
    BY <1>1, <1>2, <1>4
  <2>2. kept \in Seq(ErrorCode) /\ Len(kept) = MAX_ERROR_HISTORY - 1
    BY <1>1, <1>2, <2>1
  <2>3. \A i \in 1..(MAX_ERROR_HISTORY - 1) : kept[i] = history[i]
    BY <1>1, <1>2, <2>1
  <2>4. \A code : Recorded(code) = <<code>> \o kept
    BY <1>4 DEF Recorded
  <2> HIDE DEF kept
  <2>5. \A i \in 1..Len(kept) : kept[i] = raised[i][1]
    BY <1>1, <1>2, <2>1, <2>2, <2>3
  <2>6. QED
    BY <2>1, <2>2, <2>4, <2>5
<1>5. QED
  BY <1>3, <1>4

LEMMA RaiseInHistory ==
    ASSUME HistoryInv, RaiseEmergency
    PROVE  HistoryInv'
<1>1. PICK e \in Errors : history' = Recorded(e[1]) /\ raised' = <<e>> \o raised
  BY DEF RaiseEmergency
<1>2. PICK kept \in Seq(ErrorCode) :
         /\ history' = <<e[1]>> \o kept
         /\ Len(kept) = IF Len(raised) < MAX_ERROR_HISTORY THEN Len(raised)
                                                          ELSE MAX_ERROR_HISTORY - 1
         /\ \A i \in 1..Len(kept) : kept[i] = raised[i][1]
  BY <1>1, Shifted
<1>3. e[1] \in ErrorCode
  BY DeviceAssumption
<1>4. /\ history' \in Seq(ErrorCode) /\ Len(history') = Len(kept) + 1
      /\ history'[1] = e[1] /\ \A i \in 1..Len(kept) : history'[i + 1] = kept[i]
  BY <1>2, <1>3, Prepended
<1>5. raised \in Seq(Errors)
  BY DEF HistoryInv
<1>6. /\ raised' \in Seq(Errors) /\ Len(raised') = Len(raised) + 1
      /\ raised'[1] = e /\ \A i \in 1..Len(raised) : raised'[i + 1] = raised[i]
  BY <1>1, <1>5, Prepended
<1>7. Len(raised) \in Nat /\ Len(kept) \in Nat /\ MAX_ERROR_HISTORY \in Nat \ {0}
  <2>1. MAX_ERROR_HISTORY \in Nat \ {0}
    BY DeviceAssumption DEF Byte
  <2>2. Len(raised) \in Nat /\ Len(kept) \in Nat
    BY <1>5
  <2>3. QED
    BY <2>1, <2>2
<1>8. Len(history') = (IF Len(raised') < MAX_ERROR_HISTORY THEN Len(raised') ELSE MAX_ERROR_HISTORY)
  BY <1>2, <1>4, <1>6, <1>7
<1>9. \A i \in 1..Len(history') : history'[i] = raised'[i][1]
  <2> SUFFICES ASSUME NEW i \in 1..Len(history') PROVE history'[i] = raised'[i][1]
    OBVIOUS
  <2>1. CASE i = 1
    BY <1>4, <1>6, <2>1
  <2>2. CASE i # 1
    <3>1. i - 1 \in 1..Len(kept) /\ i - 1 \in 1..Len(raised) /\ (i - 1) + 1 = i
      BY <1>2, <1>4, <1>7, <2>2
    <3>2. history'[i] = kept[i - 1] /\ raised'[i] = raised[i - 1]
      BY <1>4, <1>6, <3>1
    <3>3. QED
      BY <1>2, <3>1, <3>2
  <2>3. QED
    BY <2>1, <2>2
<1>10. QED
  BY <1>4, <1>6, <1>8, <1>9 DEF HistoryInv, HistoryIsMostRecent

LEMMA HistoryStep ==
    ASSUME HistoryInv, [Next]_vars
    PROVE  HistoryInv'
<1>1. CASE UNCHANGED <<history, raised>>
  BY <1>1 DEF HistoryInv, HistoryIsMostRecent
<1>2. ASSUME history' = <<>>, raised' = <<>> PROVE HistoryInv'
  <2>1. \A S : <<>> \in Seq(S)
    OBVIOUS
  <2>2. Len(<<>>) = 0 /\ 0 < MAX_ERROR_HISTORY
    BY DeviceAssumption DEF Byte
  <2>3. QED
    BY <1>2, <2>1, <2>2, Tuples DEF HistoryInv, HistoryIsMostRecent
<1>3. \/ UNCHANGED <<history, raised>>
      \/ history' = <<>> /\ raised' = <<>>
      \/ RaiseEmergency
  BY DEF Next, Receive, OnFrame, OnLss, OnNmt, OnSdo, Ignore, CarryOutReset, Heartbeat,
         ClearErrors, EnableSyncProducer, ProduceSync, vars, nodeVars, errorVars
<1>4. QED
  BY <1>1, <1>2, <1>3, RaiseInHistory

LEMMA AlwaysHistory == Spec => []HistoryInv
<1>1. Init => HistoryInv
  <2> SUFFICES ASSUME Init PROVE HistoryInv
    OBVIOUS
  <2>1. history = <<>> /\ raised = <<>>
    BY DEF Init
  <2>2. \A S : <<>> \in Seq(S)
    OBVIOUS
  <2>3. Len(<<>>) = 0 /\ 0 < MAX_ERROR_HISTORY
    BY DeviceAssumption DEF Byte
  <2>4. QED
    BY <2>1, <2>2, <2>3, Tuples DEF HistoryInv, HistoryIsMostRecent
<1>2. HistoryInv /\ [Next]_vars => HistoryInv'
  BY HistoryStep
<1>3. QED
  BY <1>1, <1>2, PTL DEF Spec

\* The error history holds the latest emergencies since the last clearing, the
\* latest first, however many there were and however short it is.
THEOREM HistoryKeepsLatest == Spec => []HistoryIsMostRecent
<1>1. HistoryInv => HistoryIsMostRecent
  BY DEF HistoryInv
<1>2. QED
  BY <1>1, AlwaysHistory, PTL

-----------------------------------------------------------------------------
(* The error objects                                                       *)

EntryFields == {"type", "value", "access"}

\* What a write of the master cannot change in a dictionary: its addresses,
\* their types and access, and that only the count and the heartbeat time are
\* writable.
ErrorObjects(dict) ==
    /\ \A a \in DOMAIN dict : DOMAIN dict[a] = EntryFields
    /\ \A a \in DOMAIN dict : Writable(dict[a].access) => a \in {ErrorCount, HeartbeatTime}
    /\ ErrorRegister \in DOMAIN dict /\ dict[ErrorRegister].type = "Unsigned8"
    /\ ErrorCount \in DOMAIN dict => dict[ErrorCount].type = "Unsigned8"
    /\ \A sub \in 1..255 : ErrorField(sub) \in DOMAIN dict =>
          ErrorCount \in DOMAIN dict /\ dict[ErrorField(sub)].type = "Unsigned32"

SameObjects(before, after) ==
    /\ DOMAIN after = DOMAIN before
    /\ \A a \in DOMAIN before :
          /\ DOMAIN after[a] = DOMAIN before[a]
          /\ after[a].type = before[a].type /\ after[a].access = before[a].access

LEMMA DistinctObjects ==
    /\ ErrorRegister \notin {ErrorCount, HeartbeatTime} /\ ErrorCount # HeartbeatTime
    /\ \A sub \in 1..255 : ErrorField(sub) \notin {ErrorRegister, ErrorCount, HeartbeatTime}
    /\ \A sub, other \in 1..255 : ErrorField(sub) = ErrorField(other) => sub = other
    /\ \A sub : ErrorField(sub)[2] = sub
BY DEF ErrorRegister, ErrorCount, HeartbeatTime, ErrorField, Address

LEMMA ObjectsRemain ==
    ASSUME NEW before, NEW after, ErrorObjects(before), SameObjects(before, after)
    PROVE  ErrorObjects(after)
BY Zenon DEF ErrorObjects, SameObjects

\* Putting a value at one address.
LEMMA OneValue ==
    ASSUME NEW dict, \A a \in DOMAIN dict : DOMAIN dict[a] = EntryFields,
           NEW addr \in DOMAIN dict, NEW value,
           NEW after, after = [dict EXCEPT ![addr].value = value]
    PROVE  /\ SameObjects(dict, after)
           /\ after[addr].value = value
           /\ \A a \in DOMAIN dict : a # addr => after[a] = dict[a]
<1>1. DOMAIN after = DOMAIN dict
  OBVIOUS
<1>2. \A a \in DOMAIN dict : a # addr => after[a] = dict[a]
  OBVIOUS
<1>3. after[addr] = [dict[addr] EXCEPT !.value = value]
  OBVIOUS
<1>4. /\ DOMAIN after[addr] = EntryFields /\ after[addr].value = value
      /\ after[addr].type = dict[addr].type /\ after[addr].access = dict[addr].access
  BY <1>3 DEF EntryFields
<1>5. SameObjects(dict, after)
  BY <1>1, <1>2, <1>4, Zenon DEF SameObjects
<1>6. QED
  BY <1>2, <1>4, <1>5

\* A set from the device's side.
LEMMA SetObject ==
    ASSUME NEW dict, \A a \in DOMAIN dict : DOMAIN dict[a] = EntryFields,
           NEW addr, NEW type, NEW value
    PROVE  /\ SameObjects(dict, Set(dict, addr, type, value))
           /\ addr \in DOMAIN dict /\ dict[addr].type = type =>
                 Set(dict, addr, type, value)[addr].value = value
           /\ \A a \in DOMAIN dict : a # addr => Set(dict, addr, type, value)[a] = dict[a]
<1>1. SameObjects(dict, dict)
  BY DEF SameObjects
<1>2. CASE Has(dict, addr) /\ dict[addr].type = type
  <2>1. Set(dict, addr, type, value) = [dict EXCEPT ![addr].value = value]
    BY <1>2, Zenon DEF Set
  <2>2. addr \in DOMAIN dict
    BY <1>2 DEF Has
  <2>3. /\ SameObjects(dict, Set(dict, addr, type, value))
        /\ Set(dict, addr, type, value)[addr].value = value
        /\ \A a \in DOMAIN dict : a # addr => Set(dict, addr, type, value)[a] = dict[a]
    BY <2>1, <2>2, OneValue, Zenon
  <2>4. QED
    BY <2>3, Zenon
<1>3. CASE ~(Has(dict, addr) /\ dict[addr].type = type)
  BY <1>1, <1>3, Zenon DEF Set, Has
<1>4. QED
  BY <1>2, <1>3, Zenon

\* A write of the master.
LEMMA WriteObject ==
    ASSUME NEW dict, ErrorObjects(dict), NEW addr, NEW type, NEW value
    PROVE  /\ SameObjects(dict, Write(dict, addr, type, value))
           /\ \A a \in DOMAIN dict : a # addr => Write(dict, addr, type, value)[a] = dict[a]
           /\ \A a \in DOMAIN dict : a \notin {ErrorCount, HeartbeatTime} =>
                 Write(dict, addr, type, value)[a] = dict[a]
<1>1. \A a \in DOMAIN dict : DOMAIN dict[a] = EntryFields
  BY DEF ErrorObjects
<1>2. SameObjects(dict, dict)
  BY DEF SameObjects
<1>3. CASE CanWrite(dict, addr, type)
  <2>1. Write(dict, addr, type, value) = [dict EXCEPT ![addr].value = value]
    BY <1>3, Zenon DEF Write
  <2>2. addr \in DOMAIN dict /\ addr \in {ErrorCount, HeartbeatTime}
    BY <1>3, Zenon DEF CanWrite, Has, ErrorObjects
  <2>3. QED
    BY <1>1, <2>1, <2>2, OneValue, Zenon
<1>4. CASE ~CanWrite(dict, addr, type)
  BY <1>2, <1>4, Zenon DEF Write
<1>5. QED
  BY <1>3, <1>4, Zenon

LEMMA StandardHasErrorObjects ==
    ASSUME NEW len \in Byte
    PROVE  /\ ErrorObjects(StandardObjects(len))
           /\ \A a \in DOMAIN StandardObjects(len) : StandardObjects(len)[a].value = 0
<1> DEFINE fields == {ErrorField(sub) : sub \in 1..len}
           count == IF len = 0 THEN {} ELSE {ErrorCount}
           addrs == {ErrorRegister, HeartbeatTime} \cup count \cup fields
           entry(a) == CASE a = ErrorRegister -> Entry("Unsigned8", 0, "Ro")
                         [] a = HeartbeatTime -> Entry("Unsigned16", 0, "Rw")
                         [] a = ErrorCount    -> Entry("Unsigned8", 0, "Rw")
                         [] a \in fields      -> Entry("Unsigned32", 0, "Ro")
           dict == [a \in addrs |-> entry(a)]
<1>1. dict = StandardObjects(len)
  BY Zenon DEF StandardObjects
<1>2. len \in Int /\ 0 <= len /\ len <= 255
  BY DEF Byte
<1>3. \A a \in fields : a \notin {ErrorRegister, HeartbeatTime, ErrorCount}
  <2>1. \A sub \in 1..len : sub \in 1..255
    BY <1>2
  <2>2. QED
    BY <2>1, DistinctObjects, Zenon
<1>4. /\ entry(ErrorRegister) = Entry("Unsigned8", 0, "Ro")
      /\ entry(HeartbeatTime) = Entry("Unsigned16", 0, "Rw")
      /\ entry(ErrorCount) = Entry("Unsigned8", 0, "Rw")
  <2>1. entry(ErrorRegister) = Entry("Unsigned8", 0, "Ro")
    BY <1>3, DistinctObjects, Zenon
  <2>2. entry(HeartbeatTime) = Entry("Unsigned16", 0, "Rw")
    BY <1>3, DistinctObjects, Zenon
  <2>3. entry(ErrorCount) = Entry("Unsigned8", 0, "Rw")
    BY <1>3, DistinctObjects, Zenon
  <2>4. QED
    BY <2>1, <2>2, <2>3, Zenon
<1>5. \A a \in fields : entry(a) = Entry("Unsigned32", 0, "Ro")
  BY <1>3
<1>6. \A a \in addrs : a \in {ErrorRegister, HeartbeatTime, ErrorCount} \/ a \in fields
  OBVIOUS
<1>7. /\ DOMAIN dict = addrs /\ \A a \in addrs : dict[a] = entry(a)
  OBVIOUS
<1>8. ErrorRegister \in addrs
  OBVIOUS
<1>9. \A sub \in 1..255 : ErrorField(sub) \in addrs => ErrorField(sub) \in fields /\ ErrorCount \in addrs
  <2> SUFFICES ASSUME NEW sub \in 1..255, ErrorField(sub) \in addrs
               PROVE  ErrorField(sub) \in fields /\ ErrorCount \in addrs
    OBVIOUS
  <2>1. ErrorField(sub) \in fields
    BY <1>6, DistinctObjects
  <2>2. len # 0
    BY <1>2, <2>1
  <2>3. QED
    BY <2>1, <2>2
<1>10. \A type, access : /\ DOMAIN Entry(type, 0, access) = EntryFields
                         /\ Entry(type, 0, access).type = type
                         /\ Entry(type, 0, access).value = 0
                         /\ Entry(type, 0, access).access = access
  BY DEF Entry, EntryFields
<1>11. ~Writable("Ro")
  BY DEF Writable
<1> HIDE DEF dict, entry, addrs, fields
<1>12. ASSUME NEW a \in addrs
       PROVE  /\ DOMAIN dict[a] = EntryFields /\ dict[a].value = 0
              /\ Writable(dict[a].access) => a \in {ErrorCount, HeartbeatTime}
  <2>1. PICK type, access : dict[a] = Entry(type, 0, access)
                         /\ (access = "Ro" \/ a \in {ErrorCount, HeartbeatTime})
    <3>1. CASE a \in fields
      BY <1>5, <1>7, <3>1, Zenon
    <3>2. CASE a \in {ErrorRegister, HeartbeatTime, ErrorCount}
      BY <1>4, <1>7, <3>2, Zenon
    <3>3. QED
      BY <1>6, <3>1, <3>2, Zenon
  <2>2. DOMAIN dict[a] = EntryFields /\ dict[a].value = 0 /\ dict[a].access = access
    BY <1>10, <2>1
  <2>3. QED
    BY <1>11, <2>1, <2>2
<1>14. dict[ErrorRegister].type = "Unsigned8"
  <2>1. dict[ErrorRegister] = Entry("Unsigned8", 0, "Ro")
    BY <1>4, <1>7, <1>8, Zenon
  <2>2. QED
    BY <1>10, <2>1, Zenon
<1>15. ErrorCount \in addrs => dict[ErrorCount].type = "Unsigned8"
  <2>1. ErrorCount \in addrs => dict[ErrorCount] = Entry("Unsigned8", 0, "Rw")
    BY <1>4, <1>7, Zenon
  <2>2. QED
    BY <1>10, <2>1, Zenon
<1>16. \A sub \in 1..255 : ErrorField(sub) \in addrs =>
          ErrorCount \in addrs /\ dict[ErrorField(sub)].type = "Unsigned32"
  <2>1. \A a \in fields : a \in addrs /\ dict[a] = Entry("Unsigned32", 0, "Ro")
    BY <1>5, <1>7, Zenon DEF addrs
  <2>2. \A a \in fields : dict[a].type = "Unsigned32"
    BY <1>10, <2>1, Zenon
  <2>3. QED
    BY <1>9, <2>2, Zenon
<1>17. ErrorObjects(dict) /\ \A a \in DOMAIN dict : dict[a].value = 0
  BY <1>7, <1>8, <1>12, <1>14, <1>15, <1>16, Zenon DEF ErrorObjects
<1>18. QED
  BY <1>1, <1>17, Zenon

\* Mirroring puts the register, the entries and their count where they belong.
LEMMA MirroredObjects ==
    ASSUME ErrorObjects(od), NEW r, NEW h, NEW after, after = Mirrored(r, h)
    PROVE  /\ SameObjects(od, after)
           /\ after[ErrorRegister].value = r
           /\ ErrorFields # {} => after[ErrorCount].value = Len(h)
           /\ \A sub \in Filled(h) : after[ErrorField(sub)].value = h[sub]
<1> DEFINE registered == Set(od, ErrorRegister, "Unsigned8", r)
           counted == Set(registered, ErrorCount, "Unsigned8", Len(h))
           field(a) == Set(counted, a, "Unsigned32", h[a[2]])
           fields == {ErrorField(sub) : sub \in Filled(h)}
<1>1. after = [a \in DOMAIN od |-> IF a \in fields THEN field(a)[a] ELSE counted[a]]
  BY Zenon DEF Mirrored
<1>2. /\ SameObjects(od, registered)
      /\ registered[ErrorRegister].value = r
  <2>1. /\ \A a \in DOMAIN od : DOMAIN od[a] = EntryFields
        /\ ErrorRegister \in DOMAIN od /\ od[ErrorRegister].type = "Unsigned8"
    BY Zenon DEF ErrorObjects
  <2>2. QED
    BY <2>1, SetObject
<1>3. ErrorObjects(registered)
  BY <1>2, ObjectsRemain, Zenon
<1>4. /\ SameObjects(registered, counted)
      /\ ErrorCount \in DOMAIN registered => counted[ErrorCount].value = Len(h)
      /\ \A a \in DOMAIN registered : a # ErrorCount => counted[a] = registered[a]
  <2>1. /\ \A a \in DOMAIN registered : DOMAIN registered[a] = EntryFields
        /\ ErrorCount \in DOMAIN registered => registered[ErrorCount].type = "Unsigned8"
    BY <1>3, Zenon DEF ErrorObjects
  <2> HIDE DEF registered
  <2>2. QED
    BY <2>1, SetObject
<1>5. ErrorObjects(counted)
  BY <1>3, <1>4, ObjectsRemain, Zenon
<1>6. SameObjects(od, counted)
  BY <1>2, <1>4, Zenon DEF SameObjects
<1>7. \A a : SameObjects(counted, field(a))
  BY <1>5, SetObject, Zenon DEF ErrorObjects
<1>8. \A sub \in Filled(h) : sub \in 1..255 /\ ErrorField(sub) \in DOMAIN od
  BY DEF Filled, ErrorFields, Has
<1>9. \A sub \in Filled(h) : field(ErrorField(sub))[ErrorField(sub)].value = h[sub]
  <2> SUFFICES ASSUME NEW sub \in Filled(h)
               PROVE  field(ErrorField(sub))[ErrorField(sub)].value = h[sub]
    OBVIOUS
  <2>1. ErrorField(sub) \in DOMAIN counted /\ counted[ErrorField(sub)].type = "Unsigned32"
    BY <1>5, <1>6, <1>8, Zenon DEF ErrorObjects, SameObjects
  <2>2. \A a \in DOMAIN counted : DOMAIN counted[a] = EntryFields
    BY <1>5, Zenon DEF ErrorObjects
  <2>3. ErrorField(sub)[2] = sub
    BY DistinctObjects
  <2> HIDE DEF counted
  <2>4. \A value : Set(counted, ErrorField(sub), "Unsigned32", value)[ErrorField(sub)].value = value
    BY <2>1, <2>2, SetObject
  <2>5. QED
    BY <2>3, <2>4, Zenon
<1>10. ErrorRegister \notin fields /\ ErrorCount \notin fields
  BY <1>8, DistinctObjects, Zenon
<1> HIDE DEF registered, counted, field, fields
<1>11. /\ DOMAIN after = DOMAIN od
       /\ \A a \in DOMAIN od : after[a] = IF a \in fields THEN field(a)[a] ELSE counted[a]
  BY <1>1
<1>12. SameObjects(od, after)
  <2> SUFFICES ASSUME NEW a \in DOMAIN od
               PROVE  /\ DOMAIN after[a] = DOMAIN od[a]
                      /\ after[a].type = od[a].type /\ after[a].access = od[a].access
    BY <1>11, Zenon DEF SameObjects
  <2>1. /\ a \in DOMAIN counted /\ DOMAIN counted[a] = DOMAIN od[a]
        /\ counted[a].type = od[a].type /\ counted[a].access = od[a].access
    BY <1>6, Zenon DEF SameObjects
  <2>2. /\ DOMAIN field(a)[a] = DOMAIN counted[a]
        /\ field(a)[a].type = counted[a].type /\ field(a)[a].access = counted[a].access
    BY <1>7, <2>1, Zenon DEF SameObjects
  <2>3. after[a] = field(a)[a] \/ after[a] = counted[a]
    BY <1>11, Zenon
  <2>4. QED
    BY <2>1, <2>2, <2>3, Zenon
<1>13. after[ErrorRegister].value = r
  <2>1. ErrorRegister \in DOMAIN od /\ ErrorRegister \in DOMAIN registered
    BY <1>3, Zenon DEF ErrorObjects
  <2>2. QED
    BY <1>2, <1>4, <1>10, <1>11, <2>1, DistinctObjects, Zenon
<1>14. ErrorFields # {} => after[ErrorCount].value = Len(h)
  <2> SUFFICES ASSUME ErrorFields # {} PROVE after[ErrorCount].value = Len(h)
    OBVIOUS
  <2>1. ErrorCount \in DOMAIN od
    BY Zenon DEF ErrorFields, ErrorObjects, Has
  <2>2. QED
    BY <1>2, <1>4, <1>10, <1>11, <2>1, Zenon DEF SameObjects
<1>15. \A sub \in Filled(h) : after[ErrorField(sub)].value = h[sub]
  <2> SUFFICES ASSUME NEW sub \in Filled(h) PROVE after[ErrorField(sub)].value = h[sub]
    OBVIOUS
  <2>1. ErrorField(sub) \in fields
    BY DEF fields
  <2>2. QED
    BY <1>8, <1>9, <1>11, <2>1, Zenon
<1>16. QED
  BY <1>12, <1>13, <1>14, <1>15, Zenon

MirrorInv == ErrorObjects(od) /\ MirrorInStep

LEMMA MirrorInit == Init => MirrorInv
<1> SUFFICES ASSUME Init PROVE MirrorInv
  OBVIOUS
<1>1. PICK len \in HistoryLens : od = StandardObjects(len)
  BY DEF Init
<1>2. len \in Byte
  BY DeviceAssumption
<1>3. ErrorObjects(od) /\ \A a \in DOMAIN od : od[a].value = 0
  BY <1>1, <1>2, StandardHasErrorObjects, Zenon
<1>4. register = 0 /\ history = <<>> /\ Len(<<>>) = 0
  BY DEF Init
<1>5. Filled(history) = {}
  BY <1>4 DEF Filled
<1>6. od[ErrorRegister].value = register
  BY <1>3, <1>4, Zenon DEF ErrorObjects
<1>7. ErrorFields # {} => od[ErrorCount].value = Len(history)
  <2> SUFFICES ASSUME ErrorFields # {} PROVE od[ErrorCount].value = 0
    BY <1>4
  <2>1. QED
    BY <1>3, Zenon DEF ErrorFields, ErrorObjects, Has
<1>8. QED
  BY <1>3, <1>5, <1>6, <1>7 DEF MirrorInv, MirrorInStep

\* A write reaches no mirrored object but the count, and then it is stale.
LEMMA WriteKeepsMirror ==
    ASSUME MirrorInv, NEW request, OnSdo(request)
    PROVE  MirrorInv'
<1>1. ErrorObjects(od) /\ MirrorInStep
  BY DEF MirrorInv
<1>2. register' = register /\ history' = history /\ stale' = (stale \/ (request.addr = ErrorCount /\ request.op = "write"))
  BY DEF OnSdo, errorVars
<1>3. SameObjects(od, od)
  BY DEF SameObjects
<1>4. /\ SameObjects(od, od')
      /\ \A a \in DOMAIN od : a \notin {ErrorCount, HeartbeatTime} => od'[a] = od[a]
      /\ ~stale' /\ ErrorCount \in DOMAIN od => od'[ErrorCount] = od[ErrorCount]
  <2>1. CASE request.op = "write"
    <3>1. od' = Write(od, request.addr, request.type, request.value)
      BY <2>1 DEF OnSdo
    <3>2. ~stale' => request.addr # ErrorCount
      BY <1>2, <2>1
    <3> DEFINE after == Write(od, request.addr, request.type, request.value)
    <3>3. /\ SameObjects(od, after)
          /\ \A a \in DOMAIN od : a # request.addr => after[a] = od[a]
          /\ \A a \in DOMAIN od : a \notin {ErrorCount, HeartbeatTime} => after[a] = od[a]
      BY <1>1, WriteObject
    <3>4. QED
      BY <3>1, <3>2, <3>3, Zenon
  <2>2. CASE request.op # "write"
    BY <1>3, <2>2, Zenon DEF OnSdo
  <2>3. QED
    BY <2>1, <2>2
<1>5. ErrorObjects(od')
  BY <1>1, <1>4, ObjectsRemain, Zenon
<1>6. ErrorFields' = ErrorFields /\ Filled(history)' = Filled(history)
  BY <1>2, <1>4 DEF ErrorFields, Filled, Has, SameObjects
<1>7. od'[ErrorRegister].value = register'
  BY <1>1, <1>2, <1>4, DistinctObjects, Zenon DEF MirrorInStep, ErrorObjects
<1>8. \A sub \in Filled(history) : od'[ErrorField(sub)].value = history'[sub]
  <2> SUFFICES ASSUME NEW sub \in Filled(history) PROVE od'[ErrorField(sub)].value = history'[sub]
    OBVIOUS
  <2>1. sub \in 1..255 /\ ErrorField(sub) \in DOMAIN od
    BY DEF Filled, ErrorFields, Has
  <2>2. QED
    BY <1>1, <1>2, <1>4, <2>1, DistinctObjects, Zenon DEF MirrorInStep
<1>9. ErrorFields # {} /\ ~stale' => od'[ErrorCount].value = Len(history')
  <2> SUFFICES ASSUME ErrorFields # {}, ~stale' PROVE od'[ErrorCount].value = Len(history')
    OBVIOUS
  <2>1. ErrorCount \in DOMAIN od
    BY <1>1, Zenon DEF ErrorFields, ErrorObjects, Has
  <2>2. QED
    BY <1>1, <1>2, <1>4, <2>1, Zenon DEF MirrorInStep
<1>10. QED
  BY <1>5, <1>6, <1>7, <1>8, <1>9, Zenon DEF MirrorInv, MirrorInStep

LEMMA MirrorStep ==
    ASSUME MirrorInv, [Next]_vars
    PROVE  MirrorInv'
<1>1. CASE UNCHANGED <<od, register, history, stale>>
  BY <1>1 DEF MirrorInv, MirrorInStep, ErrorFields, Filled
<1>2. CASE Receive
  <2>1. PICK frame \in Traffic : OnFrame(frame.cob, frame.data)
    BY <1>2 DEF Receive
  <2>2. OnLss(frame.data) \/ OnNmt(frame.data) \/ OnSdo(frame.data) \/ Ignore
    BY <2>1 DEF OnFrame
  <2>3. UNCHANGED <<od, register, history, stale>> \/ OnSdo(frame.data)
    BY <2>2 DEF OnLss, OnNmt, Ignore, nodeVars, errorVars
  <2>4. QED
    BY <1>1, <2>3, WriteKeepsMirror
<1>3. CASE od' = Mirrored(register', history') /\ stale' = FALSE
  <2>1. /\ SameObjects(od, od') /\ od'[ErrorRegister].value = register'
        /\ ErrorFields # {} => od'[ErrorCount].value = Len(history')
        /\ \A sub \in Filled(history') : od'[ErrorField(sub)].value = history'[sub]
    BY <1>3, MirroredObjects DEF MirrorInv
  <2>2. ErrorObjects(od')
    BY <2>1, ObjectsRemain, Zenon DEF MirrorInv
  <2>3. ErrorFields' = ErrorFields
    BY <2>1 DEF ErrorFields, Has, SameObjects
  <2>4. Filled(history)' = Filled(history')
    BY <2>3 DEF Filled
  <2>5. QED
    BY <2>1, <2>2, <2>3, <2>4, Zenon DEF MirrorInv, MirrorInStep
<1>4. \/ UNCHANGED <<od, register, history, stale>>
      \/ Receive
      \/ od' = Mirrored(register', history') /\ stale' = FALSE
  BY DEF Next, CarryOutReset, Heartbeat, RaiseEmergency, ClearErrors, EnableSyncProducer,
         ProduceSync, vars, nodeVars, errorVars
<1>5. QED
  BY <1>1, <1>2, <1>3, <1>4

LEMMA AlwaysMirror == Spec => []MirrorInv
<1>1. MirrorInv /\ [Next]_vars => MirrorInv'
  BY MirrorStep
<1>2. QED
  BY <1>1, MirrorInit, PTL DEF Spec

\* The error objects a master reads are the node's own state: the register
\* always, the entries as far as they exist, and the count unless a master wrote
\* it since the last error or clearing, whatever else it wrote.
THEOREM ErrorObjectsMirrored == Spec => []MirrorInStep
<1>1. MirrorInv => MirrorInStep
  BY DEF MirrorInv
<1>2. QED
  BY <1>1, AlwaysMirror, PTL

-----------------------------------------------------------------------------
(* What hosts hear of the errors                                           *)

LEMMA PowersOfTwo ==
    /\ 2 ^ 0 = 1 /\ 2 ^ 1 = 2 /\ 2 ^ 2 = 4 /\ 2 ^ 3 = 8
    /\ 2 ^ 4 = 16 /\ 2 ^ 5 = 32 /\ 2 ^ 6 = 64 /\ 2 ^ 7 = 128
OBVIOUS

LEMMA BitWorth ==
    ASSUME NEW i \in 0..7
    PROVE  /\ 2 ^ i \in {1, 2, 4, 8, 16, 32, 64, 128}
           /\ i # 0 => 2 ^ i \in {2, 4, 8, 16, 32, 64, 128}
<1>1. i = 0 \/ i = 1 \/ i = 2 \/ i = 3 \/ i = 4 \/ i = 5 \/ i = 6 \/ i = 7
  OBVIOUS
<1>2. \/ i = 0 /\ 2 ^ i = 1
      \/ 2 ^ i = 2 \/ 2 ^ i = 4 \/ 2 ^ i = 8 \/ 2 ^ i = 16
      \/ 2 ^ i = 32 \/ 2 ^ i = 64 \/ 2 ^ i = 128
  <2>1. \/ i = 0 /\ 2 ^ i = 2 ^ 0
        \/ 2 ^ i = 2 ^ 1 \/ 2 ^ i = 2 ^ 2 \/ 2 ^ i = 2 ^ 3 \/ 2 ^ i = 2 ^ 4
        \/ 2 ^ i = 2 ^ 5 \/ 2 ^ i = 2 ^ 6 \/ 2 ^ i = 2 ^ 7
    BY <1>1, Zenon
  <2>2. QED
    BY <2>1, PowersOfTwo
<1> DEFINE n == 2 ^ i
<1> HIDE DEF n
<1>3. n \in {1, 2, 4, 8, 16, 32, 64, 128} /\ (i # 0 => n \in {2, 4, 8, 16, 32, 64, 128})
  BY <1>2 DEF n
<1>4. QED
  BY <1>3 DEF n

\* The bits of a sum of distinct flags are the flags.
LEMMA SumOfFlags ==
    ASSUME NEW b0 \in {0, 1}, NEW b1 \in {0, 1}, NEW b2 \in {0, 1}, NEW b3 \in {0, 1},
           NEW b4 \in {0, 1}, NEW b5 \in {0, 1}, NEW b6 \in {0, 1}, NEW b7 \in {0, 1},
           NEW n, n = b0 + 2 * b1 + 4 * b2 + 8 * b3 + 16 * b4 + 32 * b5 + 64 * b6 + 128 * b7
    PROVE  /\ (n \div 1) % 2 = b0 /\ (n \div 2) % 2 = b1
           /\ (n \div 4) % 2 = b2 /\ (n \div 8) % 2 = b3
           /\ (n \div 16) % 2 = b4 /\ (n \div 32) % 2 = b5
           /\ (n \div 64) % 2 = b6 /\ (n \div 128) % 2 = b7
<1>1. (n \div 1) % 2 = b0 /\ (n \div 2) % 2 = b1
  OBVIOUS
<1>2. (n \div 4) % 2 = b2 /\ (n \div 8) % 2 = b3
  OBVIOUS
<1>3. (n \div 16) % 2 = b4 /\ (n \div 32) % 2 = b5
  OBVIOUS
<1>4. (n \div 64) % 2 = b6 /\ (n \div 128) % 2 = b7
  OBVIOUS
<1>5. QED
  BY <1>1, <1>2, <1>3, <1>4

\* Joining two registers sets in the one the bits set in either.
LEMMA JoinedBits ==
    ASSUME NEW r, NEW s, NEW i \in 0..7
    PROVE  Bit(Join(r, s), 2 ^ i) <=> Bit(r, 2 ^ i) \/ Bit(s, 2 ^ i)
<1> DEFINE either(bit) == Bit(r, bit) \/ Bit(s, bit)
           b(bit) == IF either(bit) THEN 1 ELSE 0
<1>1. \A bit \in Int : Flag(either(bit), bit) = bit * b(bit)
  BY DEF Flag
<1>2. \A bit : b(bit) \in {0, 1} /\ (b(bit) = 1 <=> either(bit))
  OBVIOUS
<1> HIDE DEF b, either
<1>3. Join(r, s) = b(1) + 2 * b(2) + 4 * b(4) + 8 * b(8)
                 + 16 * b(16) + 32 * b(32) + 64 * b(64) + 128 * b(128)
  <2>1. Join(r, s) = Flag(either(1), 1) + Flag(either(2), 2) + Flag(either(4), 4)
                   + Flag(either(8), 8) + Flag(either(16), 16) + Flag(either(32), 32)
                   + Flag(either(64), 64) + Flag(either(128), 128)
    BY PowersOfTwo DEF Join, either
  <2>2. /\ Flag(either(1), 1) = b(1) /\ Flag(either(2), 2) = 2 * b(2)
        /\ Flag(either(4), 4) = 4 * b(4) /\ Flag(either(8), 8) = 8 * b(8)
        /\ Flag(either(16), 16) = 16 * b(16) /\ Flag(either(32), 32) = 32 * b(32)
        /\ Flag(either(64), 64) = 64 * b(64) /\ Flag(either(128), 128) = 128 * b(128)
    BY <1>1, <1>2
  <2>3. QED
    BY <2>1, <2>2
<1>4. \A bit \in {1, 2, 4, 8, 16, 32, 64, 128} : BitField(Join(r, s), bit, 2) = b(bit)
  <2> DEFINE n == Join(r, s)
  <2> HIDE DEF n
  <2>1. /\ (n \div 1) % 2 = b(1) /\ (n \div 2) % 2 = b(2)
        /\ (n \div 4) % 2 = b(4) /\ (n \div 8) % 2 = b(8)
        /\ (n \div 16) % 2 = b(16) /\ (n \div 32) % 2 = b(32)
        /\ (n \div 64) % 2 = b(64) /\ (n \div 128) % 2 = b(128)
    BY <1>2, <1>3, SumOfFlags DEF n
  <2>2. QED
    BY <2>1 DEF n, BitField
<1> DEFINE worths == {1, 2, 4, 8, 16, 32, 64, 128}
<1> HIDE DEF worths
<1>5. \A bit \in worths : Bit(Join(r, s), bit) <=> either(bit)
  <2> SUFFICES ASSUME NEW bit \in worths
               PROVE  Bit(Join(r, s), bit) <=> either(bit)
    OBVIOUS
  <2>1. BitField(Join(r, s), bit, 2) = b(bit)
    BY <1>4 DEF worths
  <2>2. b(bit) = 1 <=> either(bit)
    BY <1>2, Zenon
  <2> HIDE DEF BitField
  <2>3. QED
    BY <2>1, <2>2, Zenon DEF Bit
<1>6. 2 ^ i \in worths
  BY BitWorth DEF worths
<1>7. QED
  BY <1>5, <1>6, Zenon DEF either

LEMMA GenericBits ==
    ASSUME NEW i \in 0..7
    PROVE  /\ Bit(GENERIC, 2 ^ i) <=> i = 0
           /\ ~Bit(0, 2 ^ i)
<1> DEFINE others == {2, 4, 8, 16, 32, 64, 128}
<1>1. Bit(GENERIC, 1) /\ \A bit \in others : ~Bit(GENERIC, bit)
  <2>1. (1 \div 1) % 2 = 1
    OBVIOUS
  <2>2. ASSUME NEW bit \in others PROVE (1 \div bit) % 2 = 0
    OBVIOUS
  <2>3. QED
    BY <2>1, <2>2 DEF Bit, BitField, GENERIC
<1>2. \A bit \in {1} \cup others : ~Bit(0, bit)
  <2>1. ASSUME NEW bit \in {1} \cup others PROVE (0 \div bit) % 2 = 0
    OBVIOUS
  <2>2. QED
    BY <2>1 DEF Bit, BitField
<1>3. CASE i = 0
  <2>1. 2 ^ i = 1
    BY <1>3, PowersOfTwo, Zenon
  <2>2. QED
    BY <1>1, <1>2, <1>3, <2>1, Zenon
<1>4. CASE i # 0
  <2>1. 2 ^ i \in others
    BY <1>4, BitWorth, Zenon
  <2> HIDE DEF others
  <2>2. QED
    BY <1>1, <1>2, <1>4, <2>1, Zenon
<1>5. QED
  BY <1>3, <1>4

\* A host decodes what the node encoded.
LEMMA EmcyRoundTrip ==
    ASSUME NEW code \in Nat, code < 65536, NEW r
    PROVE  /\ DecodeEmcy(EncodeEmcy(code, r, << 0, 0, 0, 0, 0 >>)).code = code
           /\ DecodeEmcy(EncodeEmcy(code, r, << 0, 0, 0, 0, 0 >>)).register = r
<1> DEFINE data == EncodeEmcy(code, r, <<0, 0, 0, 0, 0>>)
<1>1. data[1] = LeByte(code, 1) /\ data[2] = LeByte(code, 2) /\ data[3] = r
  BY DEF EncodeEmcy
<1>2. LeByte(code, 1) + 256 * LeByte(code, 2) = code
  <2>1. 256 ^ (1 - 1) = 1 /\ 256 ^ (2 - 1) = 256
    OBVIOUS
  <2>2. LeByte(code, 1) = (code \div 1) % 256 /\ LeByte(code, 2) = (code \div 256) % 256
    BY <2>1 DEF LeByte, BitField
  <2>3. ((code \div 1) % 256) + 256 * ((code \div 256) % 256) = code
    OBVIOUS
  <2>4. QED
    BY <2>2, <2>3
<1> HIDE DEF data
<1>3. DecodeEmcy(data).code = code /\ DecodeEmcy(data).register = r
  BY <1>1, <1>2 DEF DecodeEmcy, FromLe16
<1>4. QED
  BY <1>3 DEF data

\* A host has heard the register as it is and the latest error, and the bits of
\* the register are those of the errors since the last clearing.
HeardInv ==
    /\ heard.register = register
    /\ heard.code = IF raised = <<>> THEN 0 ELSE raised[1][1]
    /\ \A i \in 0..7 :
          Bit(register, 2 ^ i) <=> \E e \in Range(raised) : i = 0 \/ Bit(e[2], 2 ^ i)

LEMMA NothingRaised ==
    ASSUME register = 0, raised = << >>,
           heard = DecodeEmcy(EncodeEmcy(0, 0, << 0, 0, 0, 0, 0 >>))
    PROVE  HeardInv
<1>1. heard.register = 0 /\ heard.code = 0
  BY EmcyRoundTrip
<1>2. Range(raised) = {}
  BY Tuples DEF Range
<1>3. QED
  BY <1>1, <1>2, GenericBits DEF HeardInv

LEMMA RaiseIsHeard ==
    ASSUME HeardInv, HistoryInv, RaiseEmergency
    PROVE  HeardInv'
<1>1. PICK e \in Errors :
         /\ register' = Join(register, Join(e[2], GENERIC))
         /\ heard' = DecodeEmcy(EncodeEmcy(e[1], register', <<0, 0, 0, 0, 0>>))
         /\ raised' = <<e>> \o raised
  BY DEF RaiseEmergency, RegisterWith, SendEmcy
<1>2. e[1] \in Nat /\ e[1] < 65536
  <2>1. e \in ErrorCode \X Byte
    BY DeviceAssumption
  <2>2. e[1] \in ErrorCode
    BY <2>1
  <2>3. \A code \in ErrorCode : code \in Nat /\ code < 65536
    BY DEF ErrorCode
  <2>4. QED
    BY <2>2, <2>3
<1>3. heard'.register = register' /\ heard'.code = e[1]
  BY <1>1, <1>2, EmcyRoundTrip
<1>4. raised \in Seq(Errors)
  BY DEF HistoryInv
<1>5. /\ raised' \in Seq(Errors) /\ Len(raised') = Len(raised) + 1
      /\ raised'[1] = e /\ \A i \in 1..Len(raised) : raised'[i + 1] = raised[i]
  BY <1>1, <1>4, Prepended
<1>6. Len(raised) \in Nat /\ DOMAIN raised = 1..Len(raised) /\ DOMAIN raised' = 1..(Len(raised) + 1)
  BY <1>4, <1>5
<1>7. raised' # <<>>
  BY <1>5, <1>6, Tuples
<1>8. \A x : x \in Range(raised') <=> x = e \/ x \in Range(raised)
  <2>1. \A x : x \in Range(raised') <=> \E j \in 1..(Len(raised) + 1) : x = raised'[j]
    BY <1>6 DEF Range
  <2>2. \A x : x \in Range(raised) <=> \E j \in 1..Len(raised) : x = raised[j]
    BY <1>6 DEF Range
  <2>3. \A j \in 1..(Len(raised) + 1) : j = 1 \/ (j - 1 \in 1..Len(raised) /\ raised'[j] = raised[j - 1])
    BY <1>5, <1>6
  <2>4. 1 \in 1..(Len(raised) + 1) /\ \A j \in 1..Len(raised) : j + 1 \in 1..(Len(raised) + 1)
    BY <1>6
  <2>5. \A x : x \in Range(raised') => x = e \/ x \in Range(raised)
    <3> SUFFICES ASSUME NEW x, x \in Range(raised'), x # e PROVE x \in Range(raised)
      OBVIOUS
    <3>1. PICK j \in 1..(Len(raised) + 1) : x = raised'[j]
      BY <2>1, Zenon
    <3>2. j # 1
      BY <1>5, <3>1
    <3>3. j - 1 \in 1..Len(raised) /\ x = raised[j - 1]
      BY <2>3, <3>1, <3>2, Zenon
    <3>4. QED
      BY <2>2, <3>3, Zenon
  <2>6. \A x : x = e \/ x \in Range(raised) => x \in Range(raised')
    BY <1>5, <2>1, <2>2, <2>4, Zenon
  <2>7. QED
    BY <2>5, <2>6, Zenon
<1>9. ASSUME NEW i \in 0..7
      PROVE  Bit(register', 2 ^ i) <=> \E x \in Range(raised') : i = 0 \/ Bit(x[2], 2 ^ i)
  <2>1. Bit(register', 2 ^ i) <=> Bit(register, 2 ^ i) \/ Bit(e[2], 2 ^ i) \/ i = 0
    <3>1. Bit(register', 2 ^ i) <=> Bit(register, 2 ^ i) \/ Bit(Join(e[2], GENERIC), 2 ^ i)
      BY <1>1, JoinedBits
    <3>2. Bit(Join(e[2], GENERIC), 2 ^ i) <=> Bit(e[2], 2 ^ i) \/ Bit(GENERIC, 2 ^ i)
      BY JoinedBits
    <3>3. Bit(GENERIC, 2 ^ i) <=> i = 0
      BY GenericBits
    <3>4. QED
      BY <3>1, <3>2, <3>3, Zenon
  <2>2. Bit(register, 2 ^ i) <=> \E x \in Range(raised) : i = 0 \/ Bit(x[2], 2 ^ i)
    BY Zenon DEF HeardInv
  <2>3. QED
    BY <1>8, <2>1, <2>2, Zenon
<1>10. QED
  BY <1>3, <1>5, <1>7, <1>9, Zenon DEF HeardInv

LEMMA HeardStep ==
    ASSUME HeardInv, HistoryInv, [Next]_vars
    PROVE  HeardInv'
<1>1. CASE UNCHANGED <<register, raised, heard>>
  BY <1>1 DEF HeardInv
<1>2. CASE ClearErrors
  <2>1. /\ register' = 0 /\ raised' = <<>>
        /\ heard' = DecodeEmcy(EncodeEmcy(0, 0, <<0, 0, 0, 0, 0>>))
    BY <1>2 DEF ClearErrors, SendEmcy
  <2>2. heard'.register = 0 /\ heard'.code = 0
    BY <2>1, EmcyRoundTrip
  <2>3. Range(raised') = {}
    BY <2>1, Tuples DEF Range
  <2>4. QED
    BY <2>1, <2>2, <2>3, GenericBits DEF HeardInv
<1>3. UNCHANGED <<register, raised, heard>> \/ RaiseEmergency \/ ClearErrors
  BY DEF Next, Receive, OnFrame, OnLss, OnNmt, OnSdo, Ignore, CarryOutReset, Heartbeat,
         EnableSyncProducer, ProduceSync, vars, nodeVars, errorVars
<1>4. QED
  BY <1>1, <1>2, <1>3, RaiseIsHeard

\* A host decodes from the last EMCY frame the latest error, or an error reset,
\* and the register it reads over SDO; both tell exactly the errors since the
\* last clearing, bit by bit.
THEOREM HostsAgree == Spec => []HostsAgreeOnErrors
<1>1. Init => HeardInv
  BY NothingRaised DEF Init
<1>2. HeardInv /\ HistoryInv /\ [Next]_vars => HeardInv'
  BY HeardStep
<1>3. HeardInv /\ MirrorInv => HostsAgreeOnErrors
  BY DEF HeardInv, MirrorInv, MirrorInStep, HostsAgreeOnErrors
<1>4. QED
  BY <1>1, <1>2, <1>3, AlwaysHistory, AlwaysMirror, PTL DEF Spec

-----------------------------------------------------------------------------
(* Frames of others                                                        *)

\* What comes along the bus: the kinds of Traffic.
LEMMA KindsOfTraffic ==
    ASSUME NEW frame \in Traffic
    PROVE  \/ frame.cob = LSS_MASTER_COB_ID /\ frame.dest = Slaves
           \/ frame.cob = NMT_COMMAND_COB_ID /\ frame.dest = Everybody
           \/ /\ frame.cob = NMT_COMMAND_COB_ID
              /\ \E c \in NmtCommand, i \in Ids \cup {200} :
                    frame.data = encode_command(c, i) /\ (i \in Ids => frame.dest = i)
           \/ \E i \in Ids : frame.cob = sdo_request_cob(i) /\ frame.dest = i
           \/ \E i \in Ids : frame.cob \in ServicesOf(i)
<1>1. ASSUME NEW cob, NEW contents, NEW for, frame \in Frames(cob, contents, for)
      PROVE  frame.cob = cob /\ frame.data \in contents /\ frame.dest = for
  BY <1>1 DEF Frames
<1>2. ASSUME NEW i \in Ids,
             frame \in Frames(NMT_COMMAND_COB_ID, {encode_command(c, i) : c \in NmtCommand}, i)
      PROVE  /\ frame.cob = NMT_COMMAND_COB_ID /\ frame.dest = i
             /\ \E c \in NmtCommand : frame.data = encode_command(c, i)
  BY <1>1, <1>2
<1>3. ASSUME NEW i \in Ids,
             frame \in UNION {Frames(cob, {<< 5 >>}, Hosts) : cob \in ServicesOf(i)}
      PROVE  frame.cob \in ServicesOf(i)
  <2>1. PICK cob \in ServicesOf(i) : frame \in Frames(cob, {<<5>>}, Hosts)
    BY <1>3, Zenon
  <2>2. QED
    BY <1>1, <2>1
<1>4. CASE \E i \in Ids : frame \in TrafficOf(i)
  <2>1. PICK i \in Ids : frame \in TrafficOf(i)
    BY <1>4
  <2>2. CASE frame \in Frames(NMT_COMMAND_COB_ID, {encode_command(c, i) : c \in NmtCommand}, i)
    BY <1>2, <2>2, Zenon
  <2>3. CASE frame \in Frames(sdo_request_cob(i), Reads \cup Writes, i)
    BY <1>1, <2>3, Zenon
  <2>4. CASE frame \in UNION {Frames(cob, {<<5>>}, Hosts) : cob \in ServicesOf(i)}
    BY <1>3, <2>4, Zenon
  <2>5. QED
    BY <2>1, <2>2, <2>3, <2>4, Zenon DEF TrafficOf
<1>5. CASE frame \in Broadcasts
  BY <1>1, <1>5, Zenon DEF Broadcasts
<1>6. CASE frame \in ToNobody
  <2>1. frame.cob = NMT_COMMAND_COB_ID /\ frame.data \in {encode_command("ResetNode", 200)}
    BY <1>1, <1>6 DEF ToNobody
  <2>2. "ResetNode" \in NmtCommand /\ 200 \notin Ids
    BY DeviceAssumption DEF NmtCommand, NodeIds
  <2>3. QED
    BY <2>1, <2>2, Zenon
<1>7. CASE frame \in ToSlaves
  BY <1>1, <1>7, Zenon DEF ToSlaves
<1>8. \/ \E i \in Ids : frame \in TrafficOf(i)
      \/ frame \in Broadcasts \/ frame \in ToNobody \/ frame \in ToSlaves
  BY DEF Traffic
<1>9. QED
  BY <1>4, <1>5, <1>6, <1>7, <1>8, Zenon

\* A frame for another is none of the frames the node acts on.
LEMMA OthersAreIgnored ==
    ASSUME IdentityInv, NEW frame \in Traffic, OnFrame(frame.cob, frame.data),
           frame.dest # Slaves, lss_unconfigured \/ frame.dest \notin {id, Everybody}
    PROVE  UNCHANGED nodeVars /\ sent' = <<>>
<1>1. CASE Ignore
  BY <1>1 DEF Ignore
<1>2. id \in NodeIds /\ sdoId = id
  BY DEF IdentityInv
<1>3. \A i \in Ids : i \in NodeIds
  BY DeviceAssumption
<1>4. ASSUME NEW i \in NodeIds
      PROVE  /\ sdo_request_cob(i) \notin {LSS_MASTER_COB_ID, NMT_COMMAND_COB_ID}
             /\ i # id => sdo_request_cob(i) # sdo_request_cob(id)
             /\ \A cob \in ServicesOf(i) :
                   cob \notin {LSS_MASTER_COB_ID, NMT_COMMAND_COB_ID, sdo_request_cob(id)}
  BY <1>2 DEF NodeIds, sdo_request_cob, LSS_MASTER_COB_ID, NMT_COMMAND_COB_ID, ServicesOf,
          SYNC_COB_ID, TIME_COB_ID, LSS_SLAVE_COB_ID, emcy_cob_id, heartbeat_cob_id,
          sdo_response_cob, default_cob_id
<1>5. CASE frame.cob = NMT_COMMAND_COB_ID
  <2>1. Ignore \/ (OnNmt(frame.data) /\ ~lss_unconfigured)
    <3>1. NMT_COMMAND_COB_ID # LSS_MASTER_COB_ID /\ NMT_COMMAND_COB_ID # sdo_request_cob(sdoId)
      BY <1>2 DEF NodeIds, sdo_request_cob, LSS_MASTER_COB_ID, NMT_COMMAND_COB_ID
    <3>2. QED
      BY <1>5, <3>1 DEF OnFrame
  <2>2. CASE OnNmt(frame.data) /\ ~lss_unconfigured
    <3>1. PICK c \in NmtCommand, i \in Ids \cup {200} :
             frame.data = encode_command(c, i) /\ (i \in Ids => frame.dest = i)
      BY <1>3, <1>4, <1>5, <2>2, KindsOfTraffic
    <3>2. i \notin {BROADCAST, id}
      BY <1>2, <1>3, <2>2, <3>1 DEF BROADCAST, NodeIds
    <3>3. frame.data[2] = i
      BY <3>1 DEF encode_command
    <3>4. \A d \in NmtCommand : ~Commands(frame.data, d, id)
      BY <3>2, <3>3 DEF Commands
    <3>5. QED
      BY <2>2, <3>4 DEF OnNmt, nodeVars, errorVars, syncVars
  <2>3. QED
    BY <1>1, <2>1, <2>2
<1>6. CASE frame.cob # NMT_COMMAND_COB_ID
  <2>1. frame.cob # LSS_MASTER_COB_ID
    BY <1>3, <1>4, <1>6, KindsOfTraffic
  <2>2. ~lss_unconfigured => frame.cob # sdo_request_cob(sdoId)
    BY <1>2, <1>3, <1>4, <1>6, KindsOfTraffic
  <2>3. Ignore
    BY <1>6, <2>1, <2>2 DEF OnFrame
  <2>4. QED
    BY <1>1, <2>3
<1>7. QED
  BY <1>5, <1>6

\* A frame for another node, for a host, or for no node at all, leaves no trace
\* in the node and gets no answer; neither does any frame but an LSS request
\* while the node has no id.
THEOREM ForeignFramesLeaveNoTrace == Spec => OthersLeaveNoTrace
<1>1. IdentityInv /\ [Next]_vars => [foreign' => UNCHANGED nodeVars /\ sent' = <<>>]_vars
  <2> SUFFICES ASSUME IdentityInv, Next, foreign'
               PROVE  UNCHANGED nodeVars /\ sent' = <<>>
    OBVIOUS
  <2>1. Receive
    BY DEF Next, CarryOutReset, Heartbeat, RaiseEmergency, ClearErrors, EnableSyncProducer,
           ProduceSync, Application
  <2>2. PICK frame \in Traffic :
           /\ OnFrame(frame.cob, frame.data)
           /\ frame.dest # Slaves /\ (lss_unconfigured \/ frame.dest \notin {id, Everybody})
    BY <2>1 DEF Receive
  <2>3. QED
    BY <2>2, OthersAreIgnored
<1>2. QED
  BY <1>1, AlwaysIdentity, PTL DEF Spec, OthersLeaveNoTrace
=============================================================================
