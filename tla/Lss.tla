--------------------------------- MODULE Lss ---------------------------------
(***************************************************************************)
(* Layer setting services, core/src/lss.rs: the LssSlave of every node and *)
(* the FastscanMaster, with the frames of COB-IDs 0x7E5 and 0x7E4.  An     *)
(* identity value is a function from bit numbers to bits.                  *)
(***************************************************************************)
EXTENDS Integers

CONSTANTS
    W,            \* bits of an identity value (32)
    LastSub,      \* identity values are numbered 0..LastSub (3, the serial)
    MaxNodeId,    \* the largest node-id (127)
    Unconfigured  \* UNCONFIGURED_NODE_ID

ASSUME LssAssumption ==
    /\ W \in Nat \ {0}
    /\ LastSub \in Nat \ {0}
    /\ MaxNodeId \in Nat
    /\ Unconfigured \notin 1..MaxNodeId

Bit  == 0..(W - 1)
Sub  == 0..LastSub
Word == [Bit -> {0, 1}]
LssAddress == [Sub -> Word]
NodeId == 1..MaxNodeId

ZeroWord == [b \in Bit |-> 0]
FastscanInit == W  \* FASTSCAN_INIT, one past the most significant bit

-----------------------------------------------------------------------------
(* Frames                                                                  *)

LssRequests ==
    [cs : {"SwitchGlobal"}, configuration : BOOLEAN]
    \cup [cs : {"SwitchSelective"}, sub : Sub, value : Word]
    \cup [cs : {"ConfigureNodeId"}, id : Nat]
    \cup [cs : {"StoreConfiguration", "InquireNodeId"}]
    \cup [cs : {"Inquire"}, sub : Sub]
    \cup [cs : {"Fastscan"}, id : Word, bitCheck : Nat, sub : Sub, next : Sub]

SwitchGlobal(configuration) ==
    [cs |-> "SwitchGlobal", configuration |-> configuration]
SwitchSelective(sub, address) ==
    [cs |-> "SwitchSelective", sub |-> sub, value |-> address[sub]]
ConfigureNodeId(id) == [cs |-> "ConfigureNodeId", id |-> id]
Fastscan(id, bitCheck, sub, next) ==
    [cs |-> "Fastscan", id |-> id, bitCheck |-> bitCheck, sub |-> sub, next |-> next]

IdentifySlave == [cs |-> "IdentifySlave"]
NoReply == [cs |-> "NoReply"]

-----------------------------------------------------------------------------
(* LssSlave                                                                *)

Slave == [nodeId : NodeId \cup {Unconfigured}, pending : NodeId \cup {Unconfigured},
          state : {"Waiting", "Configuration"}, selective : 0..LastSub, fsSub : Sub]

NewSlave(nodeId) ==
    [nodeId |-> nodeId, pending |-> nodeId, state |-> "Waiting",
     selective |-> 0, fsSub |-> 0]

Configuring(sl) == sl.state = "Configuration"

\* A node takes part in a scan while it has no node-id and is not selected.
Scannable(sl) == sl.nodeId = Unconfigured /\ sl.state = "Waiting"

\* The bits from bitCheck up agree; and the fault of a mask one bit short.
MatchesAboveOnly(req, identity) ==
    \A b \in Bit : b > req.bitCheck => req.id[b] = identity[req.sub][b]
MatchesFrom(req, identity) ==
    \A b \in Bit : b >= req.bitCheck => req.id[b] = identity[req.sub][b]

\* The request is about the value the node has come to.
InSub(sl, req) == sl.fsSub = req.sub

AnswersFastscan(sl, identity, req) ==
    /\ Scannable(sl)
    /\ req.bitCheck < FastscanInit =>
          InSub(sl, req) /\ MatchesFrom(req, identity)

\* A whole value matched and the request names another: this value is done.
ConfirmsSub(req) == req.bitCheck = 0 /\ req.next # req.sub

AfterFastscan(sl, identity, req) ==
    IF ~AnswersFastscan(sl, identity, req) THEN sl
    ELSE IF req.bitCheck >= FastscanInit THEN [sl EXCEPT !.fsSub = 0]
    ELSE IF ~ConfirmsSub(req) THEN sl
    ELSE IF req.sub >= LastSub THEN [sl EXCEPT !.state = "Configuration"]
    ELSE [sl EXCEPT !.fsSub = req.next]

\* A selective switch counts the values matched so far, in order.
SelectiveMatch(sl, identity, req) ==
    (req.sub = 0 \/ sl.selective = req.sub) /\ req.value = identity[req.sub]

AfterSelective(sl, identity, req) ==
    IF ~SelectiveMatch(sl, identity, req) THEN [sl EXCEPT !.selective = 0]
    ELSE IF req.sub < LastSub THEN [sl EXCEPT !.selective = req.sub + 1]
    ELSE [sl EXCEPT !.selective = 0, !.state = "Configuration"]

\* Fault: every node takes the node-id, selected or not.
AcceptsAlways(sl, id) == id \in NodeId \cup {Unconfigured}
AcceptsNodeId(sl, id) == Configuring(sl) /\ id \in NodeId \cup {Unconfigured}

\* LssSlave::handle, the slave after it ...
Handled(sl, identity, req) ==
    CASE req.cs = "SwitchGlobal" ->
            [sl EXCEPT !.selective = 0,
                       !.state = IF req.configuration THEN "Configuration"
                                                      ELSE "Waiting"]
      [] req.cs = "SwitchSelective" -> AfterSelective(sl, identity, req)
      [] req.cs = "ConfigureNodeId" ->
            IF AcceptsNodeId(sl, req.id) THEN [sl EXCEPT !.pending = req.id] ELSE sl
      [] req.cs = "Fastscan" -> AfterFastscan(sl, identity, req)
      [] OTHER -> sl

\* ... and its reply.
Reply(sl, identity, req) ==
    CASE req.cs = "SwitchSelective" /\ req.sub = LastSub
                /\ SelectiveMatch(sl, identity, req) ->
            [cs |-> "SwitchSelectiveResponse"]
      [] req.cs = "ConfigureNodeId" /\ Configuring(sl) ->
            [cs |-> "ConfigureNodeId", error |-> IF AcceptsNodeId(sl, req.id) THEN 0 ELSE 1]
      [] req.cs = "StoreConfiguration" /\ Configuring(sl) ->
            [cs |-> "StoreConfiguration"]
      [] req.cs = "InquireNodeId" /\ Configuring(sl) ->
            [cs |-> "InquireNodeId", id |-> sl.nodeId]
      [] req.cs = "Inquire" /\ Configuring(sl) ->
            [cs |-> "Inquire", value |-> identity[req.sub]]
      [] req.cs = "Fastscan" /\ AnswersFastscan(sl, identity, req) -> IdentifySlave
      [] OTHER -> NoReply

\* Node::apply_lss_node_id, which the application calls on a reset.
ApplyNodeId(sl) ==
    IF sl.pending \in NodeId THEN [sl EXCEPT !.nodeId = sl.pending] ELSE sl

-----------------------------------------------------------------------------
(* FastscanMaster                                                          *)

Probe == -2
Confirm == -1

Master == [id : [Sub -> Word], sub : 0..(LastSub + 1), bit : -2..(W - 1),
           found : BOOLEAN]

NewMaster == [id |-> [s \in Sub |-> ZeroWord], sub |-> 0, bit |-> Probe, found |-> FALSE]

\* Fault: the last value is not scanned.
CompleteTooEarly(m) == m.sub >= LastSub
IsComplete(m) == m.sub > LastSub

NextRequest(m) ==
    CASE m.bit = Probe   -> Fastscan(ZeroWord, FastscanInit, 0, 0)
      [] m.bit = Confirm -> Fastscan(m.id[m.sub], 0, m.sub, (m.sub + 1) % (LastSub + 1))
      [] OTHER           -> Fastscan(m.id[m.sub], m.bit, m.sub, m.sub)

\* Fault: silence is not entered as a bit.
KeepBit(m, responded) == m.id
EnterBit(m, responded) ==
    IF responded THEN m.id ELSE [m.id EXCEPT ![m.sub][m.bit] = 1]

OnResponse(m, responded) ==
    CASE m.bit = Probe ->
            IF responded THEN [m EXCEPT !.found = TRUE, !.bit = W - 1]
                         ELSE [m EXCEPT !.sub = LastSub + 1]
      [] m.bit = Confirm -> [m EXCEPT !.sub = m.sub + 1, !.bit = W - 1]
      [] OTHER -> [m EXCEPT !.id = EnterBit(m, responded), !.bit = m.bit - 1]
=============================================================================
