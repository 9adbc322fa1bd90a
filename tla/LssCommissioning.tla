-------------------------- MODULE LssCommissioning ---------------------------
(***************************************************************************)
(* A master gives every node on the bus a node-id over LSS, one at a time: *)
(* it selects a node by Fastscan or, when it knows the address, by a       *)
(* selective switch; asks for a value of its identity; configures and      *)
(* stores a node-id; switches all nodes back to waiting; and resets the    *)
(* nodes, which adopt what they were given (docs/ARCHITECTURE.md section 8 *)
(* and host/examples/vcan_loopback.rs).                                    *)
(***************************************************************************)
EXTENDS Lss, FiniteSets

CONSTANTS
    Slaves,     \* the nodes
    Addresses,  \* the addresses they may have
    Known       \* the nodes whose address the master knows

ASSUME LssCommissioningAssumption ==
    /\ IsFiniteSet(Slaves)
    /\ Addresses \subseteq LssAddress
    /\ Known \subseteq Slaves

VARIABLES
    address,  \* LssSlave.address of every node (object 0x1018)
    slave,    \* the rest of its LssSlave
    master,   \* the FastscanMaster
    phase,    \* what the commissioning is doing
    target,   \* the known node a selective switch is after
    part,     \* the frame of encode_switch_selective sent last
    nextId,   \* the node-id given next
    request,  \* the frame on 0x7E5 (or 0x000) being received, or NoReply
    toHear,   \* the nodes that have yet to receive it
    heard     \* the replies received within the LSS timeout

slaveVars  == <<address, slave>>
driverVars == <<master, phase, target, part, nextId>>
busVars    == <<request, toHear, heard>>
vars == <<slaveVars, driverVars, busVars>>

NmtReset == [cs |-> "NmtReset"]

Init ==
    /\ address \in [Slaves -> Addresses]
    /\ \A s, t \in Slaves : s # t => address[s] # address[t]
    /\ slave = [s \in Slaves |-> NewSlave(Unconfigured)]
    /\ master = NewMaster
    /\ phase = "start"
    /\ target = CHOOSE s \in Slaves : TRUE
    /\ part = 0
    /\ nextId = 1
    /\ request = NoReply
    /\ toHear = {}
    /\ heard = {}

-----------------------------------------------------------------------------
(* The bus: every node receives a request, in any order, and the master    *)
(* takes the replies that come before its timeout.                         *)

\* Node::on_lss, and for a reset the application's Node::apply_lss_node_id.
Hear(s) ==
    /\ s \in toHear
    /\ toHear' = toHear \ {s}
    /\ IF request = NmtReset
       THEN /\ slave' = [slave EXCEPT ![s] = ApplyNodeId(slave[s])]
            /\ UNCHANGED heard
       ELSE /\ slave' = [slave EXCEPT ![s] = Handled(slave[s], address[s], request)]
            /\ heard' = heard \cup ({Reply(slave[s], address[s], request)} \ {NoReply})
    /\ UNCHANGED <<address, driverVars, request>>

LoseReply(s) ==
    /\ s \in toHear
    /\ request # NmtReset
    /\ toHear' = toHear \ {s}
    /\ slave' = [slave EXCEPT ![s] = Handled(slave[s], address[s], request)]
    /\ UNCHANGED <<address, driverVars, request, heard>>

Send(frame) ==
    /\ request = NoReply
    /\ request' = frame
    /\ toHear' = Slaves
    /\ heard' = {}
    /\ UNCHANGED slaveVars

\* The LSS timeout of the request has passed.
Answered(state) ==
    /\ phase = state
    /\ request # NoReply
    /\ toHear = {}
    /\ request' = NoReply
    /\ heard' = {}
    /\ UNCHANGED <<slaveVars, toHear>>

-----------------------------------------------------------------------------
(* The commissioning                                                       *)

StartScan ==
    /\ phase = "start"
    /\ phase' = "scan"
    /\ master' = NewMaster
    /\ UNCHANGED <<slaveVars, target, part, nextId, busVars>>

StartSelect ==
    /\ phase = "start"
    /\ \E s \in Known :
          /\ slave[s].nodeId = Unconfigured
          /\ target' = s
    /\ phase' = "select"
    /\ part' = 0
    /\ master' = NewMaster
    /\ UNCHANGED <<slaveVars, nextId, busVars>>

SendScan ==
    /\ phase = "scan"
    /\ ~IsComplete(master)
    /\ Send(NextRequest(master))
    /\ UNCHANGED driverVars

ScanAnswered ==
    /\ Answered("scan")
    /\ master' = OnResponse(master, IdentifySlave \in heard)
    /\ phase' = IF ~IsComplete(master') THEN "scan"
                ELSE IF master'.found THEN "inquire" ELSE "done"
    /\ UNCHANGED <<target, part, nextId>>

SendSelective ==
    /\ phase = "select"
    /\ Send(SwitchSelective(part, address[target]))
    /\ UNCHANGED driverVars

SelectAnswered ==
    /\ Answered("select")
    /\ IF part < LastSub
       THEN part' = part + 1 /\ UNCHANGED phase
       ELSE /\ phase' = IF heard # {} THEN "inquire" ELSE "failed"
            /\ UNCHANGED part
    /\ UNCHANGED <<master, target, nextId>>

\* The master may look at the node it selected before it names it.
SendInquiry ==
    /\ phase = "inquire"
    /\ \/ \E k \in Sub : Send([cs |-> "Inquire", sub |-> k])
       \/ Send([cs |-> "InquireNodeId"])
    /\ UNCHANGED driverVars

SendConfigure ==
    /\ phase = "configure"
    /\ Send(ConfigureNodeId(nextId))
    /\ UNCHANGED driverVars

ConfigureAnswered ==
    /\ Answered("configure")
    /\ IF heard = {[cs |-> "ConfigureNodeId", error |-> 0]}
       THEN phase' = "store" /\ nextId' = nextId + 1
       ELSE phase' = "failed" /\ UNCHANGED nextId
    /\ UNCHANGED <<master, target, part>>

SendFixed(state, frame) ==
    /\ phase = state
    /\ Send(frame)
    /\ UNCHANGED driverVars

FixedAnswered(state, next) ==
    /\ Answered(state)
    /\ phase' = next
    /\ UNCHANGED <<master, target, part, nextId>>

Driver ==
    \/ StartScan \/ StartSelect
    \/ SendScan \/ ScanAnswered
    \/ SendSelective \/ SelectAnswered
    \/ SendInquiry   \/ FixedAnswered("inquire", "configure")
    \/ SendConfigure \/ ConfigureAnswered
    \/ SendFixed("store", [cs |-> "StoreConfiguration"])
    \/ FixedAnswered("store", "release")
    \/ SendFixed("release", SwitchGlobal(FALSE))
    \/ FixedAnswered("release", "reset")
    \/ SendFixed("reset", NmtReset)
    \/ FixedAnswered("reset", "start")

Terminated == phase \in {"done", "failed"} /\ UNCHANGED vars

Next      == Driver \/ (\E s \in Slaves : Hear(s)) \/ Terminated
LossyNext == Next \/ \E s \in Slaves : LoseReply(s)

Spec      == Init /\ [][Next]_vars
LossySpec == Init /\ [][LossyNext]_vars

\* Every node's main loop handles what it receives, and the master goes on
\* after each timeout.
FairSpec == Spec /\ WF_vars(Driver) /\ \A s \in Slaves : WF_vars(Hear(s))

-----------------------------------------------------------------------------
(* Properties                                                              *)

Selected == {s \in Slaves : slave[s].state = "Configuration"}

\* A completed selection has singled out one node, whatever the number of
\* nodes that answered its requests: that node alone is in the configuration
\* state, and it is the one at the address the scan assembled, or the one the
\* selective switch named (FastscanMaster and encode_switch_selective against
\* LssSlave::handle).
SelectsOne ==
    phase = "inquire" /\ request = NoReply =>
        \E s \in Slaves :
            /\ Selected = {s}
            /\ address[s] = IF master.found THEN master.id ELSE address[target]

\* From the selection to the release at most one node is in the configuration
\* state, so a node-id is never given to two.
OneSelected == Cardinality(Selected) <= 1

\* No two nodes work under the same node-id.
UniqueNodeIds ==
    \A s, t \in Slaves :
        s # t /\ slave[s].nodeId # Unconfigured => slave[s].nodeId # slave[t].nodeId

\* The commissioning ends, with every node named unless the node-ids ran out.
AllCommissioned ==
    <>(\/ phase = "done" /\ \A s \in Slaves : slave[s].nodeId # Unconfigured
       \/ phase = "failed" /\ nextId > MaxNodeId)

\* docs/ARCHITECTURE.md and FastscanMaster::address: a scan that is complete
\* and found a node has its address, and the node is in the configuration state.
CompleteMeansMatched ==
    phase = "inquire" /\ request = NoReply =>
        \E s \in Selected : address[s] = master.id
=============================================================================
