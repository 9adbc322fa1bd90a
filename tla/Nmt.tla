--------------------------------- MODULE Nmt ---------------------------------
(***************************************************************************)
(* The NMT state machine of core/src/nmt.rs.                               *)
(***************************************************************************)

NmtState   == {"Initialising", "PreOperational", "Operational", "Stopped"}
NmtCommand == {"StartRemoteNode", "StopRemoteNode", "EnterPreOperational",
               "ResetNode", "ResetCommunication"}

Resets == {"ResetNode", "ResetCommunication"}

\* NmtStateMachine::boot
Booted(state) == IF state = "Initialising" THEN "PreOperational" ELSE state

\* Fault: a node that has not booted obeys the operational commands.
ObeysAtOnce(state, command) ==
    CASE command \in Resets                -> "Initialising"
      [] command = "StartRemoteNode"       -> "Operational"
      [] command = "StopRemoteNode"        -> "Stopped"
      [] command = "EnterPreOperational"   -> "PreOperational"

\* NmtStateMachine::apply
Applied(state, command) ==
    CASE command \in Resets                -> "Initialising"
      [] state = "Initialising" /\ command \notin Resets -> "Initialising"
      [] state # "Initialising" /\ command = "StartRemoteNode" -> "Operational"
      [] state # "Initialising" /\ command = "StopRemoteNode"  -> "Stopped"
      [] state # "Initialising" /\ command = "EnterPreOperational" -> "PreOperational"

\* The services a state allows (Node::on_sdo, Node::on_rpdo, Node::tpdo).
SdoActive(state) == state \in {"PreOperational", "Operational"}
PdoActive(state) == state = "Operational"
=============================================================================
