------------------------------- MODULE Services -------------------------------
(***************************************************************************)
(* The predefined connection set, which gives every service of every node  *)
(* its COB-ID, and the short frames on it: NMT commands, error control,    *)
(* emergencies, SYNC and TIME (core/src/nmt.rs, emcy.rs, sync.rs, time.rs),*)
(* with the labels `canopen monitor` gives COB-IDs (cli/src/main.rs).      *)
(***************************************************************************)
EXTENDS Bytes, Sequences

NodeIds == 1..127
BROADCAST == 0

NMT_COMMAND_COB_ID == 0
SYNC_COB_ID        == 128   \* 0x080
TIME_COB_ID        == 256   \* 0x100
LSS_SLAVE_COB_ID   == 2020  \* 0x7E4
LSS_MASTER_COB_ID  == 2021  \* 0x7E5

emcy_cob_id(node)      == 128 + node   \* 0x080
sdo_response_cob(node) == 1408 + node  \* 0x580
heartbeat_cob_id(node) == 1792 + node  \* 0x700

sdo_request_cob(node)  == 1536 + node  \* 0x600

\* The default COB-ID of PDO `number`, 1..4.
default_cob_id(kind, number, node) ==
    (IF kind = "Transmit" THEN 128 ELSE 256) + number * 256 + node

\* The label of a COB-ID in the bus monitor.
classify(cob) ==
    CASE cob = 0            -> "NMT"
      [] cob = 128          -> "SYNC"
      [] cob \in 129..255   -> "EMCY"
      [] cob = 256          -> "TIME"
      [] cob \in 384..1407  -> "PDO"
      [] cob \in 1408..1535 -> "SDO tx"
      [] cob \in 1536..1663 -> "SDO rx"
      [] cob \in 1792..1919 -> "heartbeat"
      [] cob \in {2020, 2021} -> "LSS"
      [] OTHER              -> ""

-----------------------------------------------------------------------------
(* NMT commands and error control                                          *)

CommandByte(command) ==
    CASE command = "StartRemoteNode"     -> 1
      [] command = "StopRemoteNode"      -> 2
      [] command = "EnterPreOperational" -> 128
      [] command = "ResetNode"           -> 129
      [] command = "ResetCommunication"  -> 130

encode_command(command, target) == <<CommandByte(command), target>>

\* Whether a frame commands node `node`.  Fault: a target that is no node-id
\* is taken for the broadcast.
CommandsOrInvalid(data, command, node) ==
    /\ Len(data) >= 2
    /\ data[1] = CommandByte(command)
    /\ data[2] \notin NodeIds \ {node}
Commands(data, command, node) ==
    /\ Len(data) >= 2
    /\ data[1] = CommandByte(command)
    /\ data[2] \in {BROADCAST, node}

StateByte(state) ==
    CASE state = "Initialising"   -> 0
      [] state = "Stopped"        -> 4
      [] state = "Operational"    -> 5
      [] state = "PreOperational" -> 127

encode_heartbeat(state) == <<StateByte(state)>>

-----------------------------------------------------------------------------
(* Emergencies                                                             *)

\* Bit 0 of the error register is set with any other.
GENERIC == 1
Join(r, s) ==
    LET Joined(i) == Flag(Bit(r, 2 ^ i) \/ Bit(s, 2 ^ i), 2 ^ i) IN
    Joined(0) + Joined(1) + Joined(2) + Joined(3) + Joined(4) + Joined(5) + Joined(6) + Joined(7)

EncodeEmcy(code, register, info) ==
    <<LeByte(code, 1), LeByte(code, 2), register>> \o info

DecodeEmcy(data) == [code |-> FromLe16(data[1], data[2]), register |-> data[3]]

-----------------------------------------------------------------------------
(* SYNC and TIME                                                           *)

ValidOverflow(overflow) == overflow = 0 \/ overflow \in 2..240

EncodeSync(count) == IF count = 0 THEN <<>> ELSE <<count>>

\* The milliseconds take 28 bits of four bytes, the days two bytes.
EncodeTime(milliseconds, days) ==
    LET ms == milliseconds % 2 ^ 28 IN
    [i \in 1..6 |-> IF i <= 4 THEN LeByte(ms, i) ELSE LeByte(days, i - 4)]
DecodeTime(data) ==
    [milliseconds |-> FromLe32(data[1], data[2], data[3], data[4] % 16),
     days |-> FromLe16(data[5], data[6])]
=============================================================================
