---------------------------- MODULE AtomicObjects ----------------------------
(***************************************************************************)
(* What SDO access promises, without frames: each call of sdo_read or      *)
(* sdo_write makes at most one access to the object it names, atomically,  *)
(* between its start and its return, and a call that reports success has   *)
(* made exactly one.                                                       *)
(***************************************************************************)
EXTENDS Integers, Sequences

CONSTANTS
    Objects,       \* the objects of the dictionary
    Address,       \* what a call may name
    Type,          \* the data type of each object
    Decodable(_, _),  \* Decodable(t, v): v has a length that type t takes
    Decode(_, _),     \* Decode(t, v): what v is as a value of type t
    InitialValue

VARIABLES
    mem,     \* the value of every object
    call,    \* the call made last
    result,  \* its result
    made     \* the accesses it has made

vars == <<mem, call, result, made>>

Running == result.kind = "Pending"

Init ==
    /\ mem = InitialValue
    /\ call = [op |-> "none"]
    /\ result = [kind |-> "Io"]
    /\ made = <<>>

Start ==
    /\ ~Running
    /\ result' = [kind |-> "Pending"]
    /\ made' = <<>>
    /\ call'.op \in {"read", "write"}
    /\ call'.addr \in Address
    /\ UNCHANGED mem

Read ==
    /\ Running
    /\ made = <<>>
    /\ call.op = "read"
    /\ call.addr \in Objects
    /\ made' = <<[op |-> "read", addr |-> call.addr, value |-> mem[call.addr]]>>
    /\ UNCHANGED <<mem, call, result>>

Write ==
    /\ Running
    /\ made = <<>>
    /\ call.op = "write"
    /\ call.addr \in Objects
    /\ Decodable(Type[call.addr], call.value)
    /\ LET value == Decode(Type[call.addr], call.value) IN
       /\ mem' = [mem EXCEPT ![call.addr] = value]
       /\ made' = <<[op |-> "write", addr |-> call.addr, value |-> value]>>
    /\ UNCHANGED <<call, result>>

Succeed ==
    /\ Running
    /\ made # <<>>
    /\ call.op = "read" => Decodable(call.type, made[1].value)
    /\ result' = IF call.op = "write" THEN [kind |-> "Written"]
                 ELSE [kind |-> "Value", value |-> Decode(call.type, made[1].value)]
    /\ UNCHANGED <<mem, call, made>>

\* A call may fail at any time, whether or not its access was made.
Fail ==
    /\ Running
    /\ result'.kind \in {"Io", "Aborted"}
    /\ UNCHANGED <<mem, call, made>>

\* The device publishes a value on its own account.
Publish ==
    /\ \E o \in Objects : /\ mem' = [mem EXCEPT ![o] = mem'[o]]
                          /\ Decodable(Type[o], mem'[o])
                          /\ Decode(Type[o], mem'[o]) = mem'[o]
    /\ UNCHANGED <<call, result, made>>

Next == Start \/ Read \/ Write \/ Succeed \/ Fail \/ Publish

Spec == Init /\ [][Next]_vars
=============================================================================
