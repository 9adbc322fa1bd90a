------------------------------ MODULE MCNodePdo ------------------------------
(* One RPDO and two TPDOs over objects of one and two bytes, one of which an *)
(* RPDO may not write.                                                       *)
EXTENDS NodePdo

CONSTANTS a, b, wide

MCObjects == {a, b, wide}
MCWidth == [o \in MCObjects |-> IF o = wide THEN 2 ELSE 1]
MCPdos == {<<"rpdo", 1>>, <<"tpdo", 1>>, <<"tpdo", 2>>}
MCCob == [p \in MCPdos |-> p]

Maps(objects) == [i \in DOMAIN objects |->
                     [addr |-> objects[i], width |-> MCWidth[objects[i]]]]
L(objects, type) == [mapping |-> Maps(objects), type |-> type]

\* An entry wider than its object.
Misfit == [mapping |-> <<[addr |-> a, width |-> 1], [addr |-> b, width |-> 2]>>,
           type |-> Event]

MCDefault == [p \in MCPdos |->
    CASE p = <<"rpdo", 1>> -> L(<<a>>, Event)
      [] p = <<"tpdo", 1>> -> L(<<b>>, 0)
      [] p = <<"tpdo", 2>> -> L(<<wide>>, Event)]
MCLayouts == [p \in MCPdos |->
    CASE p = <<"rpdo", 1>> -> {L(<<b, a>>, Event), L(<<a, a>>, Event),
                               L(<<a, wide>>, Event), Misfit}
      [] p = <<"tpdo", 1>> -> {L(<<wide, b>>, Event)}
      [] p = <<"tpdo", 2>> -> {L(<<b>>, 2)}]
MCRpdoData == {<<1>>, <<1, 0, 1>>}
MCPublished == [o \in MCObjects |->
    CASE o = a -> {} [] o = b -> {<<0>>, <<1>>} [] o = wide -> {<<0, 1>>}]
MCSent == {"StartRemoteNode", "ResetCommunication"}

ASSUME LayoutsFit
=============================================================================
