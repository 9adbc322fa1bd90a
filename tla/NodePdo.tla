------------------------------- MODULE NodePdo -------------------------------
(***************************************************************************)
(* Process data of one node (core/src/node.rs, core/src/pdo.rs), while a   *)
(* master configures its PDOs over SDO, one object at a time, and NMT      *)
(* commands arrive between any two writes.  The application runs the loop  *)
(* of take_written_object's documentation: after each frame it rebuilds    *)
(* the PDOs if a PDO parameter was written.                                *)
(***************************************************************************)
EXTENDS Nmt, SequencesExt, Integers

CONSTANTS
    Byte,
    Objects,     \* the process objects: integers, and readable
    Width,       \* their sizes in bytes
    Writable,    \* those an RPDO may write
    MaxPdos,     \* MAX_PDOS
    MaxEntries,  \* MAX_PDO_MAPPING, the entries a mapping record holds
    MaxBytes,    \* a frame's data bytes
    Pdos,        \* the PDOs <<kind, number>> that have parameter objects
    Cob,         \* the COB-ID the master uses for each
    Default,     \* the layout each is delivered with
    Layouts,     \* what the master may want of each: a mapping and a type
    RpdoData,    \* data of the frames that arrive
    Published,   \* the values the application gives each object
    Sent,        \* the NMT commands that arrive
    NoJob,       \* the master is not configuring
    NoFrame,     \* no frame arrived
    MaxSince     \* the SYNCs that the history of transmissions counts up to

Event == 255
Cyclic == 1..240
TransmissionType == {0} \cup Cyclic \cup {Event}
Kinds == {"rpdo", "tpdo"}
Entry == [addr : Objects, width : Nat]
Layout == [mapping : Seq(Entry), type : TransmissionType]

ASSUME NodePdoAssumption ==
    /\ Width \in [Objects -> Nat \ {0}]
    /\ Writable \subseteq Objects
    /\ MaxPdos \in Nat /\ MaxEntries \in Nat /\ MaxBytes \in Nat
    /\ Pdos \subseteq Kinds \X (1..MaxPdos)
    /\ \A p, q \in Pdos : Cob[p] = Cob[q] => p = q
    /\ Default \in [Pdos -> Layout]
    /\ \A p \in Pdos : Layouts[p] \subseteq Layout
    /\ 0 \in Byte
    /\ RpdoData \subseteq Seq(Byte)
    /\ \A o \in Objects : Published[o] \subseteq [1..Width[o] -> Byte]
    /\ Sent \subseteq NmtCommand
    /\ MaxSince \in Nat

VARIABLES
    nmt,       \* Node.nmt
    data,      \* the values of the process objects
    param,     \* the PDO parameter objects: 0x1400, 0x1600, 0x1800, 0x1A00 + n
    rpdos,     \* Node.rpdos
    tpdos,     \* Node.tpdos
    out,       \* the frames the last step sent
    heard,     \* the RPDO frame the last step received
    job,       \* what the master is configuring, and how far it is
    intended,  \* history: the layout the master last finished for each PDO
    since      \* history: the SYNCs since each TPDO was last sent on one

nodeVars == <<nmt, data, param, rpdos, tpdos>>
vars == <<nodeVars, out, heard, job, intended, since>>

Frame(cob, bytes) == [cob |-> cob, data |-> bytes]

-----------------------------------------------------------------------------
(* Layouts                                                                 *)

\* The bytes of each prefix of a mapping.
PrefixBytes(mapping) ==
    LET bytes[i \in 0..Len(mapping)] ==
            IF i = 0 THEN 0 ELSE bytes[i - 1] + mapping[i].width
    IN  bytes

\* PdoMapping::total_bytes, and what of it lies before entry i.
TotalBytes(mapping) == PrefixBytes(mapping)[Len(mapping)]
Offset(mapping, i) == PrefixBytes(mapping)[i - 1]

\* Entry i's part of a frame.
Field(bytes, mapping, i) ==
    SubSeq(bytes, Offset(mapping, i) + 1, Offset(mapping, i) + mapping[i].width)

\* An entry fits the object it names.  Its width is in whole bytes: byte_width
\* refuses the others.
Fits(entry) == entry.addr \in Objects /\ entry.width = Width[entry.addr]

\* An RPDO may write it.
Takes(entry) == Fits(entry) /\ entry.addr \in Writable

\* pack: all of the mapped objects, or no frame at all.
CanPack(mapping) == \A i \in DOMAIN mapping : Fits(mapping[i])
Pack(mapping) == FlattenSeq([i \in DOMAIN mapping |-> data[mapping[i].addr]])

\* The entries of a frame that reach the dictionary: none of a frame that is too
\* short; else all before the first that does not fit or may not be written.
Taken(mapping, bytes) ==
    {i \in DOMAIN mapping : /\ Len(bytes) >= TotalBytes(mapping)
                            /\ \A j \in 1..i : Takes(mapping[j])}

\* Those for one object, which are written one after another.
TakenFor(o, mapping, bytes) == {i \in Taken(mapping, bytes) : mapping[i].addr = o}

\* Fault: a frame is taken from its start for every entry.
UnpackFirstField(mapping, bytes) ==
    [o \in Objects |->
        IF TakenFor(o, mapping, bytes) = {} THEN data[o] ELSE SubSeq(bytes, 1, Width[o])]

\* unpack: each object gets the last field for it.
Unpack(mapping, bytes) ==
    [o \in Objects |->
        IF TakenFor(o, mapping, bytes) = {} THEN data[o]
        ELSE Field(bytes, mapping, Max(TakenFor(o, mapping, bytes)))]

-----------------------------------------------------------------------------
(* configure_pdos_from_od                                                  *)

\* read_pdo_mapping, when it succeeds.
Mapping(parameters) == SubSeq(parameters.entry, 1, parameters.count)
MappingOK(parameters) ==
    /\ parameters.count <= MaxEntries
    /\ TotalBytes(Mapping(parameters)) <= MaxBytes

\* Fault: pdo_is_valid is not asked.
BuildUnasked(parameters, p) ==
    IF p \in Pdos /\ MappingOK(parameters[p])
    THEN <<[cob |-> Cob[p], mapping |-> Mapping(parameters[p]),
            type |-> parameters[p].type]>>
    ELSE <<>>

\* build_rpdo and build_tpdo: a slot, or none.
Build(parameters, p) ==
    IF p \in Pdos /\ parameters[p].valid /\ MappingOK(parameters[p])
    THEN <<[cob |-> Cob[p], mapping |-> Mapping(parameters[p]),
            type |-> parameters[p].type]>>
    ELSE <<>>

\* Fault: the rebuild stops at the first PDO that is not configured.
ConfiguredToFirstGap(parameters, kind) ==
    FlattenSeq([n \in 1..MaxPdos |->
        IF \A m \in 1..n : Build(parameters, <<kind, m>>) # <<>>
        THEN Build(parameters, <<kind, n>>) ELSE <<>>])

\* Node::configure_pdos_from_od: the slots of a kind, those that are not
\* configured left out.
Configured(parameters, kind) ==
    FlattenSeq([n \in 1..MaxPdos |-> Build(parameters, <<kind, n>>)])

-----------------------------------------------------------------------------
(* The node                                                                *)

Delivered(layout) ==
    [valid |-> TRUE, count |-> Len(layout.mapping), type |-> layout.type,
     entry |-> [i \in 1..MaxEntries |->
        IF i <= Len(layout.mapping) THEN layout.mapping[i]
        ELSE [addr |-> CHOOSE o \in Objects : TRUE, width |-> 0]]]

Init ==
    /\ nmt = "PreOperational"
    /\ data = [o \in Objects |-> [i \in 1..Width[o] |-> 0]]
    /\ param = [p \in Pdos |-> Delivered(Default[p])]
    /\ rpdos = Configured(param, "rpdo")
    /\ tpdos = Configured(param, "tpdo")
    /\ out = <<>>
    /\ heard = NoFrame
    /\ job = NoJob
    /\ intended = Default
    /\ since = [p \in Pdos |-> MaxSince]

Quiet == out' = <<>> /\ heard' = NoFrame

\* Node::on_nmt, for a command to this node; the application boots a node
\* that has been reset.  Neither touches the PDOs.
OnNmt ==
    /\ \E command \in Sent : nmt' = Applied(nmt, command)
    /\ Quiet
    /\ UNCHANGED <<data, param, rpdos, tpdos, job, intended, since>>
Boot ==
    /\ nmt = "Initialising"
    /\ nmt' = Booted(nmt)
    /\ Quiet
    /\ UNCHANGED <<data, param, rpdos, tpdos, job, intended, since>>

\* Node::on_sdo writes a PDO parameter, and the application's loop takes note.
WriteParameter(p, parameters) ==
    /\ SdoActive(nmt)
    /\ param' = [param EXCEPT ![p] = parameters]
    /\ rpdos' = Configured(param', "rpdo")
    /\ tpdos' = Configured(param', "tpdo")
    /\ Quiet
    /\ UNCHANGED <<nmt, data, since>>

\* Node::on_rpdo: the first RPDO on the COB-ID takes the frame.
OnRpdo ==
    /\ \E p \in Pdos, bytes \in RpdoData :
          LET i == SelectInSeq(rpdos, LAMBDA slot : slot.cob = Cob[p]) IN
          /\ p[1] = "rpdo"
          /\ heard' = Frame(Cob[p], bytes)
          /\ data' = IF /\ PdoActive(nmt)
                        /\ i # 0
                     THEN Unpack(rpdos[i].mapping, bytes) ELSE data
    /\ out' = <<>>
    /\ UNCHANGED <<nmt, param, rpdos, tpdos, job, intended, since>>

\* Node::build_tpdo: the frame of a slot, or none.
BuildTpdo(slot) ==
    IF slot.mapping # <<>> /\ CanPack(slot.mapping)
    THEN <<Frame(slot.cob, Pack(slot.mapping))>> ELSE <<>>

Synchronous(slot) == slot.type \in {0} \cup Cyclic

Capped(n) == IF n < MaxSince THEN n + 1 ELSE MaxSince

\* Node::sync_tpdos, called on a SYNC.
OnSync ==
    /\ out' = IF PdoActive(nmt)
              THEN FlattenSeq([i \in DOMAIN tpdos |->
                      IF Synchronous(tpdos[i]) THEN BuildTpdo(tpdos[i]) ELSE <<>>])
              ELSE <<>>
    /\ heard' = NoFrame
    /\ since' = [p \in Pdos |->
                   IF \E i \in DOMAIN out' : out'[i].cob = Cob[p] THEN 0
                   ELSE Capped(since[p])]
    /\ UNCHANGED <<nodeVars, job, intended>>

\* Node::tpdo, called by the application.
OnDemand ==
    /\ PdoActive(nmt)
    /\ \E i \in DOMAIN tpdos : out' = BuildTpdo(tpdos[i])
    /\ heard' = NoFrame
    /\ UNCHANGED <<nodeVars, job, intended, since>>

\* The application publishes a value through od_mut.
Publish ==
    /\ \E o \in Objects : \E value \in Published[o] :
          data' = [data EXCEPT ![o] = value]
    /\ Quiet
    /\ UNCHANGED <<nmt, param, rpdos, tpdos, job, intended, since>>

-----------------------------------------------------------------------------
(* The master: it disables a PDO, writes its mapping entry by entry, its   *)
(* type and its count, and enables it again.                               *)

StartJob ==
    /\ job = NoJob
    /\ \E p \in Pdos : \E layout \in Layouts[p] :
          job' = [pdo |-> p, layout |-> layout, step |-> 0]
    /\ Quiet
    /\ UNCHANGED <<nodeVars, intended, since>>

\* The write for each step of a job.
NextWrite(parameters, layout, step) ==
    LET k == Len(layout.mapping) IN
    CASE step = 0       -> [parameters EXCEPT !.valid = FALSE]
      [] step \in 1..k  -> [parameters EXCEPT !.entry[step] = layout.mapping[step]]
      [] step = k + 1   -> [parameters EXCEPT !.type = layout.type]
      [] step = k + 2   -> [parameters EXCEPT !.count = k]
      [] step = k + 3   -> [parameters EXCEPT !.valid = TRUE]

Configure ==
    /\ job # NoJob
    /\ WriteParameter(job.pdo, NextWrite(param[job.pdo], job.layout, job.step))
    /\ IF job.step = Len(job.layout.mapping) + 3
       THEN /\ job' = NoJob
            /\ intended' = [intended EXCEPT ![job.pdo] = job.layout]
       ELSE /\ job' = [job EXCEPT !.step = @ + 1]
            /\ UNCHANGED intended

\* The master gives up half way.
GiveUp ==
    /\ job # NoJob
    /\ job' = NoJob
    /\ Quiet
    /\ UNCHANGED <<nodeVars, intended, since>>

Next ==
    \/ OnNmt \/ Boot \/ OnRpdo \/ OnSync \/ OnDemand \/ Publish
    \/ StartJob \/ Configure \/ GiveUp

Spec == Init /\ [][Next]_vars

-----------------------------------------------------------------------------
(* Properties                                                              *)

\* Every layout that the master may want fits a mapping record and a frame.
LayoutsFit ==
    \A p \in Pdos : \A layout \in Layouts[p] \cup {Default[p]} :
        /\ Len(layout.mapping) <= MaxEntries
        /\ TotalBytes(layout.mapping) <= MaxBytes

\* The PDOs in force are those the master has enabled, whatever the state of the
\* others, and each has a layout the master finished writing, never one it is
\* half way through: configure_pdos_from_od takes no notice of a PDO that the
\* master has disabled for the time of its writes.
LayoutsInForce ==
    /\ \A p \in Pdos : param[p].valid =>
          \E slots \in {rpdos, tpdos} : \E i \in DOMAIN slots : slots[i].cob = Cob[p]
    /\ \A slots \in {rpdos, tpdos} : \A i \in DOMAIN slots :
          \E p \in Pdos :
              /\ slots[i].cob = Cob[p]
              /\ slots[i].mapping = intended[p].mapping
              /\ slots[i].type = intended[p].type

\* A frame that PDO p sends with the layout the master finished for it.
SentBy(p, frame) ==
    LET m == intended[p].mapping IN
    /\ p[1] = "tpdo"
    /\ frame.cob = Cob[p]
    /\ param[p].valid
    /\ Len(frame.data) = TotalBytes(m)
    /\ \A j \in DOMAIN m : Field(frame.data, m, j) = data[m[j].addr]

\* Each frame sent carries, field by field, what the objects of the layout the
\* master finished hold at that moment, and comes from an enabled TPDO
\* (sync_tpdos and tpdo through pack).
FramesAsIntended ==
    [][\A i \in DOMAIN out' : \E p \in Pdos : SentBy(p, out'[i])]_vars

\* What the frame that PDO p receives changes: if all that its layout maps may be
\* written, all of it; and no object but by its own field of a frame accepted.
TakenBy(p, frame) ==
    LET m == intended[p].mapping
        accepted == /\ p[1] = "rpdo"
                    /\ param[p].valid
                    /\ nmt = "Operational"
                    /\ Len(frame.data) >= TotalBytes(m)
    IN
    /\ frame.cob = Cob[p]
    /\ accepted /\ (\A i \in DOMAIN m : Takes(m[i])) =>
          \A i \in DOMAIN m :
              (\A j \in DOMAIN m : m[j].addr = m[i].addr => j <= i) =>
                  data'[m[i].addr] = Field(frame.data, m, i)
    /\ \A o \in Objects :
          data'[o] # data[o] =>
             /\ accepted
             /\ \E i \in DOMAIN m : /\ m[i].addr = o
                                    /\ data'[o] = Field(frame.data, m, i)

\* An RPDO frame writes the objects of the layout the master finished, each
\* with its own field (the last, if it is mapped more than once), and nothing
\* else; all of them if all fit and may be written.
\* A frame that is too short, or meets a disabled PDO or a node that is not
\* operational, writes nothing (on_rpdo through unpack).
RpdoAsIntended ==
    [][heard' # NoFrame => \E p \in Pdos : TakenBy(p, heard')]_vars

\* A synchronous cyclic TPDO of type n is sent on every n-th SYNC only, as
\* TransmissionType::SynchronousCyclic says of it.
CyclicEveryNth ==
    [][OnSync =>
         \A p \in Pdos : \A i \in DOMAIN out' :
             out'[i].cob = Cob[p] /\ intended[p].type \in Cyclic =>
                 since[p] + 1 >= intended[p].type]_vars
=============================================================================
