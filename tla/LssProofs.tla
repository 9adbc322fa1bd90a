------------------------------ MODULE LssProofs -------------------------------
(***************************************************************************)
(* Commissioning over LSS, for any number of nodes, addresses of any width *)
(* and any loss of replies: at most one node is selected at a time, and no *)
(* two nodes ever work under the same node-id.                             *)
(***************************************************************************)
EXTENDS LssCommissioning, FiniteSetTheorems, TLAPS

-----------------------------------------------------------------------------
(* What LssSlave::handle makes of each request                             *)

LEMMA QuietRequests ==
    ASSUME NEW sl, NEW identity, NEW req,
           req.cs \in {"Inquire", "InquireNodeId", "StoreConfiguration"}
    PROVE  Handled(sl, identity, req) = sl
BY DEF Handled

LEMMA ConfigureRequest ==
    ASSUME NEW sl \in Slave, NEW identity, NEW id
    PROVE  LET h == Handled(sl, identity, ConfigureNodeId(id)) IN
           /\ h \in Slave
           /\ h.state = sl.state /\ h.selective = sl.selective /\ h.fsSub = sl.fsSub
           /\ h.nodeId = sl.nodeId
           /\ h.pending = sl.pending \/ (h.pending = id /\ sl.state = "Configuration")
<1>1. Handled(sl, identity, ConfigureNodeId(id)) =
         IF AcceptsNodeId(sl, id) THEN [sl EXCEPT !.pending = id] ELSE sl
  BY DEF Handled, ConfigureNodeId
<1>2. QED
  BY <1>1 DEF Slave, AcceptsNodeId, Configuring

\* A node that takes part in a scan goes on to the next value, or selects
\* itself after the last, only when its own value is the one confirmed.
LEMMA ScanRequest ==
    ASSUME NEW sl \in Slave, NEW identity \in LssAddress, NEW m \in Master, ~IsComplete(m)
    PROVE  LET h == Handled(sl, identity, NextRequest(m)) IN
           /\ h \in Slave
           /\ h.nodeId = sl.nodeId /\ h.pending = sl.pending /\ h.selective = sl.selective
           /\ ~Scannable(sl) => h = sl
           /\ Scannable(sl) =>
                 \/ m.bit = Probe /\ h.fsSub = 0 /\ h.state = sl.state
                 \/ m.bit # Probe /\ h = sl
                 \/ /\ m.bit = Confirm /\ sl.fsSub = m.sub /\ identity[m.sub] = m.id[m.sub]
                    /\ \/ m.sub = LastSub
                       \/ h.fsSub = m.sub + 1 /\ h.state = sl.state
<1> DEFINE req == NextRequest(m)
           h == Handled(sl, identity, req)
<1>1. /\ m.sub \in Sub /\ m.bit \in -2..(W - 1) /\ m.id \in [Sub -> Word]
      /\ LastSub \in Nat \ {0} /\ W \in Nat \ {0}
  BY LssAssumption DEF Master, IsComplete, Sub
<1>2. CASE m.bit = Probe
  <2>1. req = Fastscan(ZeroWord, W, 0, 0)
    BY <1>2 DEF NextRequest, FastscanInit, Probe, Confirm
  <2>2. h = AfterFastscan(sl, identity, req)
    BY <2>1 DEF Handled, Fastscan
  <2>3. h = IF Scannable(sl) THEN [sl EXCEPT !.fsSub = 0] ELSE sl
    BY <1>1, <2>1, <2>2 DEF AfterFastscan, AnswersFastscan, FastscanInit, Fastscan
  <2>4. 0 \in Sub
    BY <1>1 DEF Sub
  <2>5. QED
    BY <1>2, <2>3, <2>4 DEF Slave
<1>3. CASE m.bit \in Bit
  <2>1. req = Fastscan(m.id[m.sub], m.bit, m.sub, m.sub)
    BY <1>3 DEF NextRequest, Probe, Confirm, Bit
  <2>2. h = AfterFastscan(sl, identity, req)
    BY <2>1 DEF Handled, Fastscan
  <2>3. h = sl
    BY <1>1, <1>3, <2>1, <2>2
       DEF AfterFastscan, AnswersFastscan, FastscanInit, Fastscan, ConfirmsSub, Bit
  <2>4. m.bit # Probe
    BY <1>3 DEF Probe, Bit
  <2>5. QED
    BY <2>3, <2>4
<1>4. CASE m.bit = Confirm
  <2> DEFINE next == (m.sub + 1) % (LastSub + 1)
  <2>1. req = Fastscan(m.id[m.sub], 0, m.sub, next)
    BY <1>4 DEF NextRequest, Probe, Confirm
  <2>2. next = IF m.sub = LastSub THEN 0 ELSE m.sub + 1
    <3>1. PICK k \in Nat : k = m.sub
      BY <1>1 DEF Sub
    <3>2. k <= LastSub
      BY <1>1, <3>1 DEF Sub
    <3>3. CASE k = LastSub
      <4>1. (LastSub + 1) % (LastSub + 1) = 0
        BY <1>1
      <4>2. QED
        BY <3>1, <3>3, <4>1
    <3>4. CASE k < LastSub
      <4>1. (k + 1) % (LastSub + 1) = k + 1
        BY <1>1, <3>4
      <4>2. QED
        BY <1>1, <3>1, <3>4, <4>1
    <3>5. QED
      BY <1>1, <3>2, <3>3, <3>4
  <2> HIDE DEF next
  <2>3. h = AfterFastscan(sl, identity, req)
    BY <2>1 DEF Handled, Fastscan
  <2>4. CASE ~AnswersFastscan(sl, identity, req)
    BY <1>4, <2>3, <2>4 DEF AfterFastscan, Probe, Confirm
  <2>5. CASE AnswersFastscan(sl, identity, req)
    <3>1. Scannable(sl) /\ sl.fsSub = m.sub
      BY <1>1, <2>1, <2>5 DEF AnswersFastscan, FastscanInit, Fastscan, InSub
    <3>2. \A b \in Bit : m.id[m.sub][b] = identity[m.sub][b]
      BY <1>1, <2>1, <2>5 DEF AnswersFastscan, FastscanInit, Fastscan, MatchesFrom, Bit
    <3>3. identity[m.sub] = m.id[m.sub]
      BY <1>1, <3>2 DEF LssAddress, Word
    <3>4. h = IF m.sub >= LastSub THEN [sl EXCEPT !.state = "Configuration"]
              ELSE [sl EXCEPT !.fsSub = next]
      BY <1>1, <2>1, <2>2, <2>3, <2>5
         DEF AfterFastscan, ConfirmsSub, FastscanInit, Fastscan, Sub
    <3>5. m.sub < LastSub => next \in Sub /\ next = m.sub + 1
      BY <1>1, <2>2 DEF Sub
    <3>6. CASE m.sub = LastSub
      BY <1>4, <3>1, <3>3, <3>4, <3>6, LssAssumption DEF Slave
    <3>7. CASE m.sub < LastSub
      <4>1. h = [sl EXCEPT !.fsSub = next]
        BY <1>1, <3>4, <3>7 DEF Sub
      <4>2. next \in Sub /\ next = m.sub + 1
        BY <3>5, <3>7
      <4> HIDE DEF h
      <4>3. /\ h \in Slave /\ h.nodeId = sl.nodeId /\ h.pending = sl.pending
            /\ h.selective = sl.selective /\ h.fsSub = m.sub + 1 /\ h.state = sl.state
        BY <4>1, <4>2 DEF Slave
      <4>4. QED
        BY <1>4, <3>1, <3>3, <4>3 DEF h
    <3>8. QED
      BY <1>1, <3>6, <3>7 DEF Sub
  <2>6. QED
    BY <2>4, <2>5
<1>5. QED
  BY <1>1, <1>2, <1>3, <1>4 DEF Probe, Confirm, Bit

-----------------------------------------------------------------------------
(* The inductive invariant                                                 *)

Typed ==
    /\ address \in [Slaves -> LssAddress]
    /\ \A s, t \in Slaves : address[s] = address[t] => s = t
    /\ slave \in [Slaves -> Slave]
    /\ master \in Master
    /\ part \in Sub
    /\ nextId \in Nat
    /\ phase = "select" => target \in Slaves

\* The frame on the bus is the one its phase sends.
OnTheBus ==
    /\ toHear \subseteq Slaves
    /\ \/ request = NoReply /\ toHear = {}
       \/ phase = "scan" /\ ~IsComplete(master) /\ request = NextRequest(master)
       \/ phase = "select" /\ request = SwitchSelective(part, address[target])
       \/ /\ phase \in {"inquire", "store"}
          /\ request.cs \in {"Inquire", "InquireNodeId", "StoreConfiguration"}
       \/ phase = "configure" /\ request = ConfigureNodeId(nextId)
       \/ phase = "release" /\ request = SwitchGlobal(FALSE)
       \/ phase = "reset" /\ request = NmtReset

Released(s) == slave[s].state = "Waiting" /\ slave[s].selective = 0

\* A node in a scan has counted values that are both its own and the scan's.
Follows(s) ==
    \/ slave[s].fsSub = 0
    \/ /\ master.bit # Probe
       /\ slave[s].fsSub <= IF master.bit = Confirm THEN master.sub + 1 ELSE master.sub
       /\ \A k \in Sub : k < slave[s].fsSub => address[s][k] = master.id[k]

InScan(s) ==
    /\ Configuring(slave[s]) =>
          address[s] = master.id /\ master.bit = Confirm /\ master.sub = LastSub
    /\ Scannable(slave[s]) =>
          \/ master.bit = Probe /\ (request = NoReply \/ s \in toHear)
          \/ Follows(s)

InSelect(s) ==
    /\ s = target => slave[s].nodeId = Unconfigured
    /\ Configuring(slave[s]) => s = target
    /\ \A k \in Sub : k < slave[s].selective => address[s][k] = address[target][k]

Selection(s) ==
    /\ phase \in {"start", "reset"} => Released(s)
    /\ phase = "release" /\ request # NoReply => s \in toHear \/ Released(s)
    /\ phase = "scan" => InScan(s)
    /\ phase = "select" => InSelect(s)
    /\ Configuring(slave[s]) => slave[s].nodeId = Unconfigured

\* The node-id given next is free, but for the node that is being given it.
Given(s) ==
    /\ slave[s].nodeId \in {Unconfigured, slave[s].pending}
    /\ slave[s].pending # Unconfigured => slave[s].pending <= nextId
    /\ slave[s].pending = nextId /\ nextId # Unconfigured =>
          \/ phase = "failed"
          \/ phase = "configure" /\ request # NoReply /\ Configuring(slave[s])

OnlyOne == \A s, t \in Slaves : Configuring(slave[s]) /\ Configuring(slave[t]) => s = t

DistinctIds ==
    \A s, t \in Slaves :
        slave[s].pending = slave[t].pending /\ slave[s].pending # Unconfigured => s = t

Inv ==
    /\ Typed
    /\ OnTheBus
    /\ \A s \in Slaves : Selection(s) /\ Given(s)
    /\ OnlyOne
    /\ DistinctIds

-----------------------------------------------------------------------------
(* One node receives the frame on the bus                                  *)

Receives(s) ==
    /\ s \in toHear
    /\ toHear' = toHear \ {s}
    /\ slave' = [slave EXCEPT ![s] = IF request = NmtReset THEN ApplyNodeId(slave[s])
                                     ELSE Handled(slave[s], address[s], request)]
    /\ UNCHANGED <<address, driverVars, request>>

\* The other nodes are as they were: what is left is the node itself, and
\* that it selects itself, or takes a node-id, as no other does.
LEMMA OtherNodes ==
    ASSUME Inv, NEW s \in Slaves, Receives(s), slave'[s] \in Slave,
           (Selection(s) /\ Given(s))',
           Configuring(slave'[s]) => \A t \in Slaves \ {s} : ~Configuring(slave[t]),
           slave'[s].pending # Unconfigured =>
               \A t \in Slaves \ {s} : slave[t].pending # slave'[s].pending
    PROVE  Inv'
<1>1. /\ s \in toHear /\ toHear' = toHear \ {s} /\ request' = request
      /\ address' = address /\ master' = master /\ phase' = phase /\ target' = target
      /\ part' = part /\ nextId' = nextId
  BY DEF Receives, driverVars
<1>2. slave \in [Slaves -> Slave]
  BY DEF Inv, Typed
<1>3. \A t \in Slaves \ {s} : slave'[t] = slave[t]
  BY <1>2 DEF Receives
<1>4. slave' \in [Slaves -> Slave]
  <2>1. slave' = [t \in Slaves |-> slave'[t]]
    BY <1>2 DEF Receives
  <2>2. \A t \in Slaves : slave'[t] \in Slave
    BY <1>2, <1>3
  <2>3. QED
    BY <2>1, <2>2
<1>5. Typed'
  BY <1>1, <1>4 DEF Inv, Typed
<1>6. OnTheBus'
  BY <1>1 DEF Inv, OnTheBus
<1>7. ASSUME NEW t \in Slaves PROVE (Selection(t) /\ Given(t))'
  <2>1. CASE t = s
    BY <2>1
  <2>2. CASE t # s
    <3>1. slave'[t] = slave[t] /\ (t \in toHear' <=> t \in toHear)
      BY <1>1, <1>3, <2>2
    <3>2. Selection(t)'
      BY <1>1, <3>1 DEF Inv, Selection, Released, InScan, InSelect, Follows
    <3>3. Given(t)'
      BY <1>1, <3>1 DEF Inv, Given
    <3>4. QED
      BY <3>2, <3>3
  <2>3. QED
    BY <2>1, <2>2
<1>8. OnlyOne'
  <2> SUFFICES ASSUME NEW t \in Slaves, NEW u \in Slaves, t # u,
                      Configuring(slave'[t]), Configuring(slave'[u])
               PROVE  FALSE
    BY DEF OnlyOne
  <2>1. CASE t = s
    BY <1>3, <2>1
  <2>2. CASE u = s
    BY <1>3, <2>2
  <2>3. CASE t # s /\ u # s
    BY <1>3, <2>3 DEF Inv, OnlyOne
  <2>4. QED
    BY <2>1, <2>2, <2>3
<1>9. DistinctIds'
  <2> SUFFICES ASSUME NEW t \in Slaves, NEW u \in Slaves, t # u,
                      slave'[t].pending = slave'[u].pending,
                      slave'[t].pending # Unconfigured
               PROVE  FALSE
    BY DEF DistinctIds
  <2>1. CASE t = s
    BY <1>3, <2>1
  <2>2. CASE u = s
    BY <1>3, <2>2
  <2>3. CASE t # s /\ u # s
    BY <1>3, <2>3 DEF Inv, DistinctIds
  <2>4. QED
    BY <2>1, <2>2, <2>3
<1>10. QED
  BY <1>5, <1>6, <1>7, <1>8, <1>9 DEF Inv

\* What a node had to itself before it has after, and no other gets.
LEMMA NoNewcomer ==
    ASSUME Inv, NEW s \in Slaves
    PROVE  /\ Configuring(slave'[s]) /\ Configuring(slave[s]) =>
                  \A t \in Slaves \ {s} : ~Configuring(slave[t])
           /\ slave'[s].pending # Unconfigured /\ slave'[s].pending = slave[s].pending =>
                  \A t \in Slaves \ {s} : slave[t].pending # slave'[s].pending
BY DEF Inv, OnlyOne, DistinctIds

LEMMA ReceivesKeepsInv ==
    ASSUME Inv, NEW s \in Slaves, Receives(s)
    PROVE  Inv'
<1> DEFINE sl == slave[s]
           h  == slave'[s]
<1>1. /\ s \in toHear /\ toHear' = toHear \ {s} /\ request' = request
      /\ address' = address /\ master' = master /\ phase' = phase /\ target' = target
      /\ part' = part /\ nextId' = nextId
  BY DEF Receives, driverVars
<1>2. /\ slave \in [Slaves -> Slave] /\ sl \in Slave /\ address[s] \in LssAddress
      /\ master \in Master /\ part \in Sub /\ nextId \in Nat
  BY DEF Inv, Typed
<1>3. h = IF request = NmtReset THEN ApplyNodeId(sl) ELSE Handled(sl, address[s], request)
  BY <1>2 DEF Receives
<1>4. Selection(s) /\ Given(s)
  BY DEF Inv
<1>5. s \notin toHear'
  BY <1>1
<1>6. SUFFICES /\ h \in Slave
               /\ Selection(s)'
               /\ Given(s)'
               /\ Configuring(h) /\ ~Configuring(sl) =>
                      \A t \in Slaves \ {s} : ~Configuring(slave[t])
               /\ h.pending # Unconfigured /\ h.pending # sl.pending =>
                      \A t \in Slaves \ {s} : slave[t].pending # h.pending
  <2>1. Configuring(h) => \A t \in Slaves \ {s} : ~Configuring(slave[t])
    BY <1>6, NoNewcomer
  <2>2. h.pending # Unconfigured => \A t \in Slaves \ {s} : slave[t].pending # h.pending
    BY <1>6, NoNewcomer
  <2>3. QED
    BY <1>6, <2>1, <2>2, OtherNodes
<1>7. CASE phase = "scan" /\ ~IsComplete(master) /\ request = NextRequest(master)
  <2>1. request # NmtReset /\ request # NoReply
    BY <1>7 DEF NextRequest, Fastscan, NmtReset, NoReply
  <2>2. h = Handled(sl, address[s], NextRequest(master))
    BY <1>3, <1>7, <2>1
  <2>3. /\ h \in Slave
        /\ h.nodeId = sl.nodeId /\ h.pending = sl.pending /\ h.selective = sl.selective
        /\ ~Scannable(sl) => h = sl
        /\ Scannable(sl) =>
              \/ master.bit = Probe /\ h.fsSub = 0 /\ h.state = sl.state
              \/ master.bit # Probe /\ h = sl
              \/ /\ master.bit = Confirm /\ sl.fsSub = master.sub
                 /\ address[s][master.sub] = master.id[master.sub]
                 /\ \/ master.sub = LastSub
                    \/ h.fsSub = master.sub + 1 /\ h.state = sl.state
    BY <1>2, <1>7, <2>2, ScanRequest
  <2>4. InScan(s)
    BY <1>4, <1>7 DEF Selection
  <2>5. sl.fsSub \in Sub /\ h.fsSub \in Sub /\ master.sub \in Sub /\ LastSub \in Nat
    BY <1>2, <1>7, <2>3, LssAssumption DEF Slave, Master, IsComplete, Sub
  <2>6. ASSUME Scannable(sl), master.bit = Confirm
        PROVE  \A k \in Sub : k < sl.fsSub => address[s][k] = master.id[k]
    BY <2>4, <2>5, <2>6 DEF InScan, Follows, Probe, Confirm, Sub
  <2>7. ASSUME Scannable(sl), master.bit = Confirm, sl.fsSub = master.sub,
               address[s][master.sub] = master.id[master.sub]
        PROVE  \A k \in Sub : k < master.sub + 1 => address[s][k] = master.id[k]
    BY <2>5, <2>6, <2>7 DEF Sub
  <2>8. ASSUME Scannable(sl), master.bit = Confirm, sl.fsSub = master.sub,
               address[s][master.sub] = master.id[master.sub], master.sub = LastSub
        PROVE  address[s] = master.id
    <3>1. \A k \in Sub : address[s][k] = master.id[k]
      BY <2>5, <2>7, <2>8 DEF Sub
    <3>2. address[s] \in [Sub -> Word] /\ master.id \in [Sub -> Word]
      BY <1>2 DEF LssAddress, Master
    <3>3. QED
      BY <3>1, <3>2
  <2>9. Configuring(h) => address[s] = master.id /\ master.bit = Confirm /\ master.sub = LastSub
    <3>1. CASE ~Scannable(sl)
      BY <2>3, <2>4, <3>1 DEF InScan
    <3>2. CASE Scannable(sl)
      BY <2>3, <2>8, <3>2 DEF Scannable, Configuring
    <3>3. QED
      BY <3>1, <3>2
  <2>10. Scannable(h) => Scannable(sl)
    BY <2>3
  <2>11. Scannable(h) => Follows(s)'
    <3> SUFFICES ASSUME Scannable(h) PROVE Follows(s)'
      OBVIOUS
    <3>1. CASE master.bit = Probe
      BY <1>1, <2>3, <2>10, <3>1 DEF Follows, Probe, Confirm
    <3>2. CASE master.bit # Probe /\ h = sl
      <4>1. Follows(s)
        BY <2>4, <2>10, <3>2 DEF InScan
      <4>2. QED
        BY <1>1, <3>2, <4>1 DEF Follows
    <3>3. CASE master.bit = Confirm /\ h # sl /\ master.sub # LastSub
      <4>1. /\ sl.fsSub = master.sub /\ address[s][master.sub] = master.id[master.sub]
            /\ h.fsSub = master.sub + 1
        BY <2>3, <2>10, <3>3 DEF Probe, Confirm
      <4>2. h.fsSub <= master.sub + 1
        BY <2>5, <4>1 DEF Sub
      <4>3. \A k \in Sub : k < h.fsSub => address[s][k] = master.id[k]
        BY <2>7, <2>10, <3>3, <4>1
      <4>4. QED
        BY <1>1, <3>3, <4>2, <4>3 DEF Follows, Probe, Confirm
    <3>4. CASE master.bit = Confirm /\ master.sub = LastSub
      <4>1. h.fsSub <= master.sub
        BY <2>5, <3>4 DEF Sub
      <4>2. h.fsSub <= master.sub + 1
        BY <2>5, <4>1 DEF Sub
      <4>3. CASE h = sl
        BY <1>1, <2>4, <2>10, <3>4, <4>3 DEF InScan, Follows, Probe, Confirm
      <4>4. CASE h # sl
        <5>1. address[s] = master.id
          BY <2>3, <2>8, <2>10, <3>4, <4>4 DEF Probe, Confirm
        <5>2. QED
          BY <1>1, <3>4, <4>2, <5>1 DEF Follows, Probe, Confirm
      <4>5. QED
        BY <4>3, <4>4
    <3>5. QED
      BY <2>3, <2>10, <3>1, <3>2, <3>3, <3>4
  <2>12. InScan(s)'
    BY <1>1, <2>9, <2>11 DEF InScan
  <2>13. Configuring(h) => h.nodeId = Unconfigured
    <3>1. CASE ~Scannable(sl)
      BY <1>4, <2>3, <3>1 DEF Selection
    <3>2. CASE Scannable(sl)
      BY <2>3, <3>2 DEF Scannable
    <3>3. QED
      BY <3>1, <3>2
  <2>14. Selection(s)'
    BY <1>1, <1>7, <2>12, <2>13 DEF Selection
  <2>15. Given(s)'
    BY <1>1, <1>4, <1>7, <2>3 DEF Given
  <2>16. Configuring(h) /\ ~Configuring(sl) => \A t \in Slaves \ {s} : ~Configuring(slave[t])
    <3> SUFFICES ASSUME Configuring(h), NEW t \in Slaves \ {s}, Configuring(slave[t])
                 PROVE  FALSE
      OBVIOUS
    <3>1. address[t] = master.id
      BY <1>7 DEF Inv, Selection, InScan
    <3>2. address[s] = address[t]
      BY <2>9, <3>1
    <3>3. QED
      BY <3>2 DEF Inv, Typed
  <2>17. QED
    BY <2>3, <2>14, <2>15, <2>16
<1>8. CASE phase = "select" /\ request = SwitchSelective(part, address[target])
  <2> DEFINE value == address[target][part]
  <2>1. request # NmtReset
    BY <1>8 DEF SwitchSelective, NmtReset
  <2>2. h = Handled(sl, address[s], SwitchSelective(part, address[target]))
    BY <1>3, <1>8, <2>1
  <2>3. /\ h \in Slave
        /\ h.nodeId = sl.nodeId /\ h.pending = sl.pending
        /\ \/ h.selective = 0 /\ h.state = sl.state
           \/ /\ value = address[s][part]
              /\ (part = 0) \/ (sl.selective = part)
              /\ \/ (h.selective = part + 1) /\ (h.state = sl.state)
                 \/ (h.selective = 0) /\ (part = LastSub)
    <3>1. h = AfterSelective(sl, address[s], request)
      BY <2>2, <1>8 DEF Handled, SwitchSelective
    <3>2. request.sub = part /\ request.value = value
      BY <1>8 DEF SwitchSelective
    <3>3. SelectiveMatch(sl, address[s], request) =>
              value = address[s][part] /\ (part = 0 \/ sl.selective = part)
      BY <3>2 DEF SelectiveMatch
    <3>4. /\ 0 \in 0..LastSub
          /\ part < LastSub => part + 1 \in 0..LastSub
          /\ part < LastSub \/ part = LastSub
      BY <1>2, LssAssumption DEF Sub
    <3>5. CASE ~SelectiveMatch(sl, address[s], request)
      BY <1>2, <3>1, <3>4, <3>5 DEF AfterSelective, Slave
    <3>6. CASE SelectiveMatch(sl, address[s], request) /\ part < LastSub
      <4>1. h = [sl EXCEPT !.selective = part + 1]
        BY <3>1, <3>2, <3>6 DEF AfterSelective
      <4>2. QED
        BY <1>2, <3>3, <3>4, <3>6, <4>1 DEF Slave
    <3>7. CASE SelectiveMatch(sl, address[s], request) /\ part = LastSub
      <4>1. ~(part < LastSub)
        BY <3>7, LssAssumption
      <4>2. h = [sl EXCEPT !.selective = 0, !.state = "Configuration"]
        BY <3>1, <3>2, <3>7, <4>1 DEF AfterSelective
      <4>3. QED
        BY <1>2, <3>3, <3>4, <3>7, <4>2 DEF Slave
    <3>8. QED
      BY <3>4, <3>5, <3>6, <3>7
  <2>4. InSelect(s)
    BY <1>4, <1>8 DEF Selection
  <2>5. /\ part \in Nat /\ part <= LastSub /\ LastSub \in Nat /\ target \in Slaves
        /\ sl.selective \in Nat /\ h.selective \in Nat
    BY <1>2, <1>8, <2>3, LssAssumption DEF Slave, Sub, Inv, Typed
  <2>6. ASSUME value = address[s][part], part = 0 \/ sl.selective = part
        PROVE  \A k \in Sub : k < part + 1 => address[s][k] = address[target][k]
    <3> SUFFICES ASSUME NEW k \in Sub, k < part + 1
                 PROVE  address[s][k] = address[target][k]
      OBVIOUS
    <3>1. CASE k = part
      BY <2>6, <3>1
    <3>2. CASE k # part
      <4>1. k < part /\ part # 0
        BY <2>5, <3>2 DEF Sub
      <4>2. QED
        BY <2>4, <2>6, <4>1 DEF InSelect
    <3>3. QED
      BY <3>1, <3>2
  <2>7. ASSUME value = address[s][part], part = 0 \/ sl.selective = part, part = LastSub
        PROVE  s = target
    <3>1. \A k \in Sub : address[s][k] = address[target][k]
      BY <2>5, <2>6, <2>7 DEF Sub
    <3>2. address[s] \in [Sub -> Word] /\ address[target] \in [Sub -> Word]
      BY <2>5 DEF LssAddress, Inv, Typed
    <3>3. address[s] = address[target]
      BY <3>1, <3>2
    <3>4. QED
      BY <2>5, <3>3 DEF Inv, Typed
  <2>8. Configuring(h) => s = target
    BY <2>3, <2>4, <2>7 DEF InSelect, Configuring
  <2>9. \A k \in Sub : k < h.selective => address[s][k] = address[target][k]
    <3>1. CASE h.selective = 0
      BY <3>1 DEF Sub
    <3>2. CASE h.selective # 0
      BY <2>3, <2>6, <3>2
    <3>3. QED
      BY <3>1, <3>2
  <2>10. InSelect(s)'
    BY <1>1, <2>3, <2>4, <2>8, <2>9 DEF InSelect
  <2>11. Configuring(h) => h.nodeId = Unconfigured
    BY <2>3, <2>4, <2>8 DEF InSelect
  <2>12. Selection(s)'
    BY <1>1, <1>8, <2>10, <2>11 DEF Selection
  <2>13. Given(s)'
    BY <1>1, <1>4, <1>8, <2>3 DEF Given
  <2>14. Configuring(h) => \A t \in Slaves \ {s} : ~Configuring(slave[t])
    BY <1>8, <2>8 DEF Inv, Selection, InSelect
  <2>15. QED
    BY <2>3, <2>12, <2>13, <2>14
<1>9. CASE /\ phase \in {"inquire", "store"}
           /\ request.cs \in {"Inquire", "InquireNodeId", "StoreConfiguration"}
  <2>1. h = sl
    BY <1>3, <1>9, QuietRequests DEF NmtReset
  <2>2. Selection(s)'
    BY <1>1, <1>4, <1>9, <2>1 DEF Selection
  <2>3. Given(s)'
    BY <1>1, <1>4, <1>9, <2>1 DEF Given
  <2>4. QED
    BY <1>2, <2>1, <2>2, <2>3
<1>10. CASE phase = "configure" /\ request = ConfigureNodeId(nextId)
  <2>1. request # NmtReset /\ request # NoReply
    BY <1>10 DEF ConfigureNodeId, NmtReset, NoReply
  <2>2. /\ h \in Slave /\ h.state = sl.state /\ h.nodeId = sl.nodeId
        /\ h.pending = sl.pending \/ (h.pending = nextId /\ sl.state = "Configuration")
    BY <1>2, <1>3, <1>10, <2>1, ConfigureRequest
  <2>3. Selection(s)'
    BY <1>1, <1>4, <1>10, <2>2 DEF Selection, Configuring
  <2>4. CASE h.pending = sl.pending
    <3>1. Given(s)'
      BY <1>1, <1>4, <1>10, <2>1, <2>2, <2>4 DEF Given, Configuring
    <3>2. QED
      BY <2>2, <2>3, <2>4, <3>1 DEF Configuring
  <2>5. CASE h.pending = nextId /\ sl.state = "Configuration"
    <3>1. Configuring(sl) /\ Configuring(h)
      BY <2>2, <2>5 DEF Configuring
    <3>2. h.nodeId = Unconfigured
      BY <1>4, <2>2, <3>1 DEF Selection
    <3>3. nextId <= nextId
      BY <1>2
    <3>4. Given(s)'
      BY <1>1, <1>10, <2>1, <2>5, <3>1, <3>2, <3>3 DEF Given
    <3>5. \A t \in Slaves \ {s} : ~Configuring(slave[t])
      BY <3>1 DEF Inv, OnlyOne
    <3>6. nextId # Unconfigured => \A t \in Slaves \ {s} : slave[t].pending # nextId
      BY <1>10, <3>5 DEF Inv, Given
    <3>7. QED
      BY <2>2, <2>3, <2>5, <3>4, <3>5, <3>6
  <2>6. QED
    BY <2>2, <2>4, <2>5
<1>11. CASE phase = "release" /\ request = SwitchGlobal(FALSE)
  <2>1. request # NmtReset
    BY <1>11 DEF SwitchGlobal, NmtReset
  <2>2. /\ h \in Slave /\ h.state = "Waiting" /\ h.selective = 0
        /\ h.nodeId = sl.nodeId /\ h.pending = sl.pending
    <3>1. h = [sl EXCEPT !.selective = 0, !.state = "Waiting"]
      BY <1>3, <1>11, <2>1 DEF Handled, SwitchGlobal
    <3>2. 0 \in 0..LastSub
      BY LssAssumption
    <3>3. QED
      BY <1>2, <3>1, <3>2 DEF Slave
  <2>3. Selection(s)'
    BY <1>1, <1>11, <2>2 DEF Selection, Released, Configuring
  <2>4. Given(s)'
    BY <1>1, <1>4, <1>11, <2>2 DEF Given
  <2>5. QED
    BY <2>2, <2>3, <2>4 DEF Configuring
<1>12. CASE phase = "reset" /\ request = NmtReset
  <2>1. h = ApplyNodeId(sl)
    BY <1>3, <1>12
  <2>2. /\ h \in Slave /\ h.state = sl.state /\ h.selective = sl.selective
        /\ h.pending = sl.pending /\ h.nodeId \in {sl.nodeId, sl.pending}
    BY <1>2, <2>1 DEF ApplyNodeId, Slave
  <2>3. Released(s)
    BY <1>4, <1>12 DEF Selection
  <2>4. Selection(s)'
    BY <1>1, <1>12, <2>2, <2>3 DEF Selection, Released, Configuring
  <2>5. Given(s)'
    BY <1>1, <1>4, <1>12, <2>2 DEF Given
  <2>6. QED
    BY <2>2, <2>3, <2>4, <2>5 DEF Released, Configuring
<1>13. QED
  BY <1>1, <1>7, <1>8, <1>9, <1>10, <1>11, <1>12 DEF Inv, OnTheBus

-----------------------------------------------------------------------------
(* A step of the commissioning leaves the nodes as they are                *)

LEMMA NewMasterIsMaster == NewMaster \in Master
<1>1. ZeroWord \in Word
  BY DEF ZeroWord, Word
<1>2. Probe \in -2..(W - 1) /\ 0 \in 0..(LastSub + 1)
  BY LssAssumption DEF Probe
<1>3. QED
  BY <1>1, <1>2 DEF NewMaster, Master

LEMMA InitInv == Init => Inv
<1> SUFFICES ASSUME Init PROVE Inv
  OBVIOUS
<1>1. \A s \in Slaves : slave[s] = NewSlave(Unconfigured)
  BY DEF Init
<1>2. NewSlave(Unconfigured) \in Slave
  BY LssAssumption DEF NewSlave, Slave, Sub
<1>3. NewMaster \in Master
  BY NewMasterIsMaster
<1>4. address \in [Slaves -> LssAddress]
  BY LssCommissioningAssumption DEF Init
<1>5. slave \in [Slaves -> Slave]
  BY <1>2 DEF Init
<1>6. Typed
  BY <1>3, <1>4, <1>5, LssAssumption DEF Init, Typed, Sub
<1>7. OnTheBus
  BY DEF Init, OnTheBus
<1>8. \A s \in Slaves : Selection(s)
  BY <1>1 DEF Init, Selection, Released, NewSlave, Configuring
<1>9. \A s \in Slaves : Given(s)
  BY <1>1 DEF Init, Given, NewSlave
<1>10. OnlyOne
  BY <1>1 DEF OnlyOne, NewSlave, Configuring
<1>11. DistinctIds
  BY <1>1 DEF DistinctIds, NewSlave
<1>12. QED
  BY <1>6, <1>7, <1>8, <1>9, <1>10, <1>11 DEF Inv

\* What holds of the nodes whatever the phase.
LEMMA NodesUnchanged ==
    ASSUME Inv, slave' = slave
    PROVE  OnlyOne' /\ DistinctIds'
BY DEF Inv, OnlyOne, DistinctIds

\* A frame put on the bus is received by nobody yet.
LEMMA SendKeepsInv ==
    ASSUME Inv, NEW frame, Send(frame), UNCHANGED driverVars, OnTheBus',
           frame # NoReply
    PROVE  Inv'
<1>1. /\ slave' = slave /\ address' = address /\ toHear' = Slaves
      /\ master' = master /\ phase' = phase /\ target' = target
      /\ part' = part /\ nextId' = nextId
      /\ request = NoReply /\ request' # NoReply
  BY DEF Send, slaveVars, driverVars
<1>2. Typed'
  BY <1>1 DEF Inv, Typed
<1>3. ASSUME NEW s \in Slaves PROVE Selection(s)'
  <2>1. Selection(s)
    BY DEF Inv
  <2>2. QED
    BY <1>1, <2>1 DEF Selection, Released, InScan, InSelect, Follows
<1>4. ASSUME NEW s \in Slaves PROVE Given(s)'
  <2>1. Given(s)
    BY DEF Inv
  <2>2. QED
    BY <1>1, <2>1 DEF Given
<1>5. QED
  BY <1>1, <1>2, <1>3, <1>4, NodesUnchanged DEF Inv

LEMMA SendsKeepInv ==
    ASSUME Inv,
           \/ SendScan \/ SendSelective \/ SendInquiry \/ SendConfigure
           \/ SendFixed("store", [cs |-> "StoreConfiguration"])
           \/ SendFixed("release", SwitchGlobal(FALSE))
           \/ SendFixed("reset", NmtReset)
    PROVE  Inv'
<1>1. CASE SendScan
  <2>1. NextRequest(master) # NoReply
    BY DEF NextRequest, Fastscan, NoReply
  <2>2. OnTheBus'
    BY <1>1 DEF SendScan, Send, driverVars, OnTheBus
  <2>3. QED
    BY <1>1, <2>1, <2>2, SendKeepsInv DEF SendScan
<1>2. CASE SendSelective
  <2>1. SwitchSelective(part, address[target]) # NoReply
    BY DEF SwitchSelective, NoReply
  <2>2. OnTheBus'
    BY <1>2 DEF SendSelective, Send, slaveVars, driverVars, OnTheBus
  <2>3. QED
    BY <1>2, <2>1, <2>2, SendKeepsInv DEF SendSelective
<1>3. CASE SendInquiry
  <2>1. PICK frame : /\ Send(frame)
                     /\ frame.cs \in {"Inquire", "InquireNodeId"}
                     /\ frame # NoReply
    BY <1>3 DEF SendInquiry, NoReply
  <2>2. phase' \in {"inquire", "store"} /\ UNCHANGED driverVars
    BY <1>3 DEF SendInquiry, driverVars
  <2>3. OnTheBus'
    BY <2>1, <2>2 DEF Send, OnTheBus
  <2>4. QED
    BY <2>1, <2>2, <2>3, SendKeepsInv
<1>4. CASE SendConfigure
  <2>1. ConfigureNodeId(nextId) # NoReply
    BY DEF ConfigureNodeId, NoReply
  <2>2. OnTheBus'
    BY <1>4 DEF SendConfigure, Send, driverVars, OnTheBus
  <2>3. QED
    BY <1>4, <2>1, <2>2, SendKeepsInv DEF SendConfigure
<1>5. CASE SendFixed("store", [cs |-> "StoreConfiguration"])
  <2>1. [cs |-> "StoreConfiguration"] # NoReply
    BY DEF NoReply
  <2>2. OnTheBus'
    BY <1>5 DEF SendFixed, Send, driverVars, OnTheBus
  <2>3. QED
    BY <1>5, <2>1, <2>2, SendKeepsInv DEF SendFixed
<1>6. CASE SendFixed("release", SwitchGlobal(FALSE))
  <2>1. SwitchGlobal(FALSE) # NoReply
    BY DEF SwitchGlobal, NoReply
  <2>2. OnTheBus'
    BY <1>6 DEF SendFixed, Send, driverVars, OnTheBus
  <2>3. QED
    BY <1>6, <2>1, <2>2, SendKeepsInv DEF SendFixed
<1>7. CASE SendFixed("reset", NmtReset)
  <2>1. NmtReset # NoReply
    BY DEF NmtReset, NoReply
  <2>2. OnTheBus'
    BY <1>7 DEF SendFixed, Send, driverVars, OnTheBus
  <2>3. QED
    BY <1>7, <2>1, <2>2, SendKeepsInv DEF SendFixed
<1>8. QED
  BY <1>1, <1>2, <1>3, <1>4, <1>5, <1>6, <1>7

\* With the bus quiet before and after, it is left to show that the nodes fit
\* the phase that follows.
LEMMA QuietKeepsInv ==
    ASSUME Inv, slave' = slave, address' = address, request' = NoReply, toHear' = {},
           master' \in Master, part' \in Sub, nextId' \in Nat,
           phase' = "select" => target' \in Slaves,
           \A s \in Slaves : (Selection(s) /\ Given(s))'
    PROVE  Inv'
<1>1. Typed'
  BY DEF Inv, Typed
<1>2. OnTheBus'
  BY DEF OnTheBus
<1>3. QED
  BY <1>1, <1>2, NodesUnchanged DEF Inv

LEMMA StartScanKeepsInv == Inv /\ StartScan => Inv'
<1> SUFFICES ASSUME Inv, StartScan PROVE Inv'
  OBVIOUS
<1>1. /\ slave' = slave /\ address' = address /\ request' = request /\ toHear' = toHear
      /\ master' = NewMaster /\ phase = "start" /\ phase' = "scan"
      /\ target' = target /\ part' = part /\ nextId' = nextId
  BY DEF StartScan, slaveVars, busVars
<1>2. request = NoReply /\ toHear = {}
  BY <1>1 DEF Inv, OnTheBus
<1>3. master' \in Master /\ master'.bit = Probe
  BY <1>1, NewMasterIsMaster DEF NewMaster
<1>4. ASSUME NEW s \in Slaves PROVE (Selection(s) /\ Given(s))'
  <2>1. Released(s) /\ Given(s)
    BY <1>1 DEF Inv, Selection
  <2>2. Selection(s)'
    BY <1>1, <1>2, <1>3, <2>1 DEF Selection, Released, InScan, Configuring
  <2>3. Given(s)'
    BY <1>1, <1>2, <2>1 DEF Given
  <2>4. QED
    BY <2>2, <2>3
<1>5. part' \in Sub /\ nextId' \in Nat
  BY <1>1 DEF Inv, Typed
<1>6. QED
  BY <1>1, <1>2, <1>3, <1>4, <1>5, QuietKeepsInv

LEMMA StartSelectKeepsInv == Inv /\ StartSelect => Inv'
<1> SUFFICES ASSUME Inv, StartSelect PROVE Inv'
  OBVIOUS
<1>1. /\ slave' = slave /\ address' = address /\ request' = request /\ toHear' = toHear
      /\ master' = NewMaster /\ phase = "start" /\ phase' = "select"
      /\ part' = 0 /\ nextId' = nextId
      /\ target' \in Slaves /\ slave[target'].nodeId = Unconfigured
  BY LssCommissioningAssumption DEF StartSelect, slaveVars, busVars
<1>2. request = NoReply /\ toHear = {}
  BY <1>1 DEF Inv, OnTheBus
<1>3. master' \in Master
  BY <1>1, NewMasterIsMaster
<1>4. ASSUME NEW s \in Slaves PROVE (Selection(s) /\ Given(s))'
  <2>1. Released(s) /\ Given(s)
    BY <1>1 DEF Inv, Selection
  <2>2. InSelect(s)'
    <3>1. \A k \in Sub : ~(k < 0)
      BY DEF Sub
    <3>2. QED
      BY <1>1, <2>1, <3>1 DEF Released, InSelect, Configuring
  <2>3. Selection(s)'
    BY <1>1, <1>2, <2>1, <2>2 DEF Selection, Released, Configuring
  <2>4. Given(s)'
    BY <1>1, <1>2, <2>1 DEF Given
  <2>5. QED
    BY <2>3, <2>4
<1>5. part' \in Sub /\ nextId' \in Nat
  BY <1>1, LssAssumption DEF Inv, Typed, Sub
<1>6. QED
  BY <1>1, <1>2, <1>3, <1>4, <1>5, QuietKeepsInv

\* The value being scanned changes at its open bit only, the values before it
\* not at all.
LEMMA ResponseKeepsType ==
    ASSUME NEW m \in Master, ~IsComplete(m), NEW responded \in BOOLEAN,
           NEW n, n = OnResponse(m, responded)
    PROVE  /\ n \in Master
           /\ \/ m.bit = Probe /\ n.sub = m.sub /\ n.bit # Probe
              \/ m.bit = Probe /\ n.sub = LastSub + 1
              \/ m.bit = Confirm /\ n.sub = m.sub + 1 /\ n.bit \in Bit /\ n.id = m.id
              \/ /\ m.bit \in Bit /\ n.sub = m.sub /\ n.bit # Probe
                 /\ \A k \in Sub : k < m.sub => n.id[k] = m.id[k]
<1>1. /\ m.sub \in Sub /\ m.bit \in -2..(W - 1) /\ m.id \in [Sub -> Word]
      /\ LastSub \in Nat /\ W \in Nat \ {0} /\ m.sub \in Int
  BY LssAssumption DEF Master, IsComplete, Sub
<1>2. CASE m.bit = Probe
  <2>1. n = IF responded THEN [m EXCEPT !.found = TRUE, !.bit = W - 1]
            ELSE [m EXCEPT !.sub = LastSub + 1]
    BY <1>2 DEF OnResponse, Probe, Confirm
  <2>2. W - 1 \in -2..(W - 1) /\ W - 1 # Probe /\ LastSub + 1 \in 0..(LastSub + 1)
    BY <1>1 DEF Probe
  <2>3. n \in Master
    BY <1>1, <2>1, <2>2 DEF Master
  <2>4. (n.sub = m.sub /\ n.bit # Probe) \/ n.sub = LastSub + 1
    BY <1>1, <2>1, <2>2 DEF Master
  <2>5. QED
    BY <1>2, <2>3, <2>4
<1>3. CASE m.bit = Confirm
  <2>1. n = [m EXCEPT !.sub = m.sub + 1, !.bit = W - 1]
    BY <1>3 DEF OnResponse, Probe, Confirm
  <2>2. W - 1 \in -2..(W - 1) /\ W - 1 \in Bit /\ m.sub + 1 \in 0..(LastSub + 1)
    BY <1>1 DEF Bit, Sub
  <2>3. n \in Master
    BY <1>1, <2>1, <2>2 DEF Master
  <2>4. n.sub = m.sub + 1 /\ n.bit \in Bit /\ n.id = m.id
    BY <1>1, <2>1, <2>2 DEF Master
  <2>5. QED
    BY <1>3, <2>3, <2>4
<1>4. CASE m.bit \in Bit
  <2> DEFINE id == EnterBit(m, responded)
  <2>1. n = [m EXCEPT !.id = id, !.bit = m.bit - 1]
    BY <1>4 DEF OnResponse, Probe, Confirm, Bit
  <2>2. id \in [Sub -> Word] /\ \A k \in Sub : k < m.sub => id[k] = m.id[k]
    <3>1. CASE responded
      BY <1>1, <3>1 DEF EnterBit
    <3>2. CASE ~responded
      <4> DEFINE word == [m.id[m.sub] EXCEPT ![m.bit] = 1]
      <4>1. word \in Word
        BY <1>1, <1>4 DEF Word
      <4>2. id = [m.id EXCEPT ![m.sub] = word]
        BY <3>2 DEF EnterBit
      <4> HIDE DEF word, id
      <4>3. id \in [Sub -> Word]
        BY <1>1, <4>1, <4>2
      <4>4. ASSUME NEW k \in Sub, k < m.sub PROVE id[k] = m.id[k]
        <5>1. k # m.sub
          BY <1>1, <4>4 DEF Sub
        <5>2. QED
          BY <1>1, <4>2, <5>1
      <4>5. QED
        BY <4>3, <4>4
    <3>3. QED
      BY <3>1, <3>2
  <2> HIDE DEF id
  <2>3. m.bit - 1 \in -2..(W - 1) /\ m.bit - 1 # Probe
    BY <1>1, <1>4 DEF Bit, Probe
  <2>4. n \in Master
    BY <1>1, <2>1, <2>2, <2>3 DEF Master
  <2>5. n.sub = m.sub /\ n.bit = m.bit - 1 /\ n.id = id
    BY <1>1, <2>1, <2>2, <2>3 DEF Master
  <2>6. QED
    BY <1>4, <2>2, <2>3, <2>4, <2>5
<1>5. QED
  BY <1>1, <1>2, <1>3, <1>4 DEF Probe, Confirm, Bit

LEMMA ScanAnsweredKeepsInv == Inv /\ ScanAnswered => Inv'
<1> SUFFICES ASSUME Inv, ScanAnswered PROVE Inv'
  OBVIOUS
<1> DEFINE responded == IdentifySlave \in heard
<1>1. /\ slave' = slave /\ address' = address /\ toHear' = toHear
      /\ phase = "scan" /\ request # NoReply /\ toHear = {} /\ request' = NoReply
      /\ target' = target /\ part' = part /\ nextId' = nextId
  BY DEF ScanAnswered, Answered, slaveVars
<1>2. master' = OnResponse(master, responded)
  BY DEF ScanAnswered
<1>3. /\ phase' \in {"scan", "inquire", "done"}
      /\ phase' = "scan" => ~IsComplete(master')
  BY DEF ScanAnswered
<1>4. ~IsComplete(master) /\ master \in Master
  BY <1>1 DEF Inv, Typed, OnTheBus
<1>5. responded \in BOOLEAN
  OBVIOUS
<1> HIDE DEF responded
<1>6. /\ master' \in Master
      /\ \/ master.bit = Probe /\ master'.sub = master.sub /\ master'.bit # Probe
         \/ master.bit = Probe /\ master'.sub = LastSub + 1
         \/ /\ master.bit = Confirm /\ master'.sub = master.sub + 1
            /\ master'.bit \in Bit /\ master'.id = master.id
         \/ /\ master.bit \in Bit /\ master'.sub = master.sub /\ master'.bit # Probe
            /\ \A k \in Sub : k < master.sub => master'.id[k] = master.id[k]
  BY <1>2, <1>4, <1>5, ResponseKeepsType
<1>7. /\ master.sub \in Int /\ master'.sub \in Int /\ LastSub \in Int
      /\ \A s \in Slaves : slave[s].fsSub \in Int
  BY <1>4, <1>6, LssAssumption DEF Master, Inv, Typed, Slave, Sub
<1>8. ASSUME NEW s \in Slaves, phase' = "scan" PROVE InScan(s)'
  <2>1. InScan(s)
    BY <1>1 DEF Inv, Selection
  <2>2. ~(master'.sub > LastSub)
    BY <1>3, <1>8 DEF IsComplete
  <2>3. ~Configuring(slave[s])
    <3> SUFFICES ASSUME Configuring(slave[s]) PROVE FALSE
      OBVIOUS
    <3>1. master.bit = Confirm /\ master.sub = LastSub
      BY <2>1 DEF InScan
    <3>2. master'.sub = LastSub + 1
      BY <1>6, <3>1 DEF Probe, Confirm, Bit
    <3>3. QED
      BY <1>7, <2>2, <3>2
  <2>4. Scannable(slave[s]) => Follows(s)
    BY <1>1, <2>1 DEF InScan
  <2>5. Follows(s) => Follows(s)'
    <3> SUFFICES ASSUME Follows(s), slave[s].fsSub # 0 PROVE Follows(s)'
      BY <1>1 DEF Follows
    <3>1. /\ master.bit # Probe
          /\ slave[s].fsSub <= IF master.bit = Confirm THEN master.sub + 1 ELSE master.sub
          /\ \A k \in Sub : k < slave[s].fsSub => address[s][k] = master.id[k]
      BY DEF Follows
    <3>2. CASE /\ master.bit = Confirm /\ master'.sub = master.sub + 1
               /\ master'.bit \in Bit /\ master'.id = master.id
      <4>1. master'.bit # Probe /\ master'.bit # Confirm
        BY <3>2 DEF Probe, Confirm, Bit
      <4>2. slave[s].fsSub <= master'.sub
        BY <3>1, <3>2
      <4>3. \A k \in Sub : k < slave[s].fsSub => address[s][k] = master'.id[k]
        BY <3>1, <3>2
      <4>4. QED
        BY <1>1, <4>1, <4>2, <4>3 DEF Follows
    <3>3. CASE /\ master.bit \in Bit /\ master'.sub = master.sub /\ master'.bit # Probe
               /\ \A k \in Sub : k < master.sub => master'.id[k] = master.id[k]
      <4>1. master.bit # Confirm
        BY <3>3 DEF Confirm, Bit
      <4>2. slave[s].fsSub <= master.sub
        BY <3>1, <4>1
      <4>3. slave[s].fsSub <= master'.sub /\ slave[s].fsSub <= master'.sub + 1
        BY <1>7, <3>3, <4>2
      <4>4. \A k \in Sub : k < slave[s].fsSub => address[s][k] = master'.id[k]
        <5> SUFFICES ASSUME NEW k \in Sub, k < slave[s].fsSub
                     PROVE  address[s][k] = master'.id[k]
          OBVIOUS
        <5>1. k < master.sub
          BY <1>7, <4>2 DEF Sub
        <5>2. QED
          BY <3>1, <3>3, <5>1
      <4>5. QED
        BY <1>1, <3>3, <4>3, <4>4 DEF Follows
    <3>4. QED
      BY <1>6, <3>1, <3>2, <3>3
  <2>6. QED
    BY <1>1, <2>3, <2>4, <2>5 DEF InScan
<1>9. ASSUME NEW s \in Slaves PROVE (Selection(s) /\ Given(s))'
  <2>1. Selection(s) /\ Given(s)
    BY DEF Inv
  <2>2. Selection(s)'
    BY <1>1, <1>3, <1>8, <2>1 DEF Selection
  <2>3. Given(s)'
    BY <1>1, <1>3, <2>1 DEF Given
  <2>4. QED
    BY <2>2, <2>3
<1>10. part' \in Sub /\ nextId' \in Nat
  BY <1>1 DEF Inv, Typed
<1>11. QED
  BY <1>1, <1>3, <1>6, <1>9, <1>10, QuietKeepsInv

LEMMA SelectAnsweredKeepsInv == Inv /\ SelectAnswered => Inv'
<1> SUFFICES ASSUME Inv, SelectAnswered PROVE Inv'
  OBVIOUS
<1>1. /\ slave' = slave /\ address' = address /\ toHear' = {}
      /\ phase = "select" /\ request' = NoReply
      /\ master' = master /\ target' = target /\ nextId' = nextId
  BY DEF SelectAnswered, Answered, slaveVars
<1>2. phase' \in {"select", "inquire", "failed"} /\ part' \in Sub
  <2>1. part \in Sub
    BY DEF Inv, Typed
  <2>2. part < LastSub => part + 1 \in Sub
    BY <2>1, LssAssumption DEF Sub
  <2>3. QED
    BY <1>1, <2>1, <2>2 DEF SelectAnswered
<1>3. ASSUME NEW s \in Slaves PROVE (Selection(s) /\ Given(s))'
  <2>1. Selection(s) /\ Given(s)
    BY DEF Inv
  <2>2. Selection(s)'
    BY <1>1, <1>2, <2>1 DEF Selection, InSelect
  <2>3. Given(s)'
    BY <1>1, <1>2, <2>1 DEF Given
  <2>4. QED
    BY <2>2, <2>3
<1>4. master \in Master /\ nextId \in Nat /\ target \in Slaves
  BY <1>1 DEF Inv, Typed
<1>5. QED
  BY <1>1, <1>2, <1>3, <1>4, QuietKeepsInv

LEMMA ConfigureAnsweredKeepsInv == Inv /\ ConfigureAnswered => Inv'
<1> SUFFICES ASSUME Inv, ConfigureAnswered PROVE Inv'
  OBVIOUS
<1>1. /\ slave' = slave /\ address' = address /\ toHear' = {}
      /\ phase = "configure" /\ request' = NoReply
      /\ master' = master /\ target' = target /\ part' = part
      /\ \/ phase' = "store" /\ nextId' = nextId + 1
         \/ phase' = "failed" /\ nextId' = nextId
  BY DEF ConfigureAnswered, Answered, slaveVars
<1>2. master \in Master /\ part \in Sub /\ nextId \in Nat
  BY DEF Inv, Typed
<1>3. ASSUME NEW s \in Slaves PROVE (Selection(s) /\ Given(s))'
  <2>1. Selection(s) /\ Given(s)
    BY DEF Inv
  <2>2. Selection(s)'
    BY <1>1, <2>1 DEF Selection
  <2>3. slave[s].pending # Unconfigured => slave[s].pending \in Nat
    BY LssAssumption DEF Inv, Typed, Slave, NodeId
  <2>4. Given(s)'
    <3>1. CASE phase' = "store" /\ nextId' = nextId + 1
      <4>1. slave[s].pending # Unconfigured =>
              slave[s].pending <= nextId' /\ slave[s].pending # nextId'
        BY <1>2, <2>1, <2>3, <3>1 DEF Given
      <4>2. QED
        BY <1>1, <2>1, <3>1, <4>1 DEF Given
    <3>2. CASE phase' = "failed" /\ nextId' = nextId
      BY <1>1, <2>1, <3>2 DEF Given
    <3>3. QED
      BY <1>1, <3>1, <3>2
  <2>5. QED
    BY <2>2, <2>4
<1>4. master' \in Master /\ part' \in Sub /\ nextId' \in Nat
  BY <1>1, <1>2
<1>5. QED
  BY <1>1, <1>3, <1>4, QuietKeepsInv

LEMMA FixedAnsweredKeepsInv ==
    ASSUME Inv,
           \/ FixedAnswered("inquire", "configure")
           \/ FixedAnswered("store", "release")
           \/ FixedAnswered("release", "reset")
           \/ FixedAnswered("reset", "start")
    PROVE  Inv'
<1>1. /\ slave' = slave /\ address' = address /\ toHear' = {} /\ toHear = {}
      /\ request' = NoReply /\ request # NoReply
      /\ master' = master /\ target' = target /\ part' = part /\ nextId' = nextId
  BY DEF FixedAnswered, Answered, slaveVars
<1>2. \/ phase = "inquire" /\ phase' = "configure"
      \/ phase = "store" /\ phase' = "release"
      \/ phase = "release" /\ phase' = "reset"
      \/ phase = "reset" /\ phase' = "start"
  BY DEF FixedAnswered, Answered
<1>3. ASSUME NEW s \in Slaves PROVE (Selection(s) /\ Given(s))'
  <2>1. Selection(s) /\ Given(s)
    BY DEF Inv
  <2>2. Selection(s)'
    BY <1>1, <1>2, <2>1 DEF Selection, Released
  <2>3. Given(s)'
    BY <1>1, <1>2, <2>1 DEF Given
  <2>4. QED
    BY <2>2, <2>3
<1>4. master' \in Master /\ part' \in Sub /\ nextId' \in Nat
  BY <1>1 DEF Inv, Typed
<1>5. QED
  BY <1>1, <1>2, <1>3, <1>4, QuietKeepsInv

-----------------------------------------------------------------------------
(* The theorems                                                            *)

LEMMA StepKeepsInv == Inv /\ [LossyNext]_vars => Inv'
<1> SUFFICES ASSUME Inv, [LossyNext]_vars PROVE Inv'
  OBVIOUS
<1>1. CASE Driver
  BY <1>1, StartScanKeepsInv, StartSelectKeepsInv, SendsKeepInv, ScanAnsweredKeepsInv,
     SelectAnsweredKeepsInv, ConfigureAnsweredKeepsInv, FixedAnsweredKeepsInv DEF Driver
<1>2. ASSUME NEW s \in Slaves, Hear(s) PROVE Inv'
  <2>1. Receives(s)
    BY <1>2 DEF Hear, Receives
  <2>2. QED
    BY <2>1, ReceivesKeepsInv
<1>3. ASSUME NEW s \in Slaves, LoseReply(s) PROVE Inv'
  <2>1. Receives(s)
    BY <1>3 DEF LoseReply, Receives
  <2>2. QED
    BY <2>1, ReceivesKeepsInv
<1>4. CASE UNCHANGED vars
  <2>1. /\ address' = address /\ slave' = slave /\ master' = master /\ phase' = phase
        /\ target' = target /\ part' = part /\ nextId' = nextId
        /\ request' = request /\ toHear' = toHear
    BY <1>4 DEF vars, slaveVars, driverVars, busVars
  <2>2. Typed' /\ OnTheBus'
    BY <2>1 DEF Inv, Typed, OnTheBus
  <2>3. \A s \in Slaves : (Selection(s) /\ Given(s))'
    BY <2>1 DEF Inv, Selection, Released, InScan, InSelect, Follows, Given
  <2>4. QED
    BY <2>1, <2>2, <2>3, NodesUnchanged DEF Inv
<1>5. QED
  BY <1>1, <1>2, <1>3, <1>4 DEF LossyNext, Next, Terminated

LEMMA LossyInv == LossySpec => []Inv
BY InitInv, StepKeepsInv, PTL DEF LossySpec

\* Commissioning never has two nodes in the configuration state, whatever
\* replies are lost: a node-id is configured in one node only
\* (LssSlave::handle against FastscanMaster and encode_switch_selective).
THEOREM OneNodeAtATime == LossySpec => []OneSelected
<1>1. Inv => OneSelected
  <2> SUFFICES ASSUME Inv PROVE Cardinality(Selected) <= 1
    BY DEF OneSelected
  <2>1. CASE Selected = {}
    BY <2>1, FS_EmptySet
  <2>2. CASE Selected # {}
    <3>1. PICK s \in Selected : TRUE
      BY <2>2
    <3>2. Selected = {s}
      BY <3>1 DEF Selected, Inv, OnlyOne, Configuring
    <3>3. QED
      BY <3>2, FS_Singleton
  <2>3. QED
    BY <2>1, <2>2
<1>2. QED
  BY <1>1, LossyInv, PTL

\* No two nodes ever work under one node-id, whatever replies are lost: what
\* LssSlave keeps pending is its own alone, and Node::apply_lss_node_id adopts
\* nothing else.
THEOREM NodeIdsAreUnique == LossySpec => []UniqueNodeIds
<1>1. Inv => UniqueNodeIds
  BY DEF Inv, UniqueNodeIds, Given, DistinctIds
<1>2. QED
  BY <1>1, LossyInv, PTL

\* Without loss there are fewer behaviours.
THEOREM AlsoWithoutLoss == Spec => [](OneSelected /\ UniqueNodeIds)
<1>1. Spec => LossySpec
  <2>1. [Next]_vars => [LossyNext]_vars
    BY DEF LossyNext
  <2>2. QED
    BY <2>1, PTL DEF Spec, LossySpec
<1>2. QED
  BY <1>1, OneNodeAtATime, NodeIdsAreUnique, PTL

-----------------------------------------------------------------------------
(* No reply is lost: a selection that ends has selected a node             *)

\* All that the scan knows so far is true of the node.
Matches(s) ==
    /\ slave[s].nodeId = Unconfigured
    /\ \A k \in Sub : k < master.sub => address[s][k] = master.id[k]
    /\ \A b \in Bit : b > master.bit => address[s][master.sub][b] = master.id[master.sub][b]

\* The node is at the value being scanned, or, having heard it confirmed, past it.
Waits(s) == Scannable(slave[s]) /\ slave[s].fsSub = master.sub
Stepped(s) ==
    IF master.sub = LastSub THEN Configuring(slave[s])
    ELSE Scannable(slave[s]) /\ slave[s].fsSub = master.sub + 1
Candidate(s) ==
    /\ Matches(s)
    /\ IF master.bit = Confirm /\ request # NoReply /\ s \notin toHear
       THEN Stepped(s) ELSE Waits(s)

\* The node answers the request for the bit being scanned.
Agrees(s) == Matches(s) /\ Waits(s) /\ address[s][master.sub][master.bit] = 0

\* The bits still to be scanned are zero, and some node has all the others; it
\* and no other kind of node answers.
ScanFinds ==
    /\ ~IsComplete(master)
    /\ master.bit = Probe => master = NewMaster
    /\ master.bit # Probe =>
          /\ master.found
          /\ \A b \in Bit : b <= master.bit => master.id[master.sub][b] = 0
          /\ \A k \in Sub : k > master.sub => master.id[k] = ZeroWord
          /\ \E s \in Slaves : Candidate(s)
    /\ master.bit = Probe /\ IdentifySlave \in heard =>
          \E s \in Slaves \ toHear : Scannable(slave[s]) /\ slave[s].fsSub = 0
    /\ master.bit \in Bit /\ IdentifySlave \in heard => \E s \in Slaves : Agrees(s)
    /\ master.bit \in Bit /\ request # NoReply =>
          \A s \in Slaves \ toHear : Agrees(s) => IdentifySlave \in heard

SelectFinds ==
    /\ ~master.found
    /\ heard # {} => \E s \in Slaves : Configuring(slave[s])

HasFound ==
    \E s \in Slaves :
        /\ Configuring(slave[s])
        /\ address[s] = IF master.found THEN master.id ELSE address[target]

FindInv ==
    /\ request = NoReply => heard = {}
    /\ phase = "scan" => ScanFinds
    /\ phase = "select" => SelectFinds
    /\ phase = "inquire" => HasFound
-----------------------------------------------------------------------------
(* Who answers a scan's requests                                           *)

\* A request for one bit is answered by the nodes that wait for it, have the bits
\* above, and have a zero there.
LEMMA BitAnswer ==
    ASSUME NEW sl, NEW identity, NEW m \in Master, ~IsComplete(m),
           m.bit \in Bit, m.id[m.sub][m.bit] = 0
    PROVE  /\ Reply(sl, identity, NextRequest(m)) \in {IdentifySlave, NoReply}
           /\ Reply(sl, identity, NextRequest(m)) = IdentifySlave <=>
                 /\ Scannable(sl) /\ sl.fsSub = m.sub /\ identity[m.sub][m.bit] = 0
                 /\ \A b \in Bit : b > m.bit => identity[m.sub][b] = m.id[m.sub][b]
<1> DEFINE req == NextRequest(m)
           id == m.id[m.sub]
           own == identity[m.sub]
<1>1. W \in Nat \ {0} /\ m.bit \in Nat /\ m.bit < W
  BY LssAssumption DEF Bit
<1>2. req = Fastscan(id, m.bit, m.sub, m.sub)
  BY <1>1 DEF NextRequest, Probe, Confirm
<1>3. /\ req.cs = "Fastscan" /\ req.id = id /\ req.bitCheck = m.bit
      /\ req.sub = m.sub /\ req.next = m.sub
  BY <1>2 DEF Fastscan
<1> HIDE DEF req, id, own
<1>4. AnswersFastscan(sl, identity, req) <=>
         Scannable(sl) /\ sl.fsSub = m.sub /\ \A b \in Bit : b >= m.bit => id[b] = own[b]
  BY <1>1, <1>3 DEF AnswersFastscan, FastscanInit, InSub, MatchesFrom, own
<1>5. (\A b \in Bit : b >= m.bit => id[b] = own[b]) <=>
         own[m.bit] = 0 /\ \A b \in Bit : b > m.bit => own[b] = id[b]
  <2>1. \A b \in Bit : b >= m.bit <=> b > m.bit \/ b = m.bit
    BY <1>1 DEF Bit
  <2>2. id[m.bit] = 0 /\ m.bit \in Bit
    BY DEF id
  <2>3. QED
    BY <2>1, <2>2, Zenon
<1>6. Reply(sl, identity, req) = IF AnswersFastscan(sl, identity, req)
                                 THEN IdentifySlave ELSE NoReply
  BY <1>3 DEF Reply
<1>7. IdentifySlave # NoReply
  BY DEF IdentifySlave, NoReply
<1>8. QED
  BY <1>4, <1>5, <1>6, <1>7, Zenon DEF req, id, own

\* A node that answers the first request goes to the first value.
LEMMA ProbeAnswer ==
    ASSUME NEW sl \in Slave, NEW identity, NEW m, m.bit = Probe
    PROVE  /\ Reply(sl, identity, NextRequest(m)) \in {IdentifySlave, NoReply}
           /\ Reply(sl, identity, NextRequest(m)) = IdentifySlave =>
                 /\ Scannable(Handled(sl, identity, NextRequest(m)))
                 /\ Handled(sl, identity, NextRequest(m)).fsSub = 0
<1> DEFINE req == NextRequest(m)
<1>1. req = Fastscan(ZeroWord, W, 0, 0) /\ W \in Nat
  BY LssAssumption DEF NextRequest, FastscanInit, Probe, Confirm
<1>2. req.cs = "Fastscan" /\ req.bitCheck = W
  BY <1>1 DEF Fastscan
<1> HIDE DEF req
<1>3. Reply(sl, identity, req) = IF Scannable(sl) THEN IdentifySlave ELSE NoReply
  BY <1>1, <1>2 DEF Reply, AnswersFastscan, FastscanInit
<1>4. Scannable(sl) => Handled(sl, identity, req) = [sl EXCEPT !.fsSub = 0]
  BY <1>1, <1>2 DEF Handled, AfterFastscan, AnswersFastscan, FastscanInit
<1>5. ~(IdentifySlave = NoReply)
  BY DEF IdentifySlave, NoReply
<1>6. Scannable(sl) =>
         Scannable([sl EXCEPT !.fsSub = 0]) /\ [sl EXCEPT !.fsSub = 0].fsSub = 0
  BY DEF Scannable, Slave
<1>7. QED
  BY <1>3, <1>4, <1>5, <1>6, Zenon DEF req

\* A node whose value is confirmed takes its step.
LEMMA ConfirmStep ==
    ASSUME NEW sl \in Slave, NEW identity, NEW m \in Master, ~IsComplete(m),
           m.bit = Confirm, Scannable(sl), sl.fsSub = m.sub, identity[m.sub] = m.id[m.sub],
           NEW h, h = Handled(sl, identity, NextRequest(m))
    PROVE  IF m.sub = LastSub THEN Configuring(h)
           ELSE Scannable(h) /\ h.fsSub = m.sub + 1
<1> DEFINE req == NextRequest(m)
           next == (m.sub + 1) % (LastSub + 1)
<1>1. /\ m.sub \in Nat /\ m.sub <= LastSub /\ W \in Nat \ {0} /\ LastSub \in Nat \ {0}
  BY LssAssumption DEF Master, IsComplete
<1>2. next = IF m.sub = LastSub THEN 0 ELSE m.sub + 1
  <2>1. PICK k \in Nat : k = m.sub
    BY <1>1
  <2>2. k = LastSub => (k + 1) % (LastSub + 1) = 0
    BY <1>1
  <2>3. k < LastSub => (k + 1) % (LastSub + 1) = k + 1
    BY <1>1
  <2>4. k = LastSub \/ k < LastSub
    BY <1>1, <2>1
  <2>5. QED
    BY <1>1, <2>1, <2>2, <2>3, <2>4
<1>3. req = Fastscan(m.id[m.sub], 0, m.sub, next)
  BY DEF NextRequest, Probe, Confirm
<1>4. /\ req.cs = "Fastscan" /\ req.id = identity[m.sub] /\ req.bitCheck = 0
      /\ req.sub = m.sub /\ req.next = next
  BY <1>3 DEF Fastscan
<1> HIDE DEF req, next
<1>5. AnswersFastscan(sl, identity, req)
  BY <1>1, <1>4 DEF AnswersFastscan, FastscanInit, InSub, MatchesFrom
<1>6. next # m.sub /\ ~(0 >= W)
  BY <1>1, <1>2
<1>7. h = IF m.sub >= LastSub THEN [sl EXCEPT !.state = "Configuration"]
          ELSE [sl EXCEPT !.fsSub = next]
  BY <1>4, <1>5, <1>6 DEF Handled, AfterFastscan, ConfirmsSub, FastscanInit, req
<1>8. CASE m.sub = LastSub
  BY <1>1, <1>7, <1>8 DEF Configuring, Slave
<1>9. CASE m.sub # LastSub
  <2>1. h = [sl EXCEPT !.fsSub = m.sub + 1]
    BY <1>1, <1>2, <1>7, <1>9
  <2>2. QED
    BY <1>9, <2>1 DEF Scannable, Slave
<1>10. QED
  BY <1>8, <1>9

-----------------------------------------------------------------------------
(* Each step keeps the node that is being found                            *)

LEMMA HearScan ==
    ASSUME Inv, FindInv, NEW s \in Slaves, Hear(s), phase = "scan"
    PROVE  ScanFinds'
<1> DEFINE sl == slave[s]
           h  == slave'[s]
           reply == Reply(sl, address[s], NextRequest(master))
<1>1. /\ s \in toHear /\ toHear' = toHear \ {s} /\ request' = request
      /\ address' = address /\ master' = master
  BY DEF Hear, driverVars
<1>2. ~IsComplete(master) /\ request = NextRequest(master) /\ request # NmtReset /\ request # NoReply
  <2>1. ~IsComplete(master) /\ request = NextRequest(master)
    BY <1>1 DEF Inv, OnTheBus
  <2>2. NextRequest(master) # NmtReset /\ NextRequest(master) # NoReply
    BY DEF NextRequest, Fastscan, NmtReset, NoReply
  <2>3. QED
    BY <2>1, <2>2
<1>3. /\ slave \in [Slaves -> Slave] /\ sl \in Slave /\ address[s] \in LssAddress
      /\ master \in Master
  BY DEF Inv, Typed
<1>4. /\ h = Handled(sl, address[s], NextRequest(master))
      /\ \A t \in Slaves : t # s => slave'[t] = slave[t]
      /\ heard' = heard \cup ({reply} \ {NoReply})
  BY <1>2, <1>3 DEF Hear
<1>5. ScanFinds
  BY DEF FindInv
<1>6. /\ h.nodeId = sl.nodeId
      /\ ~Scannable(sl) => h = sl
      /\ Scannable(sl) /\ master.bit \notin {Probe, Confirm} => h = sl
  BY <1>2, <1>3, <1>4, ScanRequest
<1>7. /\ master.sub \in Sub /\ W \in Nat \ {0}
      /\ master.bit = Probe \/ master.bit = Confirm \/ master.bit \in Bit
      /\ Probe \notin Bit /\ Confirm \notin Bit /\ Probe # Confirm
  BY <1>2, <1>3, LssAssumption DEF Master, IsComplete, Sub, Bit, Probe, Confirm
<1>8. \A t \in Slaves : t # s => (t \in toHear' <=> t \in toHear)
  BY <1>1
<1>9. CASE master.bit = Probe
  <2>1. ASSUME IdentifySlave \in heard'
        PROVE  \E t \in Slaves \ toHear' : Scannable(slave'[t]) /\ slave'[t].fsSub = 0
    <3>1. CASE IdentifySlave \in heard
      <4>1. PICK t \in Slaves \ toHear : Scannable(slave[t]) /\ slave[t].fsSub = 0
        BY <1>5, <1>9, <3>1, Zenon DEF ScanFinds
      <4>2. t # s /\ t \notin toHear'
        BY <1>1, <4>1
      <4>3. QED
        BY <1>4, <4>1, <4>2
    <3>2. CASE IdentifySlave \notin heard
      <4>1. reply = IdentifySlave
        BY <1>4, <2>1, <3>2
      <4>2. Scannable(h) /\ h.fsSub = 0
        BY <1>3, <1>4, <1>9, <4>1, ProbeAnswer
      <4>3. s \notin toHear'
        BY <1>1
      <4>4. QED
        BY <4>2, <4>3
    <3>3. QED
      BY <3>1, <3>2
  <2>2. QED
    BY <1>1, <1>2, <1>5, <1>7, <1>9, <2>1, Zenon DEF ScanFinds
<1>10. CASE master.bit \in Bit
  <2>1. \A t \in Slaves : slave'[t] = slave[t]
    BY <1>4, <1>6, <1>7, <1>10
  <2>2. \A t \in Slaves : (Matches(t)' <=> Matches(t)) /\ (Waits(t)' <=> Waits(t))
    BY <1>1, <2>1, Zenon DEF Matches, Waits
  <2>3. \A t \in Slaves : Agrees(t)' <=> Agrees(t)
    BY <1>1, <2>2, Zenon DEF Agrees
  <2>4. \A t \in Slaves : Candidate(t) => Candidate(t)'
    BY <1>1, <1>7, <1>10, <2>2, Zenon DEF Candidate
  <2>5. master.id[master.sub][master.bit] = 0
    <3>1. master.bit \in Nat
      BY <1>7, <1>10 DEF Bit
    <3>2. master.bit <= master.bit /\ master.bit # Probe
      BY <1>7, <1>10, <3>1
    <3>3. QED
      BY <1>5, <1>10, <3>2, Zenon DEF ScanFinds
  <2>6. reply = IdentifySlave <=> Agrees(s)
    <3>1. reply = IdentifySlave <=>
             /\ Scannable(sl) /\ sl.fsSub = master.sub /\ address[s][master.sub][master.bit] = 0
             /\ \A b \in Bit : b > master.bit => address[s][master.sub][b] = master.id[master.sub][b]
      BY <1>2, <1>3, <1>10, <2>5, BitAnswer
    <3>2. Scannable(sl) => sl.nodeId = Unconfigured
      BY DEF Scannable
    <3>3. Scannable(sl) /\ sl.fsSub = master.sub =>
             \A k \in Sub : k < master.sub => address[s][k] = master.id[k]
      <4>1. InScan(s)
        BY DEF Inv, Selection
      <4>2. \A k \in Sub : ~(k < 0)
        BY DEF Sub
      <4>3. QED
        BY <1>1, <1>7, <1>10, <4>1, <4>2 DEF InScan, Follows
    <3>4. QED
      BY <3>1, <3>2, <3>3, Zenon DEF Agrees, Matches, Waits
  <2>7. ASSUME IdentifySlave \in heard' PROVE \E t \in Slaves : Agrees(t)
    <3>1. IdentifySlave \in heard \/ reply = IdentifySlave
      BY <1>4, <2>7
    <3>2. QED
      BY <1>5, <1>10, <2>6, <3>1, Zenon DEF ScanFinds
  <2>8. ASSUME NEW t \in Slaves, t \notin toHear', Agrees(t) PROVE IdentifySlave \in heard'
    <3>1. CASE t = s
      <4>1. reply = IdentifySlave
        BY <2>6, <2>8, <3>1
      <4>2. IdentifySlave # NoReply
        BY DEF IdentifySlave, NoReply
      <4>3. QED
        BY <1>4, <4>1, <4>2
    <3>2. CASE t # s
      <4>1. t \in Slaves \ toHear
        BY <1>8, <2>8, <3>2
      <4>2. IdentifySlave \in heard
        BY <1>2, <1>5, <1>10, <2>8, <4>1, Zenon DEF ScanFinds
      <4>3. QED
        BY <1>4, <4>2
    <3>3. QED
      BY <3>1, <3>2
  <2>9. master.bit # Probe
    BY <1>7, <1>10
  <2>10. \E t \in Slaves : Candidate(t)'
    BY <1>5, <2>4, <2>9, Zenon DEF ScanFinds
  <2>11. IdentifySlave \in heard' => \E t \in Slaves : Agrees(t)'
    BY <2>3, <2>7, Zenon
  <2>12. \A t \in Slaves \ toHear' : Agrees(t)' => IdentifySlave \in heard'
    BY <2>3, <2>8
  <2>13. QED
    BY <1>1, <1>2, <1>5, <2>9, <2>10, <2>11, <2>12, Zenon DEF ScanFinds
<1>11. CASE master.bit = Confirm
  <2>1. master.bit # Probe /\ master.bit \notin Bit
    BY <1>7, <1>11
  <2>2. PICK t \in Slaves : Candidate(t)
    BY <1>5, <2>1, Zenon DEF ScanFinds
  <2>3. Matches(t) /\ slave'[t].nodeId = slave[t].nodeId
    BY <1>4, <1>6, <2>2 DEF Candidate
  <2>4. Matches(t)'
    BY <1>1, <2>3, Zenon DEF Matches
  <2>5. CASE t # s
    <3>1. slave'[t] = slave[t] /\ (t \in toHear' <=> t \in toHear)
      BY <1>4, <1>8, <2>5
    <3>2. Candidate(t)'
      BY <1>1, <2>2, <2>4, <3>1, Zenon DEF Candidate, Stepped, Waits
    <3>3. QED
      BY <1>1, <1>2, <1>5, <2>1, <3>2, Zenon DEF ScanFinds
  <2>6. CASE t = s
    <3>1. Waits(s)
      BY <1>1, <2>2, <2>6, Zenon DEF Candidate
    <3>2. address[s][master.sub] = master.id[master.sub]
      <4>1. \A b \in Bit : b > Confirm
        BY DEF Bit, Confirm
      <4>2. \A b \in Bit : address[s][master.sub][b] = master.id[master.sub][b]
        BY <1>11, <2>3, <2>6, <4>1 DEF Matches
      <4>3. address[s][master.sub] \in Word /\ master.id[master.sub] \in Word
        BY <1>3, <1>7 DEF LssAddress, Master
      <4>4. QED
        BY <4>2, <4>3 DEF Word
    <3>3. IF master.sub = LastSub THEN Configuring(h) ELSE Scannable(h) /\ h.fsSub = master.sub + 1
      <4>1. Scannable(sl) /\ sl.fsSub = master.sub
        BY <3>1, Zenon DEF Waits
      <4> HIDE DEF h
      <4>2. QED
        BY <1>2, <1>3, <1>4, <1>11, <3>2, <4>1, ConfirmStep
    <3>4. s \notin toHear'
      BY <1>1
    <3>5. Stepped(s)'
      BY <1>1, <3>3, Zenon DEF Stepped
    <3>6. Candidate(s)'
      BY <1>1, <1>2, <1>11, <2>4, <2>6, <3>4, <3>5, Zenon DEF Candidate
    <3>7. QED
      BY <1>1, <1>2, <1>5, <2>1, <3>6, Zenon DEF ScanFinds
  <2>7. QED
    BY <2>5, <2>6
<1>12. QED
  BY <1>7, <1>9, <1>10, <1>11

LEMMA HearSelect ==
    ASSUME Inv, FindInv, NEW s \in Slaves, Hear(s), phase = "select"
    PROVE  SelectFinds'
<1> DEFINE sl == slave[s]
           h  == slave'[s]
           req == SwitchSelective(part, address[target])
           reply == Reply(sl, address[s], req)
<1>1. s \in toHear /\ master' = master
  BY DEF Hear, driverVars
<1>2. request = req /\ request # NmtReset
  <2>1. request = req
    BY <1>1 DEF Inv, OnTheBus
  <2>2. req # NmtReset
    BY DEF SwitchSelective, NmtReset
  <2>3. QED
    BY <2>1, <2>2
<1>3. slave \in [Slaves -> Slave] /\ sl \in Slave
  BY DEF Inv, Typed
<1>4. /\ h = Handled(sl, address[s], req)
      /\ \A t \in Slaves : t # s => slave'[t] = slave[t]
      /\ heard' = heard \cup ({reply} \ {NoReply})
  BY <1>2, <1>3 DEF Hear
<1>5. SelectFinds
  BY DEF FindInv
<1>6. req.cs = "SwitchSelective" /\ req.sub = part
  BY DEF SwitchSelective
<1> HIDE DEF req
<1>7. h = AfterSelective(sl, address[s], req)
  BY <1>4, <1>6 DEF Handled
<1>8. Configuring(sl) => Configuring(h)
  BY <1>3, <1>7 DEF AfterSelective, Configuring, Slave
<1>9. ASSUME reply # NoReply PROVE Configuring(h)
  <2>1. part = LastSub /\ SelectiveMatch(sl, address[s], req)
    BY <1>6, <1>9 DEF Reply
  <2>2. h = [sl EXCEPT !.selective = 0, !.state = "Configuration"]
    BY <1>6, <1>7, <2>1, LssAssumption DEF AfterSelective
  <2>3. QED
    BY <1>3, <2>2 DEF Configuring, Slave
<1> HIDE DEF h, reply
<1>10. ASSUME heard' # {} PROVE \E t \in Slaves : Configuring(slave'[t])
  <2>1. CASE heard # {}
    <3>1. PICK t \in Slaves : Configuring(slave[t])
      BY <1>5, <2>1 DEF SelectFinds
    <3>2. QED
      BY <1>4, <1>8, <3>1 DEF h
  <2>2. CASE heard = {}
    BY <1>4, <1>9, <1>10, <2>2 DEF h
  <2>3. QED
    BY <2>1, <2>2
<1>11. QED
  BY <1>1, <1>5, <1>10 DEF SelectFinds

LEMMA HearKeepsFindInv ==
    ASSUME Inv, FindInv, NEW s \in Slaves, Hear(s)
    PROVE  FindInv'
<1>1. /\ s \in toHear /\ request' = request /\ phase' = phase
      /\ address' = address /\ master' = master /\ target' = target
  BY DEF Hear, driverVars
<1>2. request # NoReply
  BY <1>1 DEF Inv, OnTheBus, NextRequest, Fastscan, SwitchSelective, ConfigureNodeId,
              SwitchGlobal, NmtReset, NoReply
<1>3. CASE phase = "scan"
  BY <1>1, <1>2, <1>3, HearScan DEF FindInv
<1>4. CASE phase = "select"
  BY <1>1, <1>2, <1>4, HearSelect DEF FindInv
<1>5. CASE phase = "inquire"
  <2>1. request.cs \in {"Inquire", "InquireNodeId", "StoreConfiguration"}
    BY <1>1, <1>5 DEF Inv, OnTheBus
  <2>2. request # NmtReset
    BY <2>1 DEF NmtReset
  <2>3. slave \in [Slaves -> Slave]
    BY DEF Inv, Typed
  <2>4. slave'[s] = slave[s]
    BY <2>1, <2>2, <2>3, QuietRequests DEF Hear
  <2>5. \A t \in Slaves : slave'[t] = slave[t]
    BY <2>2, <2>3, <2>4 DEF Hear
  <2>6. HasFound'
    BY <1>1, <1>5, <2>5 DEF FindInv, HasFound
  <2>7. QED
    BY <1>1, <1>2, <1>5, <2>6 DEF FindInv
<1>6. CASE phase \notin {"scan", "select", "inquire"}
  BY <1>1, <1>2, <1>6 DEF FindInv
<1>7. QED
  BY <1>3, <1>4, <1>5, <1>6

\* A request is sent to every node, none of which has answered it.
LEMMA SendKeepsFindInv ==
    ASSUME FindInv, NEW frame, Send(frame), UNCHANGED driverVars, frame # NoReply
    PROVE  FindInv'
<1>1. /\ slave' = slave /\ address' = address /\ toHear' = Slaves /\ heard' = {}
      /\ master' = master /\ phase' = phase /\ target' = target
      /\ request = NoReply /\ request' # NoReply
  BY DEF Send, slaveVars, driverVars
<1>2. \A s \in Slaves : Candidate(s) => Candidate(s)'
  BY <1>1, Zenon DEF Candidate, Matches, Waits
<1>3. ScanFinds => ScanFinds'
  <2> SUFFICES ASSUME ScanFinds PROVE ScanFinds'
    OBVIOUS
  <2>1. ~(IdentifySlave \in heard') /\ ~(\E s \in Slaves : s \notin toHear')
    BY <1>1
  <2>2. (\E s \in Slaves : Candidate(s)) => \E s \in Slaves : Candidate(s)'
    BY <1>2
  <2>3. QED
    BY <1>1, <2>1, <2>2, Zenon DEF ScanFinds
<1>4. (SelectFinds => SelectFinds') /\ (HasFound => HasFound')
  BY <1>1 DEF SelectFinds, HasFound
<1>5. QED
  BY <1>1, <1>3, <1>4, Zenon DEF FindInv

LEMMA SendsKeepFindInv ==
    ASSUME FindInv,
           \/ SendScan \/ SendSelective \/ SendInquiry \/ SendConfigure
           \/ SendFixed("store", [cs |-> "StoreConfiguration"])
           \/ SendFixed("release", SwitchGlobal(FALSE))
           \/ SendFixed("reset", NmtReset)
    PROVE  FindInv'
<1>1. \E frame : frame # NoReply /\ Send(frame) /\ UNCHANGED driverVars
  <2>1. CASE SendScan
    <3>1. NextRequest(master) # NoReply
      BY DEF NextRequest, Fastscan, NoReply
    <3>2. QED
      BY <2>1, <3>1, Zenon DEF SendScan
  <2>2. CASE SendSelective
    <3>1. SwitchSelective(part, address[target]) # NoReply
      BY DEF SwitchSelective, NoReply
    <3>2. QED
      BY <2>2, <3>1, Zenon DEF SendSelective
  <2>3. CASE SendInquiry
    <3>1. /\ \A k : [cs |-> "Inquire", sub |-> k] # NoReply
          /\ [cs |-> "InquireNodeId"] # NoReply
      BY DEF NoReply
    <3>2. QED
      BY <2>3, <3>1, Zenon DEF SendInquiry
  <2>4. CASE SendConfigure
    <3>1. ConfigureNodeId(nextId) # NoReply
      BY DEF ConfigureNodeId, NoReply
    <3>2. QED
      BY <2>4, <3>1, Zenon DEF SendConfigure
  <2>5. ASSUME NEW state, NEW frame, SendFixed(state, frame), frame # NoReply
        PROVE  \E f : f # NoReply /\ Send(f) /\ UNCHANGED driverVars
    BY <2>5, Zenon DEF SendFixed
  <2>6. /\ [cs |-> "StoreConfiguration"] # NoReply /\ SwitchGlobal(FALSE) # NoReply
        /\ NmtReset # NoReply
    BY DEF NoReply, SwitchGlobal, NmtReset
  <2>7. QED
    BY <2>1, <2>2, <2>3, <2>4, <2>5, <2>6, Zenon
<1>2. QED
  BY <1>1, SendKeepsFindInv

LEMMA ProbeAnswered ==
    ASSUME Inv, FindInv, ScanAnswered, master.bit = Probe
    PROVE  FindInv'
<1>1. /\ phase = "scan" /\ request # NoReply /\ toHear = {}
      /\ request' = NoReply /\ heard' = {} /\ slave' = slave /\ address' = address
      /\ master' = OnResponse(master, IdentifySlave \in heard)
      /\ phase' = IF ~IsComplete(master') THEN "scan"
                  ELSE IF master'.found THEN "inquire" ELSE "done"
  BY DEF ScanAnswered, Answered, slaveVars
<1>2. ScanFinds /\ master = NewMaster
  BY <1>1 DEF FindInv, ScanFinds
<1>3. LastSub \in Nat \ {0} /\ W \in Nat \ {0} /\ 0 \in Sub
  BY LssAssumption DEF Sub
<1>4. CASE IdentifySlave \in heard
  <2>1. master' = [master EXCEPT !.found = TRUE, !.bit = W - 1]
    BY <1>1, <1>4 DEF OnResponse, Probe, Confirm
  <2>2. /\ master'.id = [k \in Sub |-> ZeroWord] /\ master'.sub = 0
        /\ master'.bit = W - 1 /\ master'.found = TRUE
    BY <1>2, <2>1 DEF NewMaster
  <2>3. ~IsComplete(master') /\ phase' = "scan"
    BY <1>1, <1>3, <2>2 DEF IsComplete
  <2>4. PICK s \in Slaves : Scannable(slave[s]) /\ slave[s].fsSub = 0
    BY <1>1, <1>2, <1>4, Zenon DEF ScanFinds
  <2>5. master'.bit # Probe /\ master'.bit # Confirm
    BY <1>3, <2>2 DEF Probe, Confirm
  <2>6. Candidate(s)'
    <3>1. slave'[s].nodeId = Unconfigured
      BY <1>1, <2>4 DEF Scannable
    <3>2. (\A k \in Sub : ~(k < 0)) /\ (\A b \in Bit : ~(b > W - 1))
      BY <1>3 DEF Sub, Bit
    <3>3. Matches(s)'
      BY <2>2, <3>1, <3>2 DEF Matches
    <3>4. Waits(s)'
      BY <1>1, <2>2, <2>4, Zenon DEF Waits
    <3>5. QED
      BY <2>5, <3>3, <3>4, Zenon DEF Candidate
  <2>7. /\ \A b \in Bit : master'.id[master'.sub][b] = 0
        /\ \A k \in Sub : master'.id[k] = ZeroWord
    BY <1>3, <2>2 DEF ZeroWord
  <2>8. ScanFinds'
    <3>1. ~(IdentifySlave \in heard')
      BY <1>1
    <3>2. master'.found
      BY <2>2
    <3>3. QED
      BY <1>1, <2>3, <2>5, <2>6, <2>7, <3>1, <3>2, Zenon DEF ScanFinds
  <2>9. QED
    BY <1>1, <2>3, <2>8 DEF FindInv
<1>5. CASE IdentifySlave \notin heard
  <2>1. master' = [master EXCEPT !.sub = LastSub + 1]
    BY <1>1, <1>5 DEF OnResponse, Probe, Confirm
  <2>2. master'.sub = LastSub + 1 /\ master'.found = FALSE
    BY <1>2, <2>1 DEF NewMaster
  <2>3. phase' = "done"
    BY <1>1, <1>3, <2>2 DEF IsComplete
  <2>4. QED
    BY <1>1, <2>3 DEF FindInv
<1>6. QED
  BY <1>4, <1>5

LEMMA BitAnswered ==
    ASSUME Inv, FindInv, ScanAnswered, master.bit \in Bit
    PROVE  FindInv'
<1> DEFINE R == IdentifySlave \in heard
           sub == master.sub
           bit == master.bit
           id  == master.id
           after == EnterBit(master, R)
<1>1. /\ phase = "scan" /\ request # NoReply /\ toHear = {}
      /\ request' = NoReply /\ heard' = {} /\ slave' = slave /\ address' = address
      /\ master' = OnResponse(master, R)
      /\ phase' = IF ~IsComplete(master') THEN "scan"
                  ELSE IF master'.found THEN "inquire" ELSE "done"
  BY DEF ScanAnswered, Answered, slaveVars
<1>2. ScanFinds /\ master \in Master /\ address \in [Slaves -> LssAddress]
  BY <1>1 DEF Inv, Typed, FindInv
<1>3. /\ bit \in Nat /\ bit < W /\ W \in Nat \ {0} /\ bit # Probe /\ bit # Confirm
      /\ sub \in Sub /\ id \in [Sub -> Word] /\ LastSub \in Nat /\ Sub \subseteq Nat
  BY <1>2, LssAssumption DEF ScanFinds, IsComplete, Master, Bit, Sub, Probe, Confirm
<1>4. /\ master.found
      /\ \A b \in Bit : b <= bit => id[sub][b] = 0
      /\ \A k \in Sub : k > sub => id[k] = ZeroWord
      /\ \E s \in Slaves : Candidate(s)
      /\ R => \E s \in Slaves : Agrees(s)
      /\ \A s \in Slaves : Agrees(s) => R
  BY <1>1, <1>2, <1>3, Zenon DEF ScanFinds
<1>5. master' = [master EXCEPT !.id = after, !.bit = bit - 1]
  BY <1>1, <1>3 DEF OnResponse
<1> HIDE DEF R, after
<1>6. /\ master'.id = after /\ master'.bit = bit - 1 /\ master'.sub = sub
      /\ master'.found = master.found
  BY <1>2, <1>5 DEF Master
<1>7. ~IsComplete(master') /\ phase' = "scan"
  BY <1>1, <1>2, <1>6 DEF ScanFinds, IsComplete
<1>8. /\ \A k \in Sub : k # sub => after[k] = id[k]
      /\ \A b \in Bit : b # bit => after[sub][b] = id[sub][b]
      /\ after[sub][bit] = IF R THEN id[sub][bit] ELSE 1
  <2>1. CASE R
    BY <2>1 DEF EnterBit, after
  <2>2. CASE ~R
    <3> DEFINE word == [id[sub] EXCEPT ![bit] = 1]
    <3>1. id[sub] \in [Bit -> {0, 1}]
      BY <1>3 DEF Word
    <3>2. word[bit] = 1 /\ \A b \in Bit : b # bit => word[b] = id[sub][b]
      BY <3>1
    <3>3. after = [id EXCEPT ![sub] = word]
      BY <2>2 DEF EnterBit, after
    <3> HIDE DEF word
    <3>4. after[sub] = word /\ \A k \in Sub : k # sub => after[k] = id[k]
      BY <1>3, <3>3
    <3>5. QED
      BY <2>2, <3>2, <3>4
  <2>3. QED
    BY <2>1, <2>2
<1>9. \A b \in Bit : (b <= bit - 1 => b <= bit /\ b # bit) /\ (b > bit - 1 => b > bit \/ b = bit)
  BY <1>3 DEF Bit
<1>10. \E s \in Slaves : Matches(s) /\ Waits(s) /\ address[s][sub][bit] = after[sub][bit]
  <2>1. CASE R
    <3>1. PICK s \in Slaves : Agrees(s)
      BY <1>4, <2>1
    <3>2. bit <= bit
      BY <1>3
    <3>3. id[sub][bit] = 0
      BY <1>4, <3>2
    <3>4. QED
      BY <1>8, <2>1, <3>1, <3>3, Zenon DEF Agrees
  <2>2. CASE ~R
    <3>1. PICK s \in Slaves : Candidate(s)
      BY <1>4
    <3>2. Matches(s) /\ Waits(s)
      BY <1>3, <3>1, Zenon DEF Candidate
    <3>3. address[s][sub][bit] # 0
      BY <1>4, <2>2, <3>2, Zenon DEF Agrees
    <3>4. address[s][sub][bit] \in {0, 1}
      BY <1>2, <1>3 DEF LssAddress, Word
    <3>5. QED
      BY <1>8, <2>2, <3>2, <3>3, <3>4
  <2>3. QED
    BY <2>1, <2>2
<1>11. PICK s \in Slaves : Matches(s) /\ Waits(s) /\ address[s][sub][bit] = after[sub][bit]
  BY <1>10
<1>12. Matches(s)'
  <2>1. \A k \in Sub : k < sub => address[s][k] = after[k]
    <3>1. \A k \in Sub : k < sub => k # sub
      BY <1>3
    <3>2. QED
      BY <1>8, <1>11, <3>1 DEF Matches
  <2>2. \A b \in Bit : b > bit - 1 => address[s][sub][b] = after[sub][b]
    <3>1. \A b \in Bit : b > bit => b # bit
      BY <1>3
    <3>2. QED
      BY <1>8, <1>9, <1>11, <3>1 DEF Matches
  <2>3. slave[s].nodeId = Unconfigured
    BY <1>11 DEF Matches
  <2>4. QED
    BY <1>1, <1>6, <2>1, <2>2, <2>3, Zenon DEF Matches
<1>13. Waits(s)'
  BY <1>1, <1>6, <1>11, Zenon DEF Waits
<1>14. Candidate(s)'
  BY <1>1, <1>12, <1>13, Zenon DEF Candidate
<1>15. master'.bit # Probe
  BY <1>3, <1>6 DEF Probe
<1>16. \A b \in Bit : b <= master'.bit => master'.id[master'.sub][b] = 0
  BY <1>4, <1>6, <1>8, <1>9
<1>17. \A k \in Sub : k > master'.sub => master'.id[k] = ZeroWord
  <2>1. \A k \in Sub : k > sub => k # sub
    BY <1>3 DEF Sub
  <2>2. QED
    BY <1>4, <1>6, <1>8, <2>1
<1>18. ScanFinds'
  <2>1. ~(IdentifySlave \in heard')
    BY <1>1
  <2>2. master'.found
    BY <1>4, <1>6
  <2>3. QED
    BY <1>1, <1>7, <1>14, <1>15, <1>16, <1>17, <2>1, <2>2, Zenon DEF ScanFinds
<1>19. QED
  BY <1>1, <1>7, <1>18 DEF FindInv

LEMMA ConfirmAnswered ==
    ASSUME Inv, FindInv, ScanAnswered, master.bit = Confirm
    PROVE  FindInv'
<1>1. /\ phase = "scan" /\ request # NoReply /\ toHear = {}
      /\ request' = NoReply /\ heard' = {} /\ slave' = slave /\ address' = address
      /\ master' = OnResponse(master, IdentifySlave \in heard)
      /\ phase' = IF ~IsComplete(master') THEN "scan"
                  ELSE IF master'.found THEN "inquire" ELSE "done"
  BY DEF ScanAnswered, Answered, slaveVars
<1>2. ScanFinds /\ master \in Master /\ ~IsComplete(master)
  BY <1>1 DEF Inv, Typed, FindInv, ScanFinds
<1>3. /\ W \in Nat \ {0} /\ LastSub \in Nat \ {0} /\ master.sub \in Nat
      /\ master.sub <= LastSub /\ master.bit # Probe
  BY <1>2, LssAssumption DEF IsComplete, Master, Probe, Confirm
<1>4. /\ master.found
      /\ \A k \in Sub : k > master.sub => master.id[k] = ZeroWord
      /\ \E s \in Slaves : Candidate(s)
  BY <1>2, <1>3, Zenon DEF ScanFinds
<1>5. PICK s \in Slaves : Candidate(s)
  BY <1>4
<1>6. slave[s].nodeId = Unconfigured /\ Stepped(s)
  BY <1>1, <1>5 DEF Candidate, Matches
<1>7. master' = [master EXCEPT !.sub = master.sub + 1, !.bit = W - 1]
  BY <1>1 DEF OnResponse, Probe, Confirm
<1>8. /\ master'.id = master.id /\ master'.sub = master.sub + 1
      /\ master'.bit = W - 1 /\ master'.found = master.found
  BY <1>2, <1>7 DEF Master
<1>9. InScan(s)
  BY <1>1 DEF Inv, Selection
<1>10. CASE master.sub = LastSub
  <2>1. phase' = "inquire"
    <3>1. IsComplete(master')
      BY <1>3, <1>8, <1>10 DEF IsComplete
    <3>2. QED
      BY <1>1, <1>4, <1>8, <3>1, Zenon
  <2>2. Configuring(slave[s]) /\ address[s] = master.id
    BY <1>6, <1>9, <1>10 DEF Stepped, InScan
  <2>3. HasFound'
    BY <1>1, <1>4, <1>8, <2>2 DEF HasFound
  <2>4. QED
    BY <1>1, <2>1, <2>3 DEF FindInv
<1>11. CASE master.sub # LastSub
  <2>1. ~IsComplete(master') /\ phase' = "scan" /\ master'.sub \in Sub
    BY <1>1, <1>3, <1>8, <1>11 DEF IsComplete, Sub
  <2>2. Scannable(slave[s]) /\ slave[s].fsSub = master.sub + 1
    BY <1>6, <1>11 DEF Stepped
  <2>3. \A k \in Sub : k < master'.sub => address[s][k] = master.id[k]
    <3>1. slave[s].fsSub # 0
      BY <1>3, <2>2
    <3>2. Follows(s)
      BY <1>3, <1>9, <2>2 DEF InScan
    <3>3. QED
      BY <1>8, <2>2, <3>1, <3>2 DEF Follows
  <2>4. Matches(s)'
    <3>1. \A b \in Bit : ~(b > W - 1)
      BY <1>3 DEF Bit
    <3>2. QED
      BY <1>1, <1>6, <1>8, <2>3, <3>1 DEF Matches
  <2>5. Waits(s)'
    BY <1>1, <1>8, <2>2 DEF Waits
  <2>6. master'.bit # Probe /\ master'.bit # Confirm
    BY <1>3, <1>8 DEF Probe, Confirm
  <2>7. Candidate(s)'
    BY <2>4, <2>5, <2>6, Zenon DEF Candidate
  <2>8. \A k \in Sub : k > master'.sub => master'.id[k] = ZeroWord
    <3>1. \A k \in Sub : k > master'.sub => k > master.sub
      BY <1>3, <1>8 DEF Sub
    <3>2. QED
      BY <1>4, <1>8, <3>1
  <2>9. \A b \in Bit : master'.id[master'.sub][b] = 0
    <3>1. master'.id[master'.sub] = ZeroWord
      <4>1. master'.sub > master.sub
        BY <1>3, <1>8
      <4>2. QED
        BY <1>4, <1>8, <2>1, <4>1
    <3>2. QED
      BY <3>1 DEF ZeroWord
  <2>10. ScanFinds'
    <3>1. ~(IdentifySlave \in heard')
      BY <1>1
    <3>2. master'.found
      BY <1>4, <1>8
    <3>3. QED
      BY <1>1, <2>1, <2>6, <2>7, <2>8, <2>9, <3>1, <3>2, Zenon DEF ScanFinds
  <2>11. QED
    BY <1>1, <2>1, <2>10 DEF FindInv
<1>12. QED
  BY <1>10, <1>11

LEMMA ScanAnsweredKeepsFindInv ==
    ASSUME Inv, FindInv, ScanAnswered
    PROVE  FindInv'
<1>1. master.bit = Probe \/ master.bit = Confirm \/ master.bit \in Bit
  BY LssAssumption DEF Inv, Typed, Master, Probe, Confirm, Bit
<1>2. QED
  BY <1>1, ProbeAnswered, ConfirmAnswered, BitAnswered

\* A switch that is answered has selected the node it names.
LEMMA SelectAnsweredKeepsFindInv ==
    ASSUME Inv, FindInv, SelectAnswered
    PROVE  FindInv'
<1>1. /\ phase = "select" /\ request' = NoReply /\ heard' = {}
      /\ slave' = slave /\ address' = address /\ master' = master /\ target' = target
      /\ phase' = IF part < LastSub THEN "select"
                  ELSE IF heard # {} THEN "inquire" ELSE "failed"
  BY DEF SelectAnswered, Answered, slaveVars
<1>2. SelectFinds
  BY <1>1 DEF FindInv
<1>3. CASE phase' = "inquire"
  <2>1. heard # {}
    BY <1>1, <1>3
  <2>2. PICK s \in Slaves : Configuring(slave[s])
    BY <1>2, <2>1 DEF SelectFinds
  <2>3. s = target
    BY <1>1, <2>2 DEF Inv, Selection, InSelect
  <2>4. HasFound'
    BY <1>1, <1>2, <2>2, <2>3 DEF HasFound, SelectFinds
  <2>5. QED
    BY <1>1, <1>3, <2>4 DEF FindInv
<1>4. CASE phase' # "inquire"
  BY <1>1, <1>2, <1>4 DEF FindInv, SelectFinds
<1>5. QED
  BY <1>3, <1>4

\* A selection starts with nothing heard, and other answers end none.
LEMMA OthersKeepFindInv ==
    ASSUME Inv, FindInv,
           \/ StartScan \/ StartSelect \/ ConfigureAnswered
           \/ FixedAnswered("inquire", "configure")
           \/ FixedAnswered("store", "release")
           \/ FixedAnswered("release", "reset")
           \/ FixedAnswered("reset", "start")
           \/ UNCHANGED vars
    PROVE  FindInv'
<1>1. phase = "start" => request = NoReply
  BY DEF Inv, OnTheBus
<1>2. CASE StartScan
  <2>1. phase' = "scan" /\ request' = NoReply /\ heard' = {} /\ master' = NewMaster
    BY <1>1, <1>2 DEF StartScan, busVars, FindInv
  <2>2. ~IsComplete(NewMaster) /\ NewMaster.bit = Probe /\ Probe \notin Bit
    BY LssAssumption DEF NewMaster, IsComplete, Bit, Probe
  <2>3. ~(IdentifySlave \in heard')
    BY <2>1
  <2>4. ScanFinds'
    BY <2>1, <2>2, <2>3, Zenon DEF ScanFinds
  <2>5. QED
    BY <2>1, <2>4 DEF FindInv
<1>3. CASE StartSelect
  <2>1. phase' = "select" /\ request' = NoReply /\ heard' = {} /\ master' = NewMaster
    BY <1>1, <1>3 DEF StartSelect, busVars, FindInv
  <2>2. QED
    BY <2>1 DEF FindInv, SelectFinds, NewMaster
<1>4. CASE ConfigureAnswered
  BY <1>4 DEF ConfigureAnswered, Answered, FindInv
<1>5. ASSUME NEW state, NEW next, FixedAnswered(state, next),
             next \notin {"scan", "select", "inquire"}
      PROVE  FindInv'
  BY <1>5 DEF FixedAnswered, Answered, FindInv
<1>6. CASE UNCHANGED vars
  <2>1. /\ slave' = slave /\ address' = address /\ master' = master /\ phase' = phase
        /\ target' = target /\ request' = request /\ toHear' = toHear /\ heard' = heard
    BY <1>6 DEF vars, slaveVars, driverVars, busVars
  <2>2. ScanFinds' <=> ScanFinds
    <3>1. \A s \in Slaves : (Matches(s)' <=> Matches(s)) /\ (Waits(s)' <=> Waits(s))
      BY <2>1, Zenon DEF Matches, Waits
    <3>2. \A s \in Slaves : Stepped(s)' <=> Stepped(s)
      BY <2>1, Zenon DEF Stepped
    <3>3. \A s \in Slaves : (Candidate(s)' <=> Candidate(s)) /\ (Agrees(s)' <=> Agrees(s))
      BY <2>1, <3>1, <3>2, Zenon DEF Candidate, Agrees
    <3>4. IsComplete(master') <=> IsComplete(master)
      BY <2>1
    <3>5. QED
      BY <2>1, <3>3, <3>4, Zenon DEF ScanFinds
  <2>3. (SelectFinds' <=> SelectFinds) /\ (HasFound' <=> HasFound)
    BY <2>1 DEF SelectFinds, HasFound
  <2>4. QED
    BY <2>1, <2>2, <2>3, Zenon DEF FindInv
<1>7. QED
  BY <1>2, <1>3, <1>4, <1>5, <1>6

LEMMA StepKeepsFindInv == Inv /\ FindInv /\ [Next]_vars => FindInv'
<1> SUFFICES ASSUME Inv, FindInv, [Next]_vars PROVE FindInv'
  OBVIOUS
<1>1. CASE \E s \in Slaves : Hear(s)
  BY <1>1, HearKeepsFindInv
<1>2. CASE Driver
  BY <1>2, OthersKeepFindInv, ScanAnsweredKeepsFindInv, SelectAnsweredKeepsFindInv,
     SendsKeepFindInv, Zenon DEF Driver
<1>3. CASE Terminated \/ UNCHANGED vars
  BY <1>3, OthersKeepFindInv, Zenon DEF Terminated
<1>4. QED
  BY <1>1, <1>2, <1>3, Zenon DEF Next

LEMMA AlwaysFindInv == Spec => [](Inv /\ FindInv)
<1>1. Init => FindInv
  BY DEF Init, FindInv
<1>2. [Next]_vars => [LossyNext]_vars
  BY Zenon DEF LossyNext
<1>3. QED
  BY <1>1, <1>2, InitInv, StepKeepsInv, StepKeepsFindInv, PTL DEF Spec

\* A selection that is over has put one node, and no other, in the configuration
\* state: the node whose identity FastscanMaster has assembled bit by bit, or
\* the one that encode_switch_selective named, as long as LssSlave::handle hears
\* every request and no reply is lost.
THEOREM SelectionFindsOne == Spec => []SelectsOne
<1>1. ASSUME Inv, FindInv PROVE SelectsOne
  <2> SUFFICES ASSUME phase = "inquire"
               PROVE  \E s \in Slaves :
                         /\ Selected = {s}
                         /\ address[s] = IF master.found THEN master.id ELSE address[target]
    BY DEF SelectsOne
  <2>1. PICK s \in Slaves :
           /\ Configuring(slave[s])
           /\ address[s] = IF master.found THEN master.id ELSE address[target]
    BY <1>1 DEF FindInv, HasFound
  <2>2. Selected = {s}
    BY <1>1, <2>1 DEF Selected, Configuring, Inv, OnlyOne
  <2>3. QED
    BY <2>1, <2>2
<1>2. QED
  BY <1>1, AlwaysFindInv, PTL
=============================================================================
