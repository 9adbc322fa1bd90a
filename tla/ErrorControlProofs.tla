------------------------- MODULE ErrorControlProofs --------------------------
(***************************************************************************)
(* The monitor's two promises, for every period, delay and timeout.        *)
(***************************************************************************)
EXTENDS ErrorControl, TLAPS

\* The last frame sent by the timer is under way or has been received, so the
\* monitor's age is bounded by the time since: the age of the oldest frame
\* under way, or the part of the period that has passed.
AgeBounded ==
    up /\ greeted =>
        /\ timer # Off
        /\ frames = <<>> => age <= Period - timer
        /\ frames # <<>> => age <= Period + frames[1].age

\* What is under way from a node that is down was sent before it went down.
DownSince ==
    /\ up => downFor = 0
    /\ ~up => ~greeted /\ timer = Off
    /\ ~up => \A i \in DOMAIN frames : frames[i].age >= downFor
    /\ ~up /\ known => age >= downFor - MaxDelay

\* The inductive invariant.
MonitorInv == TypeOK /\ AgeBounded /\ DownSince

-----------------------------------------------------------------------------

\* NmtStateMachine::apply and boot yield states.
LEMMA StatesTyped ==
    ASSUME NEW s \in NmtState, NEW c \in NmtCommand
    PROVE  Applied(s, c) \in NmtState /\ Booted(s) \in NmtState
BY DEF Applied, Booted, NmtState, NmtCommand, Resets

\* A frame just sent joins the end of the queue, and is the oldest only if it
\* is alone.
LEMMA TransmitTyped ==
    ASSUME TypeOK, NEW kind \in {"bootup", "heartbeat", "guard"}, NEW s \in NmtState,
           NEW bit \in BOOLEAN, Transmit(Frame(kind, s, bit))
    PROVE  /\ frames' \in Seq(Frames)
           /\ frames' # <<>>
           /\ frames'[1].age = IF frames = <<>> THEN 0 ELSE frames[1].age
<1>1. Frame(kind, s, bit) \in Frames /\ Frame(kind, s, bit).age = 0
  BY ErrorControlAssumption DEF Frame, Frames
<1>2. frames \in Seq(Frames)
  BY DEF TypeOK
<1> HIDE DEF Frames, Frame
<1>3. QED
  BY <1>1, <1>2 DEF Transmit

\* The monitor starts with nothing known and nothing under way.
LEMMA InitHolds == Init => MonitorInv
<1> SUFFICES ASSUME Init PROVE MonitorInv
  OBVIOUS
<1>1. TypeOK
  <2>1. /\ 0 \in 0..MaxEvents
        /\ 0 \in 0..(Timeout + 1)
        /\ 0 \in 0..(Timeout + MaxDelay + 1)
    BY ErrorControlAssumption
  <2>2. <<>> \in Seq(Frames)
    OBVIOUS
  <2>3. QED
    BY <2>1, <2>2 DEF Init, TypeOK, NmtState
<1>2. AgeBounded /\ DownSince
  BY DEF Init, AgeBounded, DownSince
<1>3. QED
  BY <1>1, <1>2 DEF MonitorInv

\* A boot-up frame opens or joins the queue.
LEMMA BootStep == MonitorInv /\ Boot => MonitorInv'
<1> SUFFICES ASSUME MonitorInv, Boot PROVE MonitorInv'
  OBVIOUS
<1>1. /\ frames' \in Seq(Frames)
      /\ frames' # <<>>
      /\ frames'[1].age = IF frames = <<>> THEN 0 ELSE frames[1].age
  BY TransmitTyped DEF MonitorInv, Boot, NmtState
<1>2. nmt' \in NmtState
  BY DEF MonitorInv, TypeOK, Boot, Booted, NmtState
<1>3. Period \in 0..Period /\ Off # Period
  BY ErrorControlAssumption DEF Off
<1> HIDE DEF Frames
<1>4. TypeOK'
  BY <1>1, <1>2, <1>3 DEF MonitorInv, TypeOK, Boot, monitorVars
<1>5. AgeBounded'
  <2>1. SUFFICES ASSUME up, greeted PROVE age <= Period + frames'[1].age
    BY <1>1, <1>3 DEF AgeBounded, Boot, monitorVars
  <2>2. CASE frames = <<>>
    BY <1>1, <2>1, <2>2, ErrorControlAssumption
       DEF MonitorInv, AgeBounded, TypeOK, Off
  <2>3. CASE frames # <<>>
    BY <1>1, <2>1, <2>3 DEF MonitorInv, AgeBounded
  <2>4. QED
    BY <2>2, <2>3
<1>6. DownSince'
  BY DEF MonitorInv, DownSince, Boot, monitorVars
<1>7. QED
  BY <1>4, <1>5, <1>6 DEF MonitorInv

\* A command changes the NMT state alone.
LEMMA OnNmtStep == MonitorInv /\ OnNmt => MonitorInv'
<1> SUFFICES ASSUME MonitorInv, OnNmt PROVE MonitorInv'
  OBVIOUS
<1>1. nmt' \in NmtState
  <2>1. PICK command \in Sent :
           nmt' = IF command[2] = "other" THEN nmt ELSE Applied(nmt, command[1])
    BY DEF OnNmt
  <2>2. command[1] \in NmtCommand
    BY ErrorControlAssumption
  <2>3. QED
    BY <2>1, <2>2, StatesTyped DEF MonitorInv, TypeOK
<1>2. events' \in 0..MaxEvents
  BY ErrorControlAssumption DEF MonitorInv, TypeOK, OnNmt, Event
<1> HIDE DEF Frames
<1>3. TypeOK'
  BY <1>1, <1>2 DEF MonitorInv, TypeOK, OnNmt, monitorVars
<1>4. QED
  BY <1>3 DEF MonitorInv, AgeBounded, DownSince, OnNmt, monitorVars

\* The heartbeat is sent when the timer has run out, so the monitor's age is
\* then at most a period.
LEMMA HeartbeatStep == MonitorInv /\ Heartbeat => MonitorInv'
<1> SUFFICES ASSUME MonitorInv, Heartbeat PROVE MonitorInv'
  OBVIOUS
<1>1. /\ frames' \in Seq(Frames)
      /\ frames' # <<>>
      /\ frames'[1].age = IF frames = <<>> THEN 0 ELSE frames[1].age
  BY TransmitTyped DEF MonitorInv, TypeOK, Heartbeat
<1>2. Period \in 0..Period /\ Off # Period
  BY ErrorControlAssumption DEF Off
<1> HIDE DEF Frames
<1>3. TypeOK'
  BY <1>1, <1>2 DEF MonitorInv, TypeOK, Heartbeat, monitorVars
<1>4. AgeBounded'
  <2>1. SUFFICES ASSUME up, greeted PROVE age <= Period + frames'[1].age
    BY <1>1, <1>2 DEF AgeBounded, Heartbeat, monitorVars
  <2>2. CASE frames = <<>>
    BY <1>1, <2>1, <2>2, ErrorControlAssumption
       DEF MonitorInv, AgeBounded, TypeOK, Heartbeat
  <2>3. CASE frames # <<>>
    BY <1>1, <2>1, <2>3 DEF MonitorInv, AgeBounded
  <2>4. QED
    BY <2>2, <2>3
<1>5. DownSince'
  BY DEF MonitorInv, DownSince, Heartbeat, monitorVars
<1>6. QED
  BY <1>3, <1>4, <1>5 DEF MonitorInv

\* A guarding response opens or joins the queue; the timer is left alone.
LEMMA GuardStep == MonitorInv /\ NodeGuardResponse => MonitorInv'
<1> SUFFICES ASSUME MonitorInv, NodeGuardResponse PROVE MonitorInv'
  OBVIOUS
<1>1. /\ frames' \in Seq(Frames)
      /\ frames' # <<>>
      /\ frames'[1].age = IF frames = <<>> THEN 0 ELSE frames[1].age
  BY TransmitTyped DEF MonitorInv, TypeOK, NodeGuardResponse
<1>2. events' \in 0..MaxEvents
  BY ErrorControlAssumption DEF MonitorInv, TypeOK, NodeGuardResponse, Event
<1> HIDE DEF Frames
<1>3. TypeOK'
  BY <1>1, <1>2 DEF MonitorInv, TypeOK, NodeGuardResponse, monitorVars
<1>4. AgeBounded'
  <2>1. SUFFICES ASSUME up, greeted PROVE age <= Period + frames'[1].age
    BY <1>1 DEF MonitorInv, AgeBounded, NodeGuardResponse, monitorVars
  <2>2. CASE frames = <<>>
    BY <1>1, <2>1, <2>2, ErrorControlAssumption
       DEF MonitorInv, AgeBounded, TypeOK, Off
  <2>3. CASE frames # <<>>
    BY <1>1, <2>1, <2>3 DEF MonitorInv, AgeBounded
  <2>4. QED
    BY <2>2, <2>3
<1>5. DownSince'
  BY DEF MonitorInv, DownSince, NodeGuardResponse, monitorVars
<1>6. QED
  BY <1>3, <1>4, <1>5 DEF MonitorInv

\* The age of a frame under way is a natural number, at most MaxDelay.
LEMMA FrameAge ==
    ASSUME TypeOK, NEW i \in DOMAIN frames
    PROVE  frames[i] \in Frames /\ frames[i].age \in 0..MaxDelay
<1>1. frames[i] \in Frames
  BY DEF TypeOK
<1>2. QED
  BY <1>1 DEF Frames

\* A node goes down with what it sent still under way.
LEMMA FailStep == MonitorInv /\ Fail => MonitorInv'
<1> SUFFICES ASSUME MonitorInv, Fail PROVE MonitorInv'
  OBVIOUS
<1>1. events' \in 0..MaxEvents
  BY ErrorControlAssumption DEF MonitorInv, TypeOK, Fail, Event
<1> HIDE DEF Frames
<1>2. TypeOK'
  BY <1>1 DEF MonitorInv, TypeOK, Fail, monitorVars
<1>3. AgeBounded'
  BY DEF AgeBounded, Fail
<1>4. DownSince'
  <2>1. /\ downFor' = 0 /\ ~up' /\ ~greeted' /\ timer' = Off
        /\ frames' = frames /\ age' = age /\ known' = known
    BY DEF MonitorInv, DownSince, Fail, monitorVars
  <2>2. \A i \in DOMAIN frames : frames[i].age >= 0
    BY FrameAge, ErrorControlAssumption DEF MonitorInv
  <2>3. age >= 0 - MaxDelay
    BY ErrorControlAssumption DEF MonitorInv, TypeOK
  <2>4. QED
    BY <2>1, <2>2, <2>3 DEF DownSince
<1>5. QED
  BY <1>2, <1>3, <1>4 DEF MonitorInv

\* A node that starts has not been heard.
LEMMA RestartStep == MonitorInv /\ Restart => MonitorInv'
<1> SUFFICES ASSUME MonitorInv, Restart PROVE MonitorInv'
  OBVIOUS
<1>1. 0 \in 0..(Timeout + MaxDelay + 1)
  BY ErrorControlAssumption
<1> HIDE DEF Frames
<1>2. TypeOK'
  BY <1>1 DEF MonitorInv, TypeOK, Restart, monitorVars, NmtState
<1>3. QED
  BY <1>2 DEF MonitorInv, AgeBounded, DownSince, Restart, monitorVars

\* A frame that arrives makes the monitor's age zero; on a node that is down,
\* the frame was under way for the whole time.
LEMMA OnFrameStep == MonitorInv /\ OnFrame => MonitorInv'
<1> SUFFICES ASSUME MonitorInv, OnFrame PROVE MonitorInv'
  OBVIOUS
<1> DEFINE frame == Head(frames)
<1>1. /\ frames # <<>>
      /\ frames \in Seq(Frames)
      /\ frames' = Tail(frames)
      /\ known' = TRUE
      /\ state' = frame.state
      /\ age' = 0
      /\ greeted' = (timer # Off)
      /\ UNCHANGED <<up, nmt, toggle, timer, events, downFor>>
  BY DEF MonitorInv, TypeOK, OnFrame, nodeVars
<1>2. expected' = CASE frame.kind = "guard"     -> ~frame.toggle
                    [] frame.kind = "bootup"    -> FALSE
                    [] frame.kind = "heartbeat" -> expected
  BY DEF OnFrame
<1>3. frame \in Frames /\ 1 \in DOMAIN frames /\ frame = frames[1]
  BY <1>1
<1>4. frame.state \in NmtState /\ expected' \in BOOLEAN
  <2>1. frame.kind \in {"bootup", "heartbeat", "guard"} /\ frame.toggle \in BOOLEAN
        /\ frame.state \in NmtState
    BY <1>3 DEF Frames
  <2>2. expected \in BOOLEAN
    BY DEF MonitorInv, TypeOK
  <2> HIDE DEF frame
  <2>3. QED
    BY <1>2, <2>1, <2>2
<1>5. frame.age \in 0..MaxDelay
  BY <1>3 DEF Frames
<1>6. /\ frames' \in Seq(Frames)
      /\ \A i \in DOMAIN frames' : i + 1 \in DOMAIN frames /\ frames'[i] = frames[i + 1]
  BY <1>1
<1> HIDE DEF frame
<1>7. TypeOK'
  <2>1. 0 \in 0..(Timeout + 1)
    BY ErrorControlAssumption
  <2> HIDE DEF Frames
  <2>2. QED
    BY <1>1, <1>4, <1>6, <2>1 DEF MonitorInv, TypeOK
<1>8. AgeBounded'
  <2>1. SUFFICES ASSUME up, timer # Off
        PROVE  /\ 0 <= Period - timer
               /\ frames' # <<>> => 0 <= Period + frames'[1].age
    BY <1>1 DEF AgeBounded
  <2>2. timer \in 0..Period
    BY <2>1 DEF MonitorInv, TypeOK
  <2>3. ASSUME frames' # <<>> PROVE frames'[1].age \in 0..MaxDelay
    <3>1. 1 \in DOMAIN frames'
      BY <1>6, <2>3
    <3>2. 2 \in DOMAIN frames /\ frames'[1] = frames[2]
      BY <1>6, <3>1
    <3>3. QED
      BY <3>2, FrameAge DEF MonitorInv
  <2>4. QED
    BY <2>2, <2>3, ErrorControlAssumption
<1>9. DownSince'
  <2>1. up' => downFor' = 0
    BY <1>1 DEF MonitorInv, DownSince
  <2>2. ASSUME ~up PROVE ~greeted' /\ 0 >= downFor - MaxDelay
        /\ \A i \in DOMAIN frames' : frames'[i].age >= downFor
    <3>1. timer = Off
      BY <2>2 DEF MonitorInv, DownSince
    <3>2. frame.age >= downFor
      BY <1>3, <2>2 DEF MonitorInv, DownSince
    <3>3. downFor \in Nat
      BY ErrorControlAssumption DEF MonitorInv, TypeOK
    <3>4. \A i \in DOMAIN frames' : frames'[i].age >= downFor
      BY <1>6, <2>2 DEF MonitorInv, DownSince
    <3>5. 0 >= downFor - MaxDelay
      BY <1>5, <3>2, <3>3, ErrorControlAssumption
    <3>6. QED
      BY <1>1, <3>1, <3>4, <3>5
  <2>3. QED
    BY <1>1, <2>1, <2>2 DEF DownSince
<1>10. QED
  BY <1>7, <1>8, <1>9 DEF MonitorInv

\* Time that passes is time spent by the timer, by the frames under way and by
\* the monitor alike.
LEMMA TickStep == MonitorInv /\ Tick => MonitorInv'
<1> SUFFICES ASSUME MonitorInv, Tick PROVE MonitorInv'
  OBVIOUS
<1>1. /\ timer # 0
      /\ timer' = IF timer = Off THEN Off ELSE timer - 1
      /\ age' = IF known THEN Capped(age, Timeout + 1) ELSE age
      /\ downFor' = IF up THEN downFor ELSE Capped(downFor, Timeout + MaxDelay + 1)
      /\ events' = 0
      /\ UNCHANGED <<up, nmt, toggle, known, state, expected, greeted>>
  BY DEF Tick
<1>2. /\ frames' \in Seq(Frames)
      /\ DOMAIN frames' = DOMAIN frames
      /\ \A i \in DOMAIN frames : frames'[i].age = frames[i].age + 1
  <2>1. /\ \A i \in DOMAIN frames : frames[i].age < MaxDelay
        /\ frames' = [i \in DOMAIN frames |-> [frames[i] EXCEPT !.age = @ + 1]]
    BY DEF Tick
  <2>2. frames \in Seq(Frames)
    BY DEF MonitorInv, TypeOK
  <2>3. ASSUME NEW i \in DOMAIN frames
        PROVE  /\ [frames[i] EXCEPT !.age = @ + 1] \in Frames
               /\ [frames[i] EXCEPT !.age = @ + 1].age = frames[i].age + 1
    <3>1. frames[i] \in Frames
      BY <2>2, <2>3
    <3>2. frames[i].age + 1 \in 0..MaxDelay
      BY <2>1, <2>3, <3>1, ErrorControlAssumption DEF Frames
    <3>3. QED
      BY <3>1, <3>2 DEF Frames
  <2> HIDE DEF Frames
  <2>4. frames' \in Seq(Frames)
    BY <2>1, <2>2, <2>3
  <2>5. QED
    BY <2>1, <2>3, <2>4
<1>3. /\ Timeout + 1 \in Nat /\ Timeout + MaxDelay + 1 \in Nat
      /\ age \in 0..(Timeout + 1)
      /\ downFor \in 0..(Timeout + MaxDelay + 1)
      /\ timer = Off \/ timer \in 0..Period
  BY ErrorControlAssumption DEF MonitorInv, TypeOK
<1>4. /\ age' \in 0..(Timeout + 1)
      /\ age' <= age + 1
      /\ known => age' = age + 1 \/ age' = Timeout + 1
  BY <1>1, <1>3 DEF Capped
<1>5. /\ downFor' \in 0..(Timeout + MaxDelay + 1)
      /\ downFor' <= downFor + 1
  BY <1>1, <1>3 DEF Capped
<1>6. timer' = Off \/ timer' \in 0..Period
  BY <1>1, <1>3, ErrorControlAssumption
<1>7. TypeOK'
  <2>1. 0 \in 0..MaxEvents
    BY ErrorControlAssumption
  <2> HIDE DEF Frames
  <2>2. QED
    BY <1>1, <1>2, <1>4, <1>5, <1>6, <2>1 DEF MonitorInv, TypeOK
<1>8. AgeBounded'
  <2>1. SUFFICES ASSUME up, greeted
        PROVE  /\ timer' # Off
               /\ frames' = <<>> => age' <= Period - timer'
               /\ frames' # <<>> => age' <= Period + frames'[1].age
    BY <1>1 DEF AgeBounded
  <2>2. timer \in 1..Period /\ timer' = timer - 1 /\ timer' # Off
    BY <1>1, <1>3, <2>1, ErrorControlAssumption DEF MonitorInv, AgeBounded, Off
  <2>3. ASSUME frames' = <<>> PROVE age' <= Period - timer'
    <3>1. frames = <<>>
      BY <1>2, <2>3 DEF MonitorInv, TypeOK
    <3>2. age <= Period - timer
      BY <2>1, <3>1 DEF MonitorInv, AgeBounded
    <3>3. QED
      BY <1>3, <1>4, <2>2, <3>2, ErrorControlAssumption
  <2>4. ASSUME frames' # <<>> PROVE age' <= Period + frames'[1].age
    <3>1. frames # <<>> /\ 1 \in DOMAIN frames
      BY <1>2, <2>4 DEF MonitorInv, TypeOK
    <3>2. age <= Period + frames[1].age
      BY <2>1, <3>1 DEF MonitorInv, AgeBounded
    <3>3. frames'[1].age = frames[1].age + 1
      BY <1>2, <3>1
    <3>4. frames[1].age \in 0..MaxDelay
      BY <3>1, FrameAge DEF MonitorInv
    <3>5. QED
      BY <1>3, <1>4, <3>2, <3>3, <3>4, ErrorControlAssumption
  <2>5. QED
    BY <2>2, <2>3, <2>4
<1>9. DownSince'
  <2>1. up' => downFor' = 0
    BY <1>1 DEF MonitorInv, DownSince
  <2>2. ~up' => ~greeted' /\ timer' = Off
    BY <1>1 DEF MonitorInv, DownSince
  <2>3. ASSUME ~up', NEW i \in DOMAIN frames' PROVE frames'[i].age >= downFor'
    <3>1. i \in DOMAIN frames /\ frames'[i].age = frames[i].age + 1
      BY <1>2
    <3>2. frames[i].age >= downFor
      BY <1>1, <2>3, <3>1 DEF MonitorInv, DownSince
    <3>3. frames[i].age \in 0..MaxDelay
      BY <3>1, FrameAge DEF MonitorInv
    <3>4. QED
      BY <1>3, <1>5, <3>1, <3>2, <3>3, ErrorControlAssumption
  <2>4. ASSUME ~up', known' PROVE age' >= downFor' - MaxDelay
    <3>1. age >= downFor - MaxDelay
      BY <1>1, <2>4 DEF MonitorInv, DownSince
    <3>2. age' = age + 1 \/ age' = Timeout + 1
      BY <1>1, <1>4, <2>4
    <3>3. QED
      BY <1>3, <1>5, <3>1, <3>2, ErrorControlAssumption
  <2>5. QED
    BY <2>1, <2>2, <2>3, <2>4 DEF DownSince
<1>10. QED
  BY <1>7, <1>8, <1>9 DEF MonitorInv

-----------------------------------------------------------------------------

\* Every reachable state satisfies the inductive invariant.
LEMMA MonitorInvariant == Spec => []MonitorInv
<1>1. MonitorInv /\ [Next]_vars => MonitorInv'
  <2> SUFFICES ASSUME MonitorInv, [Next]_vars PROVE MonitorInv'
    OBVIOUS
  <2>1. CASE UNCHANGED vars
    BY <2>1 DEF MonitorInv, TypeOK, AgeBounded, DownSince, vars, nodeVars, monitorVars
  <2>2. QED
    BY <2>1, BootStep, OnNmtStep, HeartbeatStep, GuardStep, FailStep, RestartStep,
       OnFrameStep, TickStep DEF Next
<1>2. QED
  BY InitHolds, <1>1, PTL DEF Spec

\* Node and monitor keep to their types, and the counters to their bounds.
THEOREM TypeCorrect == Spec => []TypeOK
<1>1. MonitorInv => TypeOK
  BY DEF MonitorInv
<1>2. QED
  BY MonitorInvariant, <1>1, PTL

\* HeartbeatMonitor never times out a node that is up and has been heard since
\* it booted, if the timeout is at least a heartbeat period and a frame's delay.
THEOREM NoFalseTimeout == Spec => []LivingNotTimedOut
<1>1. MonitorInv => LivingNotTimedOut
  <2> SUFFICES ASSUME MonitorInv, up, greeted PROVE ~(age > Timeout)
    BY DEF LivingNotTimedOut, TimedOut
  <2>1. timer \in 0..Period /\ age \in Nat
    BY ErrorControlAssumption DEF MonitorInv, TypeOK, AgeBounded
  <2>2. CASE frames = <<>>
    BY <2>1, <2>2, ErrorControlAssumption DEF MonitorInv, AgeBounded
  <2>3. CASE frames # <<>>
    <3>1. 1 \in DOMAIN frames
      BY <2>3 DEF MonitorInv, TypeOK
    <3>2. frames[1].age \in 0..MaxDelay
      BY <3>1, FrameAge DEF MonitorInv
    <3>3. QED
      BY <2>1, <2>3, <3>2, ErrorControlAssumption DEF MonitorInv, AgeBounded
  <2>4. QED
    BY <2>2, <2>3
<1>2. QED
  BY MonitorInvariant, <1>1, PTL

\* HeartbeatMonitor holds no node alive that has been down for more than the
\* timeout and the longest delay of a frame.
THEOREM NoFalseLife == Spec => []DeadNotAlive
<1>1. MonitorInv => DeadNotAlive
  <2> SUFFICES ASSUME MonitorInv, downFor > Timeout + MaxDelay, known
               PROVE  ~(age <= Timeout)
    BY DEF DeadNotAlive, IsAlive
  <2>1. downFor \in Nat /\ age \in Nat /\ downFor # 0
    BY ErrorControlAssumption DEF MonitorInv, TypeOK
  <2>2. age >= downFor - MaxDelay
    BY <2>1 DEF MonitorInv, DownSince
  <2>3. QED
    BY <2>1, <2>2, ErrorControlAssumption
<1>2. QED
  BY MonitorInvariant, <1>1, PTL

-----------------------------------------------------------------------------
(* The toggle bit                                                          *)

\* A node leaves the initialisation by its boot-up only: Node::boot sends the
\* frame, and no command does before it.
THEOREM SilenceUntilBoot == Spec => SilentUntilBoot
<1> DEFINE Silent == nmt = "Initialising" /\ nmt' # nmt =>
                        /\ nmt' = "PreOperational"
                        /\ frames' # frames
                        /\ frames'[Len(frames')].kind = "bootup"
<1>1. ASSUME MonitorInv, Next PROVE Silent
  <2>1. CASE Boot
    <3> DEFINE f == Frame("bootup", "Initialising", FALSE)
    <3>1. frames' = Append(frames, f) /\ nmt' = Booted(nmt)
      BY <2>1 DEF Boot, Transmit
    <3>2. frames \in Seq(Frames) /\ f.kind = "bootup" /\ f \in Frames
      BY <1>1, ErrorControlAssumption DEF MonitorInv, TypeOK, Frame, Frames, NmtState
    <3> HIDE DEF f, Frames
    <3>3. Len(frames') = Len(frames) + 1 /\ frames'[Len(frames')] = f /\ frames' # frames
      BY <3>1, <3>2
    <3>4. QED
      BY <3>1, <3>2, <3>3 DEF Booted
  <2>2. CASE OnNmt
    <3>1. PICK command \in Sent :
             nmt' = IF command[2] = "other" THEN nmt ELSE Applied(nmt, command[1])
      BY <2>2 DEF OnNmt
    <3>2. nmt = "Initialising" => Applied(nmt, command[1]) = "Initialising"
      BY DEF Applied
    <3>3. QED
      BY <3>1, <3>2
  <2>3. CASE Restart
    BY <2>3 DEF Restart
  <2>4. CASE Heartbeat \/ NodeGuardResponse \/ Fail \/ OnFrame \/ Tick
    BY <2>4 DEF Heartbeat, NodeGuardResponse, Fail, OnFrame, Tick, nodeVars
  <2>5. QED
    BY <1>1, <2>1, <2>2, <2>3, <2>4 DEF Next
<1>2. MonitorInv /\ [Next]_vars => [Silent]_vars
  BY <1>1
<1>3. QED
  BY <1>2, MonitorInvariant, PTL DEF Spec, SilentUntilBoot

\* The bit expected after a frame, when `bit` was expected before it.
After(bit, frame) ==
    IF frame.kind = "guard" THEN ~frame.toggle
    ELSE IF frame.kind = "bootup" THEN FALSE ELSE bit

\* The bits the master will expect while it receives the frames under way: every
\* guarding response among them has the one of its turn.
Expects(q, bits) ==
    /\ bits \in [0..Len(q) -> BOOLEAN]
    /\ \A i \in 1..Len(q) :
          /\ bits[i] = After(bits[i - 1], q[i])
          /\ q[i].kind = "guard" => q[i].toggle = bits[i - 1]

\* The node's own bit is the one that will be expected when all have arrived.
ToggleInv ==
    \E bits \in [0..Len(frames) -> BOOLEAN] :
        /\ Expects(frames, bits)
        /\ bits[0] = expected
        /\ timer # Off => toggle = bits[Len(frames)]

\* A frame more under way.
LEMMA ExpectsMore ==
    ASSUME NEW q \in Seq(Frames), NEW bits, Expects(q, bits), NEW f \in Frames,
           f.kind = "guard" => f.toggle = bits[Len(q)]
    PROVE  \E more \in [0..Len(Append(q, f)) -> BOOLEAN] :
              /\ Expects(Append(q, f), more)
              /\ more[0] = bits[0]
              /\ more[Len(Append(q, f))] = After(bits[Len(q)], f)
<1> DEFINE n == Len(q)
           last == After(bits[n], f)
           more == [i \in 0..(n + 1) |-> IF i <= n THEN bits[i] ELSE last]
           r == Append(q, f)
<1>1. f.toggle \in BOOLEAN /\ f.kind \in {"bootup", "heartbeat", "guard"}
  BY DEF Frames
<1> HIDE DEF Frames
<1>2. n \in Nat /\ Len(r) = n + 1 /\ r[n + 1] = f /\ \A i \in 1..n : r[i] = q[i]
  OBVIOUS
<1>3. \A i \in 0..n : bits[i] \in BOOLEAN
  BY DEF Expects
<1>4. last \in BOOLEAN
  <2>1. bits[n] \in BOOLEAN
    BY <1>2, <1>3
  <2>2. (~f.toggle) \in BOOLEAN
    OBVIOUS
  <2>3. QED
    BY <2>1, <2>2, Zenon DEF After
<1> HIDE DEF n, last, r
<1>5. more \in [0..(n + 1) -> BOOLEAN]
  BY <1>3, <1>4
<1>6. more[n + 1] = last /\ \A i \in 0..n : more[i] = bits[i]
  BY <1>2
<1> HIDE DEF more
<1>7. ASSUME NEW i \in 1..(n + 1)
      PROVE  /\ more[i] = After(more[i - 1], r[i])
             /\ r[i].kind = "guard" => r[i].toggle = more[i - 1]
  <2>1. CASE i = n + 1
    <3>1. i - 1 = n /\ more[i - 1] = bits[n] /\ r[i] = f
      BY <1>2, <1>6, <2>1
    <3>2. f.kind = "guard" => f.toggle = bits[n]
      BY DEF n
    <3>3. more[i] = After(bits[n], f)
      BY <1>6, <2>1 DEF last
    <3>4. QED
      BY <3>1, <3>2, <3>3
  <2>2. CASE i # n + 1
    <3>1. i \in 1..n /\ i - 1 \in 0..n /\ i \in 0..n
      BY <1>2, <2>2
    <3>2. r[i] = q[i] /\ more[i] = bits[i] /\ more[i - 1] = bits[i - 1]
      BY <1>2, <1>6, <3>1
    <3>3. /\ bits[i] = After(bits[i - 1], q[i])
          /\ q[i].kind = "guard" => q[i].toggle = bits[i - 1]
      BY <3>1 DEF Expects, n
    <3>4. QED
      BY <3>2, <3>3
  <2>3. QED
    BY <2>1, <2>2
<1>8. Expects(r, more)
  BY <1>2, <1>5, <1>7 DEF Expects
<1>9. more \in [0..Len(r) -> BOOLEAN] /\ more[0] = bits[0] /\ more[Len(r)] = last
  BY <1>2, <1>5, <1>6
<1>10. QED
  BY <1>8, <1>9 DEF r, last, n

\* The oldest has arrived.
LEMMA ExpectsRest ==
    ASSUME NEW q \in Seq(Frames), q # <<>>, NEW bits, Expects(q, bits)
    PROVE  \E rest \in [0..Len(Tail(q)) -> BOOLEAN] :
              /\ Expects(Tail(q), rest)
              /\ rest[0] = After(bits[0], Head(q))
              /\ rest[Len(Tail(q))] = bits[Len(q)]
<1> DEFINE n == Len(q) - 1
           rest == [i \in 0..n |-> bits[i + 1]]
           r == Tail(q)
<1> HIDE DEF Frames
<1>1. n \in Nat /\ Len(r) = n /\ Len(q) = n + 1 /\ Head(q) = q[1]
      /\ \A i \in 1..n : r[i] = q[i + 1]
  OBVIOUS
<1>2. \A i \in 0..n : bits[i + 1] \in BOOLEAN
  BY <1>1 DEF Expects
<1> HIDE DEF n, r
<1>3. rest \in [0..n -> BOOLEAN]
  BY <1>2
<1>4. \A i \in 0..n : rest[i] = bits[i + 1]
  OBVIOUS
<1> HIDE DEF rest
<1>5. ASSUME NEW i \in 1..n
      PROVE  /\ rest[i] = After(rest[i - 1], r[i])
             /\ r[i].kind = "guard" => r[i].toggle = rest[i - 1]
  <2>1. i - 1 \in 0..n /\ i \in 0..n /\ i + 1 \in 1..Len(q) /\ (i - 1) + 1 = i /\ (i + 1) - 1 = i
    BY <1>1
  <2>2. r[i] = q[i + 1] /\ rest[i] = bits[i + 1] /\ rest[i - 1] = bits[i]
    BY <1>1, <1>4, <2>1
  <2>3. /\ bits[i + 1] = After(bits[(i + 1) - 1], q[i + 1])
        /\ q[i + 1].kind = "guard" => q[i + 1].toggle = bits[(i + 1) - 1]
    BY <2>1 DEF Expects
  <2>4. QED
    BY <2>1, <2>2, <2>3
<1>6. Expects(r, rest)
  BY <1>1, <1>3, <1>5 DEF Expects
<1>7. rest[0] = After(bits[0], Head(q))
  <2>1. 1 \in 1..Len(q) /\ 0 \in 0..n /\ 1 - 1 = 0 /\ 0 + 1 = 1
    BY <1>1
  <2>2. bits[1] = After(bits[1 - 1], q[1])
    BY <2>1 DEF Expects
  <2>3. QED
    BY <1>1, <1>4, <2>1, <2>2
<1>8. rest \in [0..Len(r) -> BOOLEAN] /\ rest[Len(r)] = bits[Len(q)]
  BY <1>1, <1>3, <1>4
<1>9. QED
  BY <1>6, <1>7, <1>8 DEF r

\* The frames that time passes over keep their kind and bit.
LEMMA ExpectsSame ==
    ASSUME NEW q \in Seq(Frames), NEW r, Len(r) = Len(q), NEW bits, Expects(q, bits),
           \A i \in 1..Len(q) : r[i].kind = q[i].kind /\ r[i].toggle = q[i].toggle
    PROVE  Expects(r, bits)
BY DEF Expects, After

LEMMA ToggleStep == MonitorInv /\ ToggleInv /\ [Next]_vars => ToggleInv'
<1> SUFFICES ASSUME MonitorInv, ToggleInv, [Next]_vars PROVE ToggleInv'
  OBVIOUS
<1>1. PICK bits \in [0..Len(frames) -> BOOLEAN] :
          /\ Expects(frames, bits)
          /\ bits[0] = expected
          /\ timer # Off => toggle = bits[Len(frames)]
  BY DEF ToggleInv
<1>2. frames \in Seq(Frames) /\ toggle \in BOOLEAN
  BY DEF MonitorInv, TypeOK
<1>3. CASE UNCHANGED <<frames, expected>> /\ (timer' # Off => UNCHANGED <<timer, toggle>>)
  BY <1>1, <1>3 DEF ToggleInv
<1>4. ASSUME NEW f \in Frames, frames' = Append(frames, f), expected' = expected,
             f.kind = "guard" => f.toggle = bits[Len(frames)],
             toggle' = After(bits[Len(frames)], f)
      PROVE  ToggleInv'
  <2>1. PICK more \in [0..Len(Append(frames, f)) -> BOOLEAN] :
            /\ Expects(Append(frames, f), more)
            /\ more[0] = bits[0]
            /\ more[Len(Append(frames, f))] = After(bits[Len(frames)], f)
    BY <1>1, <1>2, <1>4, ExpectsMore
  <2>2. QED
    BY <1>1, <1>4, <2>1 DEF ToggleInv
<1>5. CASE Boot
  <2> DEFINE f == Frame("bootup", "Initialising", FALSE)
  <2>1. f \in Frames /\ f.kind = "bootup"
    BY ErrorControlAssumption DEF Frame, Frames, NmtState
  <2>2. frames' = Append(frames, f) /\ expected' = expected /\ toggle' = FALSE
    BY <1>5 DEF Boot, Transmit, monitorVars
  <2>3. QED
    BY <1>4, <2>1, <2>2 DEF After
<1>6. CASE Heartbeat
  <2> DEFINE f == Frame("heartbeat", nmt, FALSE)
  <2>1. f \in Frames /\ f.kind = "heartbeat"
    BY ErrorControlAssumption DEF MonitorInv, TypeOK, Frame, Frames
  <2>2. frames' = Append(frames, f) /\ expected' = expected /\ toggle' = toggle
    BY <1>6 DEF Heartbeat, Transmit, monitorVars
  <2>3. toggle = bits[Len(frames)]
    BY <1>1, <1>6 DEF Heartbeat, Off
  <2>4. QED
    BY <1>4, <2>1, <2>2, <2>3 DEF After
<1>7. CASE NodeGuardResponse
  <2> DEFINE f == Frame("guard", nmt, toggle)
  <2>1. f \in Frames /\ f.kind = "guard" /\ f.toggle = toggle
    BY <1>2, ErrorControlAssumption DEF MonitorInv, TypeOK, Frame, Frames
  <2>2. frames' = Append(frames, f) /\ expected' = expected /\ toggle' = ~toggle
    BY <1>7 DEF NodeGuardResponse, Transmit, monitorVars
  <2>3. toggle = bits[Len(frames)]
    BY <1>1, <1>7 DEF NodeGuardResponse
  <2>4. QED
    BY <1>4, <2>1, <2>2, <2>3 DEF After
<1>8. CASE OnFrame
  <2> DEFINE f == Head(frames)
  <2>1. /\ frames # <<>> /\ frames' = Tail(frames)
        /\ timer' = timer /\ toggle' = toggle
        /\ expected' = CASE f.kind = "guard"     -> ~f.toggle
                         [] f.kind = "bootup"    -> FALSE
                         [] f.kind = "heartbeat" -> expected
    BY <1>8 DEF OnFrame, nodeVars
  <2>2. f \in Frames
    BY <1>2, <2>1
  <2>3. f.kind \in {"bootup", "heartbeat", "guard"}
    BY <2>2 DEF Frames
  <2> HIDE DEF f
  <2>4. expected' = After(expected, f)
    BY <2>1, <2>3 DEF After
  <2>5. PICK rest \in [0..Len(Tail(frames)) -> BOOLEAN] :
            /\ Expects(Tail(frames), rest)
            /\ rest[0] = After(bits[0], Head(frames))
            /\ rest[Len(Tail(frames))] = bits[Len(frames)]
    BY <1>1, <1>2, <2>1, ExpectsRest
  <2>6. QED
    BY <1>1, <2>1, <2>4, <2>5 DEF ToggleInv, f
<1>9. CASE Tick
  <2>1. /\ frames' = [i \in DOMAIN frames |-> [frames[i] EXCEPT !.age = @ + 1]]
        /\ timer # 0 /\ timer' = IF timer = Off THEN Off ELSE timer - 1
        /\ UNCHANGED <<toggle, expected>>
    BY <1>9 DEF Tick
  <2>2. DOMAIN frames = 1..Len(frames) /\ Len(frames) \in Nat
    BY <1>2
  <2>3. frames' = [i \in 1..Len(frames) |-> [frames[i] EXCEPT !.age = @ + 1]]
    BY <2>1, <2>2
  <2>4. Len(frames') = Len(frames)
    BY <2>2, <2>3
  <2>5. ASSUME NEW i \in 1..Len(frames)
        PROVE  frames'[i].kind = frames[i].kind /\ frames'[i].toggle = frames[i].toggle
    <3>1. frames[i] \in Frames
      BY <1>2
    <3>2. frames'[i] = [frames[i] EXCEPT !.age = @ + 1]
      BY <2>3
    <3>3. QED
      BY <3>1, <3>2 DEF Frames
  <2>6. Expects(frames', bits)
    BY <1>1, <1>2, <2>4, <2>5, ExpectsSame
  <2>7. timer' # Off => timer # Off
    BY <2>1
  <2>8. QED
    BY <1>1, <2>1, <2>4, <2>6, <2>7 DEF ToggleInv
<1>10. CASE Restart
  <2>1. timer = Off
    BY <1>10 DEF Restart, MonitorInv, DownSince
  <2>2. QED
    BY <1>3, <1>10, <2>1 DEF Restart, monitorVars
<1>11. CASE OnNmt
  BY <1>3, <1>11 DEF OnNmt, monitorVars
<1>12. CASE Fail
  BY <1>3, <1>12 DEF Fail, monitorVars
<1>13. CASE UNCHANGED vars
  BY <1>3, <1>13 DEF vars, nodeVars, monitorVars
<1>14. QED
  BY <1>5, <1>6, <1>7, <1>8, <1>9, <1>10, <1>11, <1>12, <1>13 DEF Next

\* Through resets, failures and restarts, and however late its frames are, each
\* guarding response of a node has the bit the master expects
\* (Node::node_guard_response, with the toggle that Node::boot clears).
THEOREM ToggleAlternates == Spec => GuardToggleExpected
<1>1. Init => ToggleInv
  <2> SUFFICES ASSUME Init PROVE ToggleInv
    OBVIOUS
  <2> DEFINE bits == [i \in 0..0 |-> FALSE]
  <2>1. Len(frames) = 0 /\ timer = Off /\ expected = FALSE
    BY DEF Init
  <2>2. bits \in [0..0 -> BOOLEAN] /\ bits[0] = FALSE
    OBVIOUS
  <2> HIDE DEF bits
  <2>3. Expects(frames, bits)
    BY <2>1, <2>2 DEF Expects
  <2>4. QED
    BY <2>1, <2>2, <2>3 DEF ToggleInv
<1>2. Spec => []ToggleInv
  BY <1>1, ToggleStep, MonitorInvariant, PTL DEF Spec
<1> DEFINE Expected == \A f \in {frames[i] : i \in DOMAIN frames} :
                          f = Head(frames) /\ frames' = Tail(frames) /\ f.kind = "guard"
                              => f.toggle = expected
<1>3. ASSUME MonitorInv, ToggleInv PROVE Expected
  <2>1. PICK bits \in [0..Len(frames) -> BOOLEAN] :
            Expects(frames, bits) /\ bits[0] = expected
    BY <1>3 DEF ToggleInv
  <2>2. SUFFICES ASSUME frames # <<>>, Head(frames).kind = "guard"
                 PROVE  Head(frames).toggle = expected
    BY <1>3 DEF MonitorInv, TypeOK
  <2>3. 1 \in 1..Len(frames) /\ Head(frames) = frames[1] /\ 1 - 1 = 0
    BY <1>3, <2>2 DEF MonitorInv, TypeOK
  <2>4. frames[1].kind = "guard" => frames[1].toggle = bits[1 - 1]
    BY <2>1, <2>3 DEF Expects
  <2>5. QED
    BY <2>1, <2>2, <2>3, <2>4
<1>4. MonitorInv /\ ToggleInv => [Expected]_vars
  BY <1>3
<1>5. QED
  BY <1>2, <1>4, MonitorInvariant, PTL DEF GuardToggleExpected
=============================================================================
