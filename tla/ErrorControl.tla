---------------------------- MODULE ErrorControl -----------------------------
(***************************************************************************)
(* Error control between one node and the host: the node's NMT state, its  *)
(* boot-up, heartbeat and guarding frames (core/src/node.rs), and the      *)
(* host's HeartbeatMonitor (host/src/nmt.rs), in discrete time.  The node  *)
(* may be reset by the NMT master, and may fail and start again.           *)
(***************************************************************************)
EXTENDS Nmt, Integers, Sequences

\* The node named by an NMT command.
Targets == {"this", "broadcast", "other"}

CONSTANTS
    Period,      \* heartbeat producer time (object 0x1017)
    MaxDelay,    \* the longest a frame is under way
    Timeout,     \* HeartbeatMonitor.timeout
    Sent,        \* the NMT commands the master sends, with their targets
    MaxEvents    \* commands, polls and failures per unit of time at most

ASSUME ErrorControlAssumption ==
    /\ Period \in Nat \ {0}
    /\ MaxDelay \in Nat
    /\ Timeout \in Nat
    /\ Timeout >= Period + MaxDelay
    /\ Sent \subseteq NmtCommand \X Targets
    /\ MaxEvents \in Nat

VARIABLES
    up,       \* whether the node has power
    nmt,      \* Node.nmt
    toggle,   \* Node.guard_toggle
    timer,    \* time to the next heartbeat, or Off before the first boot
    frames,   \* frames of the node under way (COB-ID 0x700 + node), with their age
    events,   \* history: commands, polls and failures since the last tick
    known,    \* whether the monitor has heard the node
    state,    \* NodeHealth.state
    age,      \* the time since NodeHealth.last_seen, counted to Timeout + 1
    expected, \* the toggle bit the guarding master expects next
    greeted,  \* history: a frame has arrived since the node started and booted
    downFor   \* history: how long the node has been down

nodeVars == <<up, nmt, toggle, timer>>
monitorVars == <<known, state, age, expected>>
vars == <<nodeVars, frames, monitorVars, events, greeted, downFor>>

Off == -1

Frame(kind, reported, bit) ==
    [kind |-> kind, state |-> reported, toggle |-> bit, age |-> 0]

Frames == [kind : {"bootup", "heartbeat", "guard"}, state : NmtState,
           toggle : BOOLEAN, age : 0..MaxDelay]

TypeOK ==
    /\ up \in BOOLEAN
    /\ nmt \in NmtState
    /\ toggle \in BOOLEAN
    /\ timer \in {Off} \cup 0..Period
    /\ frames \in Seq(Frames)
    /\ events \in 0..MaxEvents
    /\ known \in BOOLEAN
    /\ state \in NmtState
    /\ age \in 0..(Timeout + 1)
    /\ expected \in BOOLEAN
    /\ greeted \in BOOLEAN
    /\ downFor \in 0..(Timeout + MaxDelay + 1)

Init ==
    /\ up = TRUE
    /\ nmt = "Initialising"
    /\ toggle = FALSE
    /\ timer = Off
    /\ frames = <<>>
    /\ events = 0
    /\ known = FALSE
    /\ state = "Initialising"
    /\ age = 0
    /\ expected = FALSE
    /\ greeted = FALSE
    /\ downFor = 0

-----------------------------------------------------------------------------
(* The node                                                                *)

Event == events < MaxEvents /\ events' = events + 1

Transmit(frame) == frames' = Append(frames, frame)

\* Fault: the toggle bit is not cleared.
BootKeepingToggle ==
    /\ up
    /\ nmt = "Initialising"
    /\ nmt' = Booted(nmt)
    /\ timer' = Period
    /\ Transmit(Frame("bootup", "Initialising", FALSE))
    /\ UNCHANGED <<up, toggle, events, monitorVars, greeted, downFor>>
\* Node::boot, called when the application sees the node initialising; the
\* application restarts its heartbeat timer.
Boot ==
    /\ up
    /\ nmt = "Initialising"
    /\ nmt' = Booted(nmt)
    /\ toggle' = FALSE
    /\ timer' = Period
    /\ Transmit(Frame("bootup", "Initialising", FALSE))
    /\ UNCHANGED <<up, events, monitorVars, greeted, downFor>>

\* Node::on_nmt, for a command the master may send at any time.
OnNmt ==
    /\ up
    /\ Event
    /\ \E command \in Sent :
          nmt' = IF command[2] = "other" THEN nmt ELSE Applied(nmt, command[1])
    /\ UNCHANGED <<up, toggle, timer, frames, monitorVars, greeted, downFor>>

\* Node::heartbeat, on the application's heartbeat timer.
Heartbeat ==
    /\ up
    /\ timer = 0
    /\ timer' = Period
    /\ Transmit(Frame("heartbeat", nmt, FALSE))
    /\ UNCHANGED <<up, nmt, toggle, events, monitorVars, greeted, downFor>>

\* Node::node_guard_response, when the master polls the node.
NodeGuardResponse ==
    /\ up
    /\ timer # Off
    /\ Event
    /\ Transmit(Frame("guard", nmt, toggle))
    /\ toggle' = ~toggle
    /\ UNCHANGED <<up, nmt, timer, monitorVars, greeted, downFor>>

Fail ==
    /\ up
    /\ Event
    /\ up' = FALSE
    /\ timer' = Off
    /\ greeted' = FALSE
    /\ UNCHANGED <<nmt, toggle, frames, monitorVars, downFor>>

\* Node::new.
Restart ==
    /\ ~up
    /\ up' = TRUE
    /\ nmt' = "Initialising"
    /\ toggle' = FALSE
    /\ downFor' = 0
    /\ UNCHANGED <<timer, frames, monitorVars, events, greeted>>

-----------------------------------------------------------------------------
(* The host                                                                *)

\* HeartbeatMonitor::on_frame.  A guarding response passes for a heartbeat:
\* decode_heartbeat ignores its toggle bit.
OnFrame ==
    /\ frames # <<>>
    /\ LET frame == Head(frames) IN
       /\ frames' = Tail(frames)
       /\ known' = TRUE
       /\ state' = frame.state
       /\ age' = 0
       /\ expected' = CASE frame.kind = "guard"     -> ~frame.toggle
                        [] frame.kind = "bootup"    -> FALSE
                        [] frame.kind = "heartbeat" -> expected
       /\ greeted' = (timer # Off)
    /\ UNCHANGED <<nodeVars, events, downFor>>

\* HeartbeatMonitor::is_alive and HeartbeatMonitor::timed_out.  Faults: a node
\* once heard stays alive; the limit is off by one; the operands of the
\* saturating duration are swapped.
AliveForever == known
IsAlive == known /\ age <= Timeout
TimedOutTooEarly == known /\ age >= Timeout
TimedOutSwapped == known /\ 0 > Timeout
TimedOut == known /\ age > Timeout

-----------------------------------------------------------------------------
(* Time                                                                    *)

Capped(n, max) == IF n < max THEN n + 1 ELSE max

\* A heartbeat that is due is sent, and a frame that has been under way for
\* MaxDelay arrives, before time goes on.
Tick ==
    /\ timer # 0
    /\ \A i \in DOMAIN frames : frames[i].age < MaxDelay
    /\ timer' = IF timer = Off THEN Off ELSE timer - 1
    /\ frames' = [i \in DOMAIN frames |-> [frames[i] EXCEPT !.age = @ + 1]]
    /\ age' = IF known THEN Capped(age, Timeout + 1) ELSE age
    /\ downFor' = IF up THEN downFor ELSE Capped(downFor, Timeout + MaxDelay + 1)
    /\ events' = 0
    /\ UNCHANGED <<up, nmt, toggle, known, state, expected, greeted>>

Next ==
    \/ Boot \/ OnNmt \/ Heartbeat \/ NodeGuardResponse \/ Fail \/ Restart
    \/ OnFrame \/ Tick

Spec == Init /\ [][Next]_vars

\* The application boots its node and serves its timer, frames arrive, and
\* time passes.
FairSpec == Spec /\ WF_vars(Boot) /\ WF_vars(Heartbeat) /\ WF_vars(OnFrame)
                 /\ WF_vars(Tick)

-----------------------------------------------------------------------------
(* Properties                                                              *)

\* A node that has been heard since it started and booted is never taken for silent, in
\* whatever NMT state and through whatever resets, when the timeout covers a
\* period and a delay (Node::heartbeat against HeartbeatMonitor::timed_out).
LivingNotTimedOut == up /\ greeted => ~TimedOut

\* A node that failed is no longer taken for alive once the timeout and the
\* longest delay have passed.
DeadNotAlive == downFor > Timeout + MaxDelay => ~IsAlive

\* Every guarding response carries the toggle bit the master expects: it
\* alternates, and starts clear after a boot-up.
GuardToggleExpected ==
    [][\A f \in {frames[i] : i \in DOMAIN frames} :
          f = Head(frames) /\ frames' = Tail(frames) /\ f.kind = "guard"
              => f.toggle = expected]_vars

\* A node that is not booted stays out of the network: between a reset, or a
\* start, and the next boot-up frame it reports no state but Initialising,
\* whatever commands it receives.
SilentUntilBoot ==
    [][nmt = "Initialising" /\ nmt' # nmt =>
          /\ nmt' = "PreOperational"
          /\ frames' # frames
          /\ frames'[Len(frames')].kind = "bootup"]_vars

\* The monitor comes to the truth about a node that stays as it is: it takes one
\* that stays up, and in one state, for alive in that state, and lists one that
\* stays down as timed out, if it was ever heard.
MonitorSettles ==
    /\ \A s \in NmtState \ {"Initialising"} :
          <>[](up /\ nmt = s) => <>[](IsAlive /\ state = s)
    /\ <>[]~up => <>[](known => TimedOut)
=============================================================================
