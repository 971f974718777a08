------------------------------- MODULE JogMode -------------------------------
(***************************************************************************)
(* The jog mode manager (elfin3_jog/src/jog_mode_manager.cpp): which of    *)
(* two controllers, MoveIt's or the jog controller, has the arm.  All its  *)
(* subscriptions, timers and services share one mutually exclusive         *)
(* callback group: while enter, exit or reset waits for another node's     *)
(* service, for up to two seconds, nothing else of the manager runs, and   *)
(* its topics keep only the latest message.                                *)
(*                                                                         *)
(* Around it: the keyboard node, the two controllers and the controller    *)
(* manager that switches them, which serves the requests in their order    *)
(* even when the manager no longer waits for the answer, and the           *)
(* trajectory stream of the CAN FD system with its fault topic.            *)
(***************************************************************************)
EXTENDS Integers, Sequences

CONSTANTS
    Timeout,     \* ticks of silence the watchdog allows (command_timeout_sec)
    MaxRequests, \* bound: switch requests the controller manager has not served
    CanFdSafety  \* canfd_safety_enabled

ASSUME JogModeAssumption ==
    /\ Timeout \in Nat
    /\ MaxRequests \in Nat \ {0}
    /\ CanFdSafety \in BOOLEAN

VARIABLES
    mode,      \* mode_
    call,      \* the service call the running handler waits for
    released,  \* jog_keys_released_
    age,       \* ticks since last_jog_command_ns_, at most Timeout + 1
    hold,      \* hold_requested_
    trajFault, \* trajectory_fault_active_
    inbox,     \* the message each subscription holds
    requests,  \* controllers to activate, in the order of the requests
    active,    \* the controller that has the arm
    jog,       \* what the jog controller does while it has it
    stream,    \* the trajectory stream of the CAN FD system
    teleop     \* the keyboard node

manager == <<mode, call, released, age, hold, trajFault>>
controllers == <<requests, active, jog>>
vars == <<manager, inbox, controllers, stream, teleop>>

Modes == {"MOVEIT", "SWITCHING_TO_JOG", "JOG_IDLE", "JOG_ACTIVE", "STOPPING", "FAULT"}
JogModes == {"JOG_IDLE", "JOG_ACTIVE"}
Switching == {"enter_switch", "exit_switch"}
Calls == {"none", "enter_ready", "exit_ready", "reset_trajectory", "reset_controller"}
            \cup Switching
Targets == {"moveit", "jog"}
Commands == {"released", "pressed", "unsafe"}
Late == Timeout + 1

TypeOK ==
    /\ mode \in Modes /\ call \in Calls
    /\ released \in BOOLEAN /\ hold \in BOOLEAN /\ trajFault \in BOOLEAN
    /\ age \in 0 .. Late
    /\ inbox \in [command : Commands \cup {"none"}, fault : BOOLEAN,
                  trajectory : {"none", "FAULT", "CLEAR"}]
    /\ requests \in Seq(Targets) /\ Len(requests) <= MaxRequests
    /\ active \in Targets \cup {"neither"}
    /\ jog \in {"hold", "move", "fault", "reported"}
    /\ stream \in [faulted : BOOLEAN, published : BOOLEAN, holding : BOOLEAN]
    /\ teleop \in [esc : BOOLEAN, key : BOOLEAN, alive : BOOLEAN]

Init ==
    /\ mode = "MOVEIT" /\ call = "none"
    /\ released = FALSE /\ hold = FALSE /\ trajFault = FALSE
    /\ age = Late
    /\ inbox = [command |-> "none", fault |-> FALSE, trajectory |-> "none"]
    /\ requests = <<>> /\ active = "moveit" /\ jog = "hold"
    /\ stream = [faulted |-> FALSE, published |-> FALSE, holding |-> FALSE]
    /\ teleop = [esc |-> FALSE, key |-> FALSE, alive |-> TRUE]

-----------------------------------------------------------------------------
(* The keyboard node and the jog controller.                               *)

Command(t) ==
    CASE t.esc -> "unsafe" [] ~t.esc /\ t.key -> "pressed" [] OTHER -> "released"

\* The jog controller acts on a command, unless it has no arm or is in fault.
Obey(command) ==
    IF active # "jog" \/ jog \in {"fault", "reported"} THEN jog
    ELSE CASE command = "unsafe" -> "fault"
           [] command = "pressed" -> "move"
           [] command = "released" -> "hold"

Publish(t) ==
    /\ inbox' = [inbox EXCEPT !.command = Command(t)]
    /\ jog' = Obey(Command(t))

\* An edge of the escape key also forgets the jog key that is held.
HandleKey ==
    /\ teleop.alive
    /\ \E t \in { [teleop EXCEPT !.esc = ~ @, !.key = FALSE], [teleop EXCEPT !.key = ~ @] } :
          /\ t.key => ~ t.esc
          /\ teleop' = t
          /\ Publish(t)
    /\ UNCHANGED <<manager, requests, active, stream>>

TeleopDies ==
    /\ teleop.alive
    /\ teleop' = [teleop EXCEPT !.alive = FALSE]
    /\ UNCHANGED <<manager, inbox, controllers, stream>>

\* A following error, an invalid command or the controller's own time-out.
JogFails ==
    /\ active = "jog" /\ jog \in {"hold", "move"}
    /\ jog' = "fault"
    /\ UNCHANGED <<manager, inbox, requests, active, stream, teleop>>

ReportJogFault ==
    /\ active = "jog" /\ jog = "fault"
    /\ jog' = "reported"
    /\ inbox' = [inbox EXCEPT !.fault = TRUE]
    /\ UNCHANGED <<manager, requests, active, stream, teleop>>

-----------------------------------------------------------------------------
(* The trajectory stream and its fault topic.                              *)

StreamFaults ==
    /\ CanFdSafety /\ ~ stream.faulted
    /\ stream' = [stream EXCEPT !.faulted = TRUE]
    /\ UNCHANGED <<manager, inbox, controllers, teleop>>

\* An operator's reset of the stream, or one whose caller gave up waiting.
StreamIsReset ==
    /\ stream.faulted
    /\ stream' = [stream EXCEPT !.faulted = FALSE]
    /\ UNCHANGED <<manager, inbox, controllers, teleop>>

HoldServed ==
    /\ stream.holding
    /\ \E accepted \in BOOLEAN :
          stream' = [stream EXCEPT !.holding = FALSE, !.faulted = @ \/ accepted]
    /\ UNCHANGED <<manager, inbox, controllers, teleop>>

PublishTrajectoryFault ==
    /\ stream.faulted # stream.published
    /\ stream' = [stream EXCEPT !.published = stream.faulted]
    /\ inbox' = [inbox EXCEPT !.trajectory = IF stream.faulted THEN "FAULT" ELSE "CLEAR"]
    /\ UNCHANGED <<manager, controllers, teleop>>

-----------------------------------------------------------------------------
(* The manager's subscriptions and its watchdog.                           *)

\* Mutant: a fault in JOG_IDLE is taken for harmless.
TriggerFaultWhenActive ==
    IF mode = "JOG_ACTIVE" /\ ~ hold
    THEN /\ mode' = "FAULT" /\ hold' = TRUE
         /\ stream' = [stream EXCEPT !.holding = CanFdSafety]
    ELSE UNCHANGED <<mode, hold, stream>>

TriggerFault ==
    IF mode \in JogModes /\ ~ hold
    THEN /\ mode' = "FAULT" /\ hold' = TRUE
         /\ stream' = [stream EXCEPT !.holding = CanFdSafety]
    ELSE UNCHANGED <<mode, hold, stream>>

UpdateJogActivity ==
    /\ call = "none" /\ inbox.command # "none"
    /\ inbox' = [inbox EXCEPT !.command = "none"]
    /\ age' = 0
    /\ released' = (inbox.command = "released")
    /\ \/ inbox.command = "unsafe" /\ TriggerFault
       \/ /\ inbox.command # "unsafe"
          /\ mode' = IF mode \notin JogModes THEN mode
                     ELSE IF inbox.command = "pressed" THEN "JOG_ACTIVE" ELSE "JOG_IDLE"
          /\ UNCHANGED <<hold, stream>>
    /\ UNCHANGED <<call, trajFault, controllers, teleop>>

ReceiveFault ==
    /\ call = "none" /\ inbox.fault
    /\ inbox' = [inbox EXCEPT !.fault = FALSE]
    /\ TriggerFault
    /\ UNCHANGED <<call, released, age, trajFault, controllers, teleop>>

UpdateTrajectoryFault ==
    /\ call = "none" /\ inbox.trajectory # "none"
    /\ inbox' = [inbox EXCEPT !.trajectory = "none"]
    /\ trajFault' = (inbox.trajectory = "FAULT")
    /\ \/ inbox.trajectory = "FAULT" /\ TriggerFault
       \/ inbox.trajectory = "CLEAR" /\ UNCHANGED <<mode, hold, stream>>
    /\ UNCHANGED <<call, released, age, controllers, teleop>>

CheckCommandWatchdog ==
    /\ call = "none" /\ mode \in JogModes /\ age = Late
    /\ TriggerFault
    /\ UNCHANGED <<call, released, age, trajFault, inbox, controllers, teleop>>

\* A tick is long against a publication (10 ms) and a callback: a keyboard
\* node that lives has published, and a manager that waits for nothing has
\* nothing left to do.
Tick ==
    /\ call = "none" => inbox.command = "none" /\ ~ (mode \in JogModes /\ age = Late)
    /\ age' = IF age = Late THEN Late ELSE age + 1
    /\ IF teleop.alive THEN Publish(teleop) ELSE UNCHANGED <<inbox, jog>>
    /\ UNCHANGED <<mode, call, released, hold, trajFault, requests, active, stream, teleop>>

-----------------------------------------------------------------------------
(* The services enter, exit and reset, and the calls they wait for.        *)

FreshReleasedCommand == released /\ age <= Timeout

EnterJog ==
    /\ call = "none" /\ mode = "MOVEIT"
    /\ ~ trajFault /\ FreshReleasedCommand
    /\ call' = "enter_ready"
    /\ UNCHANGED <<mode, released, age, hold, trajFault, inbox, controllers, stream, teleop>>

ExitJog ==
    /\ call = "none" /\ mode = "JOG_IDLE"
    /\ call' = "exit_ready"
    /\ UNCHANGED <<mode, released, age, hold, trajFault, inbox, controllers, stream, teleop>>

\* is_ready says yes: publish the mode and ask for the switch.
SupervisorReady ==
    /\ Len(requests) < MaxRequests
    /\ \/ /\ call = "enter_ready" /\ call' = "enter_switch"
          /\ mode' = "SWITCHING_TO_JOG" /\ requests' = Append(requests, "jog")
       \/ /\ call = "exit_ready" /\ call' = "exit_switch"
          /\ mode' = "STOPPING" /\ requests' = Append(requests, "moveit")
    /\ UNCHANGED <<released, age, hold, trajFault, inbox, active, jog, stream, teleop>>

\* is_ready says no, has no server, or does not answer.
SupervisorNotReady ==
    /\ call \in {"enter_ready", "exit_ready"}
    /\ call' = "none"
    /\ UNCHANGED <<mode, released, age, hold, trajFault, inbox, controllers, stream, teleop>>

\* The handler of enter or exit learns how its switch went.
SwitchDone(ok) ==
    /\ call' = "none"
    /\ mode' = CASE ~ ok -> "FAULT"
                 [] ok /\ call = "enter_switch" -> "JOG_IDLE"
                 [] ok /\ call = "exit_switch" -> "MOVEIT"
    /\ hold' = IF ok /\ call = "enter_switch" THEN FALSE ELSE hold

\* A STRICT switch is made, is refused, or fails half way.
Switched(target, ok) ==
    LET other == IF target = "jog" THEN "moveit" ELSE "jog" IN
    \/ ok /\ active = other /\ active' = target /\ jog' = "hold"
    \/ ~ ok /\ UNCHANGED <<active, jog>>
    \/ ~ ok /\ active = other /\ active' = "neither" /\ jog' = "hold"

\* The controller manager serves the oldest request.  Only the youngest can
\* be one somebody still waits for.
ServeSwitch ==
    /\ requests # <<>>
    /\ requests' = Tail(requests)
    /\ \E ok \in BOOLEAN :
          /\ Switched(Head(requests), ok)
          /\ IF call \in Switching /\ Len(requests) = 1
             THEN SwitchDone(ok)
             ELSE UNCHANGED <<call, mode, hold>>
    /\ UNCHANGED <<released, age, trajFault, inbox, stream, teleop>>

\* Mutant: a switch that is not answered leaves everything as it was.
SwitchTimesOutUnchanged ==
    /\ call \in Switching
    /\ call' = "none"
    /\ mode' = IF call = "enter_switch" THEN "MOVEIT" ELSE "JOG_IDLE"
    /\ UNCHANGED <<released, age, hold, trajFault, inbox, controllers, stream, teleop>>

SwitchTimesOut ==
    /\ call \in Switching
    /\ SwitchDone(FALSE)
    /\ UNCHANGED <<released, age, trajFault, inbox, controllers, stream, teleop>>

ResetJog ==
    /\ call = "none" /\ mode = "FAULT" /\ FreshReleasedCommand
    /\ call' = IF CanFdSafety THEN "reset_trajectory" ELSE "reset_controller"
    /\ UNCHANGED <<mode, released, age, hold, trajFault, inbox, controllers, stream, teleop>>

\* reset_trajectory works on a stream that is in fault, and on no other.
ResetTrajectory ==
    /\ call = "reset_trajectory"
    /\ \/ stream.faulted /\ stream' = [stream EXCEPT !.faulted = FALSE] /\ call' = "reset_controller"
       \/ call' = "none" /\ UNCHANGED stream
    /\ UNCHANGED <<mode, released, age, hold, trajFault, inbox, controllers, teleop>>

\* Mutant: the request for a HOLD is still taken for pending after a reset.
ResetDoneButHold ==
    /\ trajFault' = FALSE /\ mode' = "JOG_IDLE" /\ UNCHANGED hold

ResetDone ==
    /\ trajFault' = FALSE /\ hold' = FALSE /\ mode' = "JOG_IDLE"

\* The controller takes up the reset in its next update, at the positions the
\* joints have; JogFails follows when these are out of bounds.
ControllerReset == jog' = "hold"

\* The service may be heard of late or never, whether the controller was reset
\* or not.
ResetController ==
    /\ call = "reset_controller"
    /\ call' = "none"
    /\ \/ ControllerReset /\ ResetDone
       \/ (ControllerReset \/ UNCHANGED jog) /\ UNCHANGED <<mode, hold, trajFault>>
    /\ UNCHANGED <<released, age, inbox, requests, active, stream, teleop>>

-----------------------------------------------------------------------------
Subscriptions ==
    UpdateJogActivity \/ ReceiveFault \/ UpdateTrajectoryFault \/ CheckCommandWatchdog

Answers ==
    \/ SupervisorReady \/ SupervisorNotReady \/ ServeSwitch \/ SwitchTimesOut
    \/ ResetTrajectory \/ ResetController

Next ==
    \/ HandleKey \/ TeleopDies \/ JogFails \/ ReportJogFault
    \/ StreamFaults \/ StreamIsReset \/ HoldServed \/ PublishTrajectoryFault
    \/ Subscriptions \/ Tick
    \/ EnterJog \/ ExitJog \/ ResetJog \/ Answers

Spec == Init /\ [][Next]_vars

\* Each callback that is due runs, timers and subscriptions before services as
\* the executor takes them, and each wait for a service ends.
Fairness ==
    /\ SF_vars(UpdateJogActivity) /\ SF_vars(CheckCommandWatchdog) /\ WF_vars(Tick)
    /\ WF_vars(SupervisorNotReady) /\ WF_vars(SwitchTimesOut)
    /\ WF_vars(ResetTrajectory) /\ WF_vars(ResetController)

LiveSpec == Spec /\ Fairness

-----------------------------------------------------------------------------
\* In MOVEIT mode MoveIt's controller has the arm and no switch is on its
\* way, although switches whose handlers gave up waiting are made later
\* (jog_mode_manager.cpp:205, :268).
MoveItModeIsMoveIt == mode = "MOVEIT" => active = "moveit" /\ requests = <<>>

\* No fault in a jog mode is swallowed as already handled: the flag that
\* makes triggerFault return is down (jog_mode_manager.cpp:369).
FaultNeverIgnored == mode \in JogModes => ~ hold

\* A keyboard node that falls silent ends a jog mode, whatever old command
\* is still in the queue and whatever call the manager waits for
\* (jog_mode_manager.cpp:348).
StopsOnSilence == (~ teleop.alive /\ mode \in JogModes) ~> (mode \notin JogModes)

=============================================================================
