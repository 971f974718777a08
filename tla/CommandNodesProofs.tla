------------------------- MODULE CommandNodesProofs -------------------------
(***************************************************************************)
(* For every command time-out, every number of switch requests, every set  *)
(* of servers and every bound: what the two nodes that take an operator's  *)
(* commands promise holds of them side by side.                            *)
(*                                                                         *)
(* Of the jog mode manager: it is typed, MOVEIT mode means MoveIt's        *)
(* controller, and no fault of a jog mode is swallowed.                    *)
(*                                                                         *)
(* Of the motion command node: the servers share one command, an early     *)
(* cancellation keeps the arm still, and with the HOLD a cancelled motion  *)
(* goes on only while the HOLD is under way.  The invariant says that all  *)
(* goals but the last have ended, what state the node is in at each stage  *)
(* of the worker, and that a cancellation that came early leaves the flag  *)
(* set until its goal ends.                                                *)
(***************************************************************************)
EXTENDS CommandNodes, SequenceTheorems, TLAPS

\* The switch that exit waits for is the youngest request, so that it is
\* served last and its answer speaks for all of them.
ExitIsLast ==
    call = "exit_switch" =>
        requests # <<>> /\ requests[Len(requests)] = "moveit"

Inv == TypeOK /\ ExitIsLast /\ MoveItModeIsMoveIt /\ FaultNeverIgnored

LEMMA Typed == Init => TypeOK
<1> SUFFICES ASSUME Init PROVE TypeOK
  OBVIOUS
<1> USE JogModeAssumption DEF JogModeAssumption, Init
<1>1. mode \in Modes /\ call \in Calls /\ age \in 0 .. Late
  BY DEF Modes, Calls, Late
<1>2. requests \in Seq(Targets) /\ Len(requests) <= MaxRequests
  OBVIOUS
<1>3. active \in Targets \cup {"neither"} /\ jog \in {"hold", "move", "fault", "reported"}
  BY DEF Targets
<1>4. inbox \in [command : Commands \cup {"none"}, fault : BOOLEAN,
                 trajectory : {"none", "FAULT", "CLEAR"}]
  OBVIOUS
<1>5. /\ stream \in [faulted : BOOLEAN, published : BOOLEAN, holding : BOOLEAN]
      /\ teleop \in [esc : BOOLEAN, key : BOOLEAN, alive : BOOLEAN]
  OBVIOUS
<1>6. released \in BOOLEAN /\ hold \in BOOLEAN /\ trajFault \in BOOLEAN
  OBVIOUS
<1>7. QED
  BY <1>1, <1>2, <1>3, <1>4, <1>5, <1>6, Zenon DEF TypeOK

LEMMA InitInv == Init => Inv
BY Typed DEF Init, Inv, ExitIsLast, MoveItModeIsMoveIt, FaultNeverIgnored, JogModes

\* What a fault does to the manager and to the stream is typed.
LEMMA TriggerTyped ==
    ASSUME TypeOK, TriggerFault
    PROVE  mode' \in Modes /\ hold' \in BOOLEAN
           /\ stream' \in [faulted : BOOLEAN, published : BOOLEAN, holding : BOOLEAN]
BY JogModeAssumption DEF JogModeAssumption, TypeOK, TriggerFault, Modes

LEMMA ObeyTyped ==
    ASSUME TypeOK, NEW t \in [esc : BOOLEAN, key : BOOLEAN, alive : BOOLEAN], Publish(t)
    PROVE  jog' \in {"hold", "move", "fault", "reported"}
           /\ inbox' \in [command : Commands \cup {"none"}, fault : BOOLEAN,
                          trajectory : {"none", "FAULT", "CLEAR"}]
<1>1. Command(t) \in Commands
  BY DEF Command, Commands
<1>2. Obey(Command(t)) \in {"hold", "move", "fault", "reported"}
  BY <1>1 DEF Obey, Commands, TypeOK
<1>3. QED
  BY <1>1, <1>2 DEF Publish, TypeOK

LEMMA NextTyped == TypeOK /\ [Next]_vars => TypeOK'
<1> SUFFICES ASSUME TypeOK, [Next]_vars PROVE TypeOK'
  OBVIOUS
<1> USE JogModeAssumption DEF JogModeAssumption, TypeOK, vars, manager, controllers
<1>1. CASE HandleKey
  <2>1. PICK t \in { [teleop EXCEPT !.esc = ~ @, !.key = FALSE], [teleop EXCEPT !.key = ~ @] } :
           teleop' = t /\ Publish(t)
    BY <1>1 DEF HandleKey
  <2>2. t \in [esc : BOOLEAN, key : BOOLEAN, alive : BOOLEAN]
    BY <2>1
  <2>3. QED
    BY <1>1, <2>1, <2>2, ObeyTyped DEF HandleKey
<1>2. CASE TeleopDies \/ JogFails \/ ReportJogFault
  BY <1>2 DEF TeleopDies, JogFails, ReportJogFault
<1>3. CASE StreamFaults \/ StreamIsReset \/ HoldServed \/ PublishTrajectoryFault
  <2> HIDE DEF TypeOK, vars, manager, controllers
  <2> DEFINE Streams == [faulted : BOOLEAN, published : BOOLEAN, holding : BOOLEAN]
             Inboxes == [command : Commands \cup {"none"}, fault : BOOLEAN,
                         trajectory : {"none", "FAULT", "CLEAR"}]
  <2>1. stream \in Streams /\ inbox \in Inboxes
    BY DEF TypeOK
  <2> HIDE DEF TypeOK
  <2>2. stream' \in Streams
    <3>1. CASE StreamFaults \/ StreamIsReset \/ HoldServed
      BY <2>1, <3>1 DEF StreamFaults, StreamIsReset, HoldServed
    <3>2. CASE PublishTrajectoryFault
      BY <2>1, <3>2 DEF PublishTrajectoryFault
    <3>3. QED
      BY <1>3, <3>1, <3>2
  <2>3. inbox' \in Inboxes
    <3>1. CASE StreamFaults \/ StreamIsReset \/ HoldServed
      BY <2>1, <3>1 DEF StreamFaults, StreamIsReset, HoldServed
    <3>2. CASE PublishTrajectoryFault
      BY <2>1, <3>2 DEF PublishTrajectoryFault
    <3>3. QED
      BY <1>3, <3>1, <3>2
  <2>4. UNCHANGED <<mode, call, released, age, hold, trajFault, requests, active, jog, teleop>>
    BY <1>3 DEF StreamFaults, StreamIsReset, HoldServed, PublishTrajectoryFault,
                manager, controllers
  <2> HIDE DEF Streams, Inboxes
  <2>5. QED
    BY <2>2, <2>3, <2>4 DEF TypeOK, Streams, Inboxes
<1>4. CASE UpdateJogActivity
  <2>1. /\ mode' \in Modes /\ hold' \in BOOLEAN
        /\ stream' \in [faulted : BOOLEAN, published : BOOLEAN, holding : BOOLEAN]
    BY <1>4, TriggerTyped DEF UpdateJogActivity, Modes, JogModes
  <2>2. age' \in 0 .. Late /\ released' \in BOOLEAN
    BY <1>4 DEF UpdateJogActivity, Late
  <2>3. inbox' \in [command : Commands \cup {"none"}, fault : BOOLEAN,
                    trajectory : {"none", "FAULT", "CLEAR"}]
    BY <1>4 DEF UpdateJogActivity
  <2>4. QED
    BY <1>4, <2>1, <2>2, <2>3 DEF UpdateJogActivity
<1>5. CASE ReceiveFault
  BY <1>5, TriggerTyped DEF ReceiveFault
<1>6. CASE UpdateTrajectoryFault
  <2>1. /\ mode' \in Modes /\ hold' \in BOOLEAN
        /\ stream' \in [faulted : BOOLEAN, published : BOOLEAN, holding : BOOLEAN]
    BY <1>6, TriggerTyped DEF UpdateTrajectoryFault
  <2>2. trajFault' \in BOOLEAN
    BY <1>6 DEF UpdateTrajectoryFault
  <2>3. inbox' \in [command : Commands \cup {"none"}, fault : BOOLEAN,
                    trajectory : {"none", "FAULT", "CLEAR"}]
    BY <1>6 DEF UpdateTrajectoryFault
  <2>4. QED
    BY <1>6, <2>1, <2>2, <2>3 DEF UpdateTrajectoryFault
<1>7. CASE CheckCommandWatchdog
  BY <1>7, TriggerTyped DEF CheckCommandWatchdog
<1>8. CASE Tick
  <2>1. age' \in 0 .. Late
    BY <1>8 DEF Tick, Late
  <2>2. /\ jog' \in {"hold", "move", "fault", "reported"}
        /\ inbox' \in [command : Commands \cup {"none"}, fault : BOOLEAN,
                       trajectory : {"none", "FAULT", "CLEAR"}]
    BY <1>8, ObeyTyped DEF Tick
  <2>3. QED
    BY <1>8, <2>1, <2>2 DEF Tick
<1>9. CASE EnterJog \/ ExitJog \/ ResetJog \/ SupervisorNotReady
  BY <1>9 DEF EnterJog, ExitJog, ResetJog, SupervisorNotReady, Calls
<1>10. CASE SupervisorReady
  <2>1. requests' \in Seq(Targets) /\ Len(requests') <= MaxRequests
    BY <1>10 DEF SupervisorReady, Targets
  <2>2. QED
    BY <1>10, <2>1 DEF SupervisorReady, Calls, Switching, Modes
<1>11. CASE ServeSwitch
  <2>1. requests' \in Seq(Targets) /\ Len(requests') <= MaxRequests
    BY <1>11, HeadTailProperties DEF ServeSwitch
  <2>2. PICK ok \in BOOLEAN :
           /\ Switched(Head(requests), ok)
           /\ IF call \in Switching /\ Len(requests) = 1
              THEN SwitchDone(ok) ELSE UNCHANGED <<call, mode, hold>>
    BY <1>11 DEF ServeSwitch
  <2>3. call' \in Calls /\ mode' \in Modes /\ hold' \in BOOLEAN
    BY <2>2 DEF SwitchDone, Switching, Calls, Modes
  <2>4. Head(requests) \in Targets
    BY <1>11, HeadTailProperties DEF ServeSwitch
  <2>5. active' \in Targets \cup {"neither"} /\ jog' \in {"hold", "move", "fault", "reported"}
    BY <2>2, <2>4 DEF Switched
  <2>6. QED
    BY <1>11, <2>1, <2>3, <2>5 DEF ServeSwitch
<1>12. CASE SwitchTimesOut
  BY <1>12 DEF SwitchTimesOut, SwitchDone, Switching, Calls, Modes
<1>13. CASE ResetTrajectory \/ ResetController
  <2> HIDE DEF TypeOK, vars, manager, controllers
  <2>1. /\ mode' \in Modes /\ call' \in Calls /\ hold' \in BOOLEAN
        /\ trajFault' \in BOOLEAN /\ jog' \in {"hold", "move", "fault", "reported"}
    BY <1>13 DEF ResetTrajectory, ResetController, ControllerReset, ResetDone, Calls, Modes, controllers, TypeOK
  <2>2. stream' \in [faulted : BOOLEAN, published : BOOLEAN, holding : BOOLEAN]
    <3>1. stream \in [faulted : BOOLEAN, published : BOOLEAN, holding : BOOLEAN]
      BY DEF TypeOK
    <3>2. QED
      BY <1>13, <3>1 DEF ResetTrajectory, ResetController, ControllerReset
  <2>3. UNCHANGED <<released, age, inbox, requests, active, teleop>>
    BY <1>13 DEF ResetTrajectory, ResetController, ControllerReset, controllers
  <2>4. QED
    BY <2>1, <2>2, <2>3 DEF TypeOK
<1>14. CASE UNCHANGED vars
  BY <1>14
<1>15. QED
  BY <1>1, <1>2, <1>3, <1>4, <1>5, <1>6, <1>7, <1>8, <1>9, <1>10, <1>11, <1>12,
     <1>13, <1>14 DEF Next, Subscriptions, Answers

\* What the step of a callback or of the surroundings leaves alone.
LEMMA OtherSteps ==
    ASSUME [Next]_vars, ~ SupervisorReady, ~ ServeSwitch, ~ SwitchTimesOut
    PROVE  /\ UNCHANGED <<requests, active>>
           /\ call' = "exit_switch" => call = "exit_switch"
           /\ mode' = "MOVEIT" => mode = "MOVEIT"
<1> USE DEF vars, manager, controllers, JogModes
<1>1. CASE HandleKey \/ TeleopDies \/ JogFails \/ ReportJogFault \/ Tick
  BY <1>1 DEF HandleKey, TeleopDies, JogFails, ReportJogFault, Tick
<1>2. CASE StreamFaults \/ StreamIsReset \/ HoldServed \/ PublishTrajectoryFault
  BY <1>2 DEF StreamFaults, StreamIsReset, HoldServed, PublishTrajectoryFault
<1>3. CASE Subscriptions
  BY <1>3 DEF Subscriptions, UpdateJogActivity, ReceiveFault, UpdateTrajectoryFault,
              CheckCommandWatchdog, TriggerFault
<1>4. CASE EnterJog \/ ExitJog \/ ResetJog \/ SupervisorNotReady
  BY <1>4 DEF EnterJog, ExitJog, ResetJog, SupervisorNotReady
<1>5. CASE ResetTrajectory \/ ResetController
  BY <1>5 DEF ResetTrajectory, ResetController, ControllerReset, ResetDone
<1>6. CASE UNCHANGED vars
  BY <1>6
<1>7. QED
  BY <1>1, <1>2, <1>3, <1>4, <1>5, <1>6 DEF Next, Answers

LEMMA NextExitIsLast == Inv /\ [Next]_vars => ExitIsLast' /\ MoveItModeIsMoveIt'
<1> SUFFICES ASSUME Inv, [Next]_vars PROVE ExitIsLast' /\ MoveItModeIsMoveIt'
  OBVIOUS
<1> USE DEF Inv, ExitIsLast, MoveItModeIsMoveIt
<1>1. requests \in Seq(Targets)
  BY DEF TypeOK
<1>2. CASE SupervisorReady
  BY <1>1, <1>2 DEF SupervisorReady, Targets
<1>3. CASE ServeSwitch
  <2>1. /\ Len(requests') = Len(requests) - 1
        /\ \A i \in 1 .. Len(requests') : requests'[i] = requests[i + 1]
    BY <1>1, <1>3, HeadTailProperties DEF ServeSwitch
  <2>2. mode # "MOVEIT"
    BY <1>3 DEF ServeSwitch
  <2>3. CASE call \in Switching /\ Len(requests) = 1
    <3>1. PICK ok \in BOOLEAN : Switched(Head(requests), ok) /\ SwitchDone(ok)
      BY <1>3, <2>3 DEF ServeSwitch
    <3>2. call' # "exit_switch"
      BY <3>1 DEF SwitchDone
    <3>3. ASSUME mode' = "MOVEIT" PROVE active' = "moveit" /\ requests' = <<>>
      <4>1. ok /\ call = "exit_switch"
        BY <3>1, <3>3, <2>3 DEF SwitchDone, Switching
      <4>2. Head(requests) = "moveit"
        BY <1>1, <1>3, <2>3, <4>1, HeadTailProperties DEF ServeSwitch
      <4>3. active' = "moveit"
        BY <3>1, <4>1, <4>2 DEF Switched
      <4>4. requests' = <<>>
        BY <1>1, <1>3, <2>1, <2>3, HeadTailProperties, EmptySeq DEF ServeSwitch
      <4>5. QED
        BY <4>3, <4>4
    <3>4. QED
      BY <3>2, <3>3
  <2>4. CASE ~ (call \in Switching /\ Len(requests) = 1)
    <3>1. UNCHANGED <<call, mode>>
      BY <1>3, <2>4 DEF ServeSwitch
    <3>2. ASSUME call = "exit_switch"
          PROVE  requests' # <<>> /\ requests'[Len(requests')] = "moveit"
      <4>0. call \in Switching
        BY <3>2 DEF Switching
      <4>1. Len(requests) \in Nat /\ Len(requests) > 1
        <5>1. Len(requests) # 1
          BY <2>4, <4>0
        <5>2. Len(requests) \in Nat /\ Len(requests) # 0
          BY <1>1, <1>3, EmptySeq, LenProperties DEF ServeSwitch
        <5>3. \A n \in Nat : n # 0 /\ n # 1 => n > 1
          OBVIOUS
        <5>4. QED
          BY <5>1, <5>2, <5>3, Zenon
      <4>2. Len(requests') \in 1 .. Len(requests') /\ Len(requests') + 1 = Len(requests)
        BY <2>1, <4>1
      <4>3. requests'[Len(requests')] = "moveit"
        BY <2>1, <3>2, <4>2
      <4>4. QED
        BY <4>2, <4>3, EmptySeq
    <3>3. QED
      BY <2>2, <3>1, <3>2
  <2>5. QED
    BY <2>3, <2>4
<1>4. CASE SwitchTimesOut
  BY <1>4 DEF SwitchTimesOut, SwitchDone
<1>5. CASE ~ SupervisorReady /\ ~ ServeSwitch /\ ~ SwitchTimesOut
  BY <1>5, OtherSteps
<1>6. QED
  BY <1>2, <1>3, <1>4, <1>5

\* The flag goes up with the step that leaves the jog modes, and every step
\* that enters them takes it down.
LEMMA NextFault == TypeOK /\ FaultNeverIgnored /\ [Next]_vars => FaultNeverIgnored'
<1> SUFFICES ASSUME TypeOK, FaultNeverIgnored, [Next]_vars PROVE FaultNeverIgnored'
  OBVIOUS
<1> USE DEF FaultNeverIgnored, JogModes, vars, manager, controllers
<1>1. CASE HandleKey \/ TeleopDies \/ JogFails \/ ReportJogFault \/ Tick
  BY <1>1 DEF HandleKey, TeleopDies, JogFails, ReportJogFault, Tick
<1>2. CASE StreamFaults \/ StreamIsReset \/ HoldServed \/ PublishTrajectoryFault
  BY <1>2 DEF StreamFaults, StreamIsReset, HoldServed, PublishTrajectoryFault
<1>3. CASE Subscriptions
  BY <1>3 DEF Subscriptions, UpdateJogActivity, ReceiveFault, UpdateTrajectoryFault,
              CheckCommandWatchdog, TriggerFault
<1>4. CASE EnterJog \/ ExitJog \/ ResetJog \/ SupervisorNotReady \/ SupervisorReady
  BY <1>4 DEF EnterJog, ExitJog, ResetJog, SupervisorNotReady, SupervisorReady
<1>5. CASE ServeSwitch \/ SwitchTimesOut
  BY <1>5 DEF ServeSwitch, SwitchTimesOut, SwitchDone, Switching
<1>6. CASE ResetTrajectory \/ ResetController
  BY <1>6 DEF ResetTrajectory, ResetController, ControllerReset, ResetDone
<1>7. CASE UNCHANGED vars
  BY <1>7
<1>8. QED
  BY <1>1, <1>2, <1>3, <1>4, <1>5, <1>6, <1>7 DEF Next, Answers

\* All of it holds in every state of every behaviour.
THEOREM JogModeInvariant == Spec => []Inv
<1>1. Inv /\ [Next]_vars => Inv'
  BY NextTyped, NextExitIsLast, NextFault DEF Inv
<1>2. QED
  BY InitInv, <1>1, PTL DEF Spec

\* The variables keep their types (jog_mode_manager.cpp:428).
THEOREM JogModeTyped == Spec => []TypeOK
<1>1. Inv => TypeOK
  BY DEF Inv
<1>2. QED
  BY JogModeInvariant, <1>1, PTL

\* Whatever switches time out and are made later, MOVEIT mode means that
\* MoveIt's controller has the arm and keeps it (jog_mode_manager.cpp:205).
THEOREM MoveItKeepsTheArm == Spec => []MoveItModeIsMoveIt
<1>1. Inv => MoveItModeIsMoveIt
  BY DEF Inv
<1>2. QED
  BY JogModeInvariant, <1>1, PTL

\* triggerFault never finds its flag up in a jog mode (jog_mode_manager.cpp:369).
THEOREM FaultsAreHandled == Spec => []FaultNeverIgnored
<1>1. Inv => FaultNeverIgnored
  BY DEF Inv
<1>2. QED
  BY JogModeInvariant, <1>1, PTL

-----------------------------------------------------------------------------
(* The motion command node.                                                *)

\* What a goal is.
Records == [kind : Kinds, status : Motion!Finished \cup {"executing", "canceling"},
            asked : BOOLEAN, early : BOOLEAN, halted : Motion!Halts, moved : BOOLEAN]

MotionTyped ==
    /\ kind \in Kinds \cup {"none"}
    /\ cancelRequested \in BOOLEAN /\ halt \in BOOLEAN
    /\ holdAsked \in BOOLEAN /\ latched \in BOOLEAN
    /\ goals \in Seq(Records)
    /\ arm \in {"still", "moving", "stopped"}

\* Where the worker can be, and the state of the node at each stage.
Stages == {"waiting", "validating", "planning", "executing", "starting", "moving",
           "done", "failed", "concluding", "finishing", "releasing"}

Synced ==
    /\ worker \in Stages
    /\ state \in {"IDLE", "VALIDATING", "PLANNING", "EXECUTING", "STOPPING"}
    /\ worker = "waiting" => state \in {"IDLE", "VALIDATING"}
    /\ worker # "waiting" => state # "IDLE"
    /\ worker = "validating" => state = "VALIDATING"
    /\ worker = "planning" => state = "PLANNING"
    /\ worker \in {"executing", "starting", "moving", "done", "failed", "concluding", "finishing"}
          => state \in {"EXECUTING", "STOPPING"}

Before == {"waiting", "validating", "planning"}

Last == Len(goals)

\* All goals but the last have ended, and the worker has the last one.
LastOnly ==
    /\ \A g \in Motion!Ids : Motion!Live(g) => g = Last
    /\ worker = "waiting" /\ state = "IDLE" => pending = 0 /\ \A g \in Motion!Ids : ~ Motion!Live(g)
    /\ worker = "waiting" /\ state # "IDLE" => Last # 0 /\ pending = Last
    /\ worker # "waiting" => pending = 0 /\ job = Last /\ Last # 0
    /\ worker = "releasing" => \A g \in Motion!Ids : ~ Motion!Live(g)
    /\ worker # "releasing" /\ state # "IDLE" => Motion!Live(Last)
    /\ cancel.goal \in Motion!Ids \cup {0} /\ cancel.step \in {"none", "stop", "accept"}
    /\ cancel.step # "none" => cancel.goal # 0

\* An early cancellation is remembered until its goal ends.
Early ==
    /\ \A g \in Motion!Ids : goals[g].early => ~ goals[g].moved
    /\ Last # 0 /\ Motion!Live(Last) /\ goals[Last].early => cancelRequested
       /\ worker \in Before \cup {"finishing"}
    /\ worker \in Before /\ state # "IDLE" => ~ goals[Last].moved

\* The arm moves in execute() only, and a halted command has its HOLD, or its
\* stop message if it moved by then.
Moves ==
    /\ arm # "still" => worker = "moving"
    /\ latched => arm # "moving"
    /\ worker \in Before /\ state # "IDLE" => goals[Last].halted = "no" /\ cancel.step # "stop"
    /\ worker \in {"executing", "starting"} => ~ goals[Last].moved
    /\ worker \notin {"waiting", "releasing"} /\ goals[Last].halted = "held" => holdAsked
       \/ latched
    /\ \A g \in Motion!Ids : goals[g].halted = "stopped" => goals[g].moved
    /\ arm = "moving" /\ goals[Last].halted = "stopped" => halt

MotionInv == MotionTyped /\ Synced /\ LastOnly /\ Early /\ Moves

\* The steps that change no goal.
Quiet == Motion!HandleStop \/ Motion!Take \/ Motion!SeeCancel \/ Motion!EnterPlanning
         \/ Motion!EnterExecuting \/ Motion!LastCheck
         \/ Motion!HaltArrives \/ Motion!HoldArrives \/ Motion!ResetStream \/ Motion!ExecutionEnds
            \/ Motion!Release

\* None of them disturbs the invariant.
LEMMA QuietKeeps == MotionInv /\ Quiet => MotionInv'
<1> SUFFICES ASSUME MotionInv, Quiet PROVE MotionInv'
  OBVIOUS
<1> USE DEF Quiet, Motion!HandleStop, Motion!Take, Motion!SeeCancel, Motion!EnterPlanning,
   Motion!EnterExecuting, Motion!LastCheck,
        Motion!HaltArrives, Motion!HoldArrives, Motion!ResetStream, Motion!ExecutionEnds,
        Motion!Release, Motion!Work, Motion!Stopped, Motion!callbacks, Motion!plant, MotionInv
<1>0. goals' = goals /\ Motion!Ids' = Motion!Ids /\ Last' = Last
      /\ (\A g \in Motion!Ids : Motion!Live(g)' <=> Motion!Live(g))
      /\ (Motion!Live(Last)' <=> Motion!Live(Last))
  BY Zenon DEF Motion!Ids, Last, Motion!Live
<1>01. Last \in Nat /\ (Last # 0 => Last \in Motion!Ids)
  BY LenProperties DEF MotionTyped, Last, Motion!Ids
<1>1. MotionTyped'
  BY <1>0 DEF MotionTyped
<1>2. Synced'
  BY DEF Synced, Stages, LastOnly
<1>3. LastOnly'
  BY <1>0 DEF LastOnly, Synced, Stages
<1>4. Early'
  BY <1>0, <1>01 DEF Early, LastOnly, Before, Synced, Stages
<1>5. Moves'
  BY <1>0, <1>01 DEF Moves, LastOnly, Early, Before, Synced, Stages
<1>6. QED
  BY <1>1, <1>2, <1>3, <1>4, <1>5

\* One goal is replaced by another record.
LEMMA Update ==
    ASSUME MotionTyped, NEW g \in Motion!Ids, NEW r \in Records, goals' = [goals EXCEPT ![g] = r]
    PROVE  /\ goals' \in Seq(Records) /\ Len(goals') = Len(goals) /\ Motion!Ids' = Motion!Ids
           /\ Last' = Last
           /\ \A j \in Motion!Ids : goals'[j] = IF j = g THEN r ELSE goals[j]
BY ExceptSeq, SMTT(20) DEF MotionTyped, Motion!Ids, Last

\* What the type says of the goals that exist.
LEMMA Numbers ==
    ASSUME MotionTyped
    PROVE  /\ Last \in Nat /\ (Last # 0 => Last \in Motion!Ids)
           /\ \A g \in Motion!Ids : goals[g] \in Records /\ g # 0
BY LenProperties DEF MotionTyped, Last, Motion!Ids

\* One field of one goal changes: the other goals and fields stay.
LEMMA StatusChanges ==
    ASSUME MotionTyped, NEW g \in Motion!Ids,
           NEW x \in Motion!Finished \cup {"executing", "canceling"},
           goals' = [goals EXCEPT ![g].status = x]
    PROVE  /\ goals' \in Seq(Records) /\ Motion!Ids' = Motion!Ids /\ Last' = Last
           /\ \A j \in Motion!Ids :
                 /\ goals'[j].status = IF j = g THEN x ELSE goals[j].status
                 /\ goals'[j].early = goals[j].early
                 /\ goals'[j].halted = goals[j].halted
                 /\ goals'[j].moved = goals[j].moved
<1> DEFINE r == [goals[g] EXCEPT !.status = x]
<1>1. goals[g] \in Records
  BY Numbers
<1>2. r \in Records /\ r.status = x /\ r.early = goals[g].early /\ r.halted = goals[g].halted
      /\ r.moved = goals[g].moved
  BY <1>1 DEF Records
<1>3. goals' = [goals EXCEPT ![g] = r]
  OBVIOUS
<1> HIDE DEF r
<1>4. goals' \in Seq(Records) /\ Motion!Ids' = Motion!Ids /\ Last' = Last
  BY <1>2, <1>3, Update
<1>5. \A j \in Motion!Ids : goals'[j] = IF j = g THEN r ELSE goals[j]
  BY <1>2, <1>3, Update
<1>6. QED
  BY <1>2, <1>4, <1>5

LEMMA AskedChanges ==
    ASSUME MotionTyped, NEW g \in Motion!Ids, NEW x \in BOOLEAN,
           goals' = [goals EXCEPT ![g].asked = x]
    PROVE  /\ goals' \in Seq(Records) /\ Motion!Ids' = Motion!Ids /\ Last' = Last
           /\ \A j \in Motion!Ids :
                 /\ goals'[j].status = goals[j].status
                 /\ goals'[j].early = goals[j].early
                 /\ goals'[j].halted = goals[j].halted
                 /\ goals'[j].moved = goals[j].moved
<1> DEFINE r == [goals[g] EXCEPT !.asked = x]
<1>1. goals[g] \in Records
  BY Numbers
<1>2. r \in Records /\ r.status = goals[g].status /\ r.early = goals[g].early
      /\ r.halted = goals[g].halted /\ r.moved = goals[g].moved
  BY <1>1 DEF Records
<1>3. goals' = [goals EXCEPT ![g] = r]
  OBVIOUS
<1> HIDE DEF r
<1>4. goals' \in Seq(Records) /\ Motion!Ids' = Motion!Ids /\ Last' = Last
  BY <1>2, <1>3, Update
<1>5. \A j \in Motion!Ids : goals'[j] = IF j = g THEN r ELSE goals[j]
  BY <1>2, <1>3, Update
<1>6. QED
  BY <1>2, <1>4, <1>5

LEMMA EarlyChanges ==
    ASSUME MotionTyped, NEW g \in Motion!Ids, NEW x \in BOOLEAN,
           goals' = [goals EXCEPT ![g].early = x]
    PROVE  /\ goals' \in Seq(Records) /\ Motion!Ids' = Motion!Ids /\ Last' = Last
           /\ \A j \in Motion!Ids :
                 /\ goals'[j].status = goals[j].status
                 /\ goals'[j].early = IF j = g THEN x ELSE goals[j].early
                 /\ goals'[j].halted = goals[j].halted
                 /\ goals'[j].moved = goals[j].moved
<1> DEFINE r == [goals[g] EXCEPT !.early = x]
<1>1. goals[g] \in Records
  BY Numbers
<1>2. r \in Records /\ r.status = goals[g].status /\ r.early = x /\ r.halted = goals[g].halted
      /\ r.moved = goals[g].moved
  BY <1>1 DEF Records
<1>3. goals' = [goals EXCEPT ![g] = r]
  OBVIOUS
<1> HIDE DEF r
<1>4. goals' \in Seq(Records) /\ Motion!Ids' = Motion!Ids /\ Last' = Last
  BY <1>2, <1>3, Update
<1>5. \A j \in Motion!Ids : goals'[j] = IF j = g THEN r ELSE goals[j]
  BY <1>2, <1>3, Update
<1>6. QED
  BY <1>2, <1>4, <1>5

LEMMA HaltedChanges ==
    ASSUME MotionTyped, NEW g \in Motion!Ids, NEW x \in Motion!Halts,
           goals' = [goals EXCEPT ![g].halted = x]
    PROVE  /\ goals' \in Seq(Records) /\ Motion!Ids' = Motion!Ids /\ Last' = Last
           /\ \A j \in Motion!Ids :
                 /\ goals'[j].status = goals[j].status
                 /\ goals'[j].early = goals[j].early
                 /\ goals'[j].halted = IF j = g THEN x ELSE goals[j].halted
                 /\ goals'[j].moved = goals[j].moved
<1> DEFINE r == [goals[g] EXCEPT !.halted = x]
<1>1. goals[g] \in Records
  BY Numbers
<1>2. r \in Records /\ r.status = goals[g].status /\ r.early = goals[g].early /\ r.halted = x
      /\ r.moved = goals[g].moved
  BY <1>1 DEF Records
<1>3. goals' = [goals EXCEPT ![g] = r]
  OBVIOUS
<1> HIDE DEF r
<1>4. goals' \in Seq(Records) /\ Motion!Ids' = Motion!Ids /\ Last' = Last
  BY <1>2, <1>3, Update
<1>5. \A j \in Motion!Ids : goals'[j] = IF j = g THEN r ELSE goals[j]
  BY <1>2, <1>3, Update
<1>6. QED
  BY <1>2, <1>4, <1>5

LEMMA MovedChanges ==
    ASSUME MotionTyped, NEW g \in Motion!Ids, NEW x \in BOOLEAN,
           goals' = [goals EXCEPT ![g].moved = x]
    PROVE  /\ goals' \in Seq(Records) /\ Motion!Ids' = Motion!Ids /\ Last' = Last
           /\ \A j \in Motion!Ids :
                 /\ goals'[j].status = goals[j].status
                 /\ goals'[j].early = goals[j].early
                 /\ goals'[j].halted = goals[j].halted
                 /\ goals'[j].moved = IF j = g THEN x ELSE goals[j].moved
<1> DEFINE r == [goals[g] EXCEPT !.moved = x]
<1>1. goals[g] \in Records
  BY Numbers
<1>2. r \in Records /\ r.status = goals[g].status /\ r.early = goals[g].early
      /\ r.halted = goals[g].halted /\ r.moved = x
  BY <1>1 DEF Records
<1>3. goals' = [goals EXCEPT ![g] = r]
  OBVIOUS
<1> HIDE DEF r
<1>4. goals' \in Seq(Records) /\ Motion!Ids' = Motion!Ids /\ Last' = Last
  BY <1>2, <1>3, Update
<1>5. \A j \in Motion!Ids : goals'[j] = IF j = g THEN r ELSE goals[j]
  BY <1>2, <1>3, Update
<1>6. QED
  BY <1>2, <1>4, <1>5

\* A client asks for the end of a goal: nothing the invariant looks at.
LEMMA AskKeeps == ASSUME MotionInv, NEW g \in Motion!Ids, Motion!Ask(g) PROVE MotionInv'
<1> USE DEF Motion!Ask, Motion!callbacks, Motion!plant, MotionInv
<1>1. /\ goals' \in Seq(Records) /\ Motion!Ids' = Motion!Ids /\ Last' = Last
      /\ \A j \in Motion!Ids : /\ goals'[j].status = goals[j].status /\ goals'[j].early = goals[j].early
                               /\ goals'[j].halted = goals[j].halted
                                  /\ goals'[j].moved = goals[j].moved
  BY AskedChanges
<1>2. \A j \in Motion!Ids : Motion!Live(j)' <=> Motion!Live(j)
  BY <1>1 DEF Motion!Live
<1>3. QED
  BY <1>1, <1>2, Numbers DEF MotionTyped, Synced, LastOnly, Early, Moves, Before, Stages

\* The goal is canceling, and still live.
LEMMA CancelAcceptedKeeps == ASSUME MotionInv, Motion!CancelAccepted PROVE MotionInv'
<1> USE DEF Motion!CancelAccepted, Motion!NoCancel, Motion!callbacks, Motion!plant, MotionInv
<1>0. cancel.goal \in Motion!Ids
  BY DEF LastOnly
<1> DEFINE x == IF goals[cancel.goal].status = "executing" THEN "canceling" ELSE goals[cancel.goal].status
<1>1. x \in Motion!Finished \cup {"executing", "canceling"}
      /\ goals' = [goals EXCEPT ![cancel.goal].status = x]
  BY <1>0, Numbers DEF Records
<1>2. /\ goals' \in Seq(Records) /\ Motion!Ids' = Motion!Ids /\ Last' = Last
      /\ \A j \in Motion!Ids : /\ goals'[j].status = IF j = cancel.goal THEN x ELSE goals[j].status
                               /\ goals'[j].early = goals[j].early
                               /\ goals'[j].halted = goals[j].halted
                                  /\ goals'[j].moved = goals[j].moved
  BY <1>0, <1>1, StatusChanges
<1>3. \A j \in Motion!Ids : Motion!Live(j)' <=> Motion!Live(j)
  BY <1>2 DEF Motion!Live, Motion!Finished
<1>4. QED
  BY <1>2, <1>3, Numbers DEF MotionTyped, Synced, LastOnly, Early, Moves, Before, Stages

\* The goal is halted, and its HOLD under way, or none could be requested.
LEMMA CancelStopsKeeps == ASSUME MotionInv, Motion!CancelStops PROVE MotionInv'
<1> USE DEF Motion!CancelStops, Motion!RequestHold, Motion!callbacks, Motion!plant, MotionInv
<1>0. cancel.goal \in Motion!Ids
  BY DEF LastOnly
<1> PICK sent \in BOOLEAN :
          /\ Motion!RequestHold(sent)
          /\ goals' = [goals EXCEPT ![cancel.goal].halted = Motion!Halt(cancel.goal, sent)]
  OBVIOUS
<1> DEFINE x == Motion!Halt(cancel.goal, sent)
<1>01. /\ x \in Motion!Halts /\ x # "no"
       /\ x = "held" => holdAsked'
       /\ x = "stopped" => goals[cancel.goal].moved
  BY DEF Motion!Halt, Motion!Halts, Motion!Held
<1>02. goals' = [goals EXCEPT ![cancel.goal].halted = x] /\ holdAsked' \in BOOLEAN
       /\ (holdAsked => holdAsked')
  BY DEF Motion!Held, MotionTyped
<1> HIDE DEF x
<1>1. /\ goals' \in Seq(Records) /\ Motion!Ids' = Motion!Ids /\ Last' = Last
      /\ \A j \in Motion!Ids : /\ goals'[j].status = goals[j].status
                               /\ goals'[j].early = goals[j].early
                               /\ goals'[j].halted = (IF j = cancel.goal THEN x ELSE goals[j].halted)
                               /\ goals'[j].moved = goals[j].moved
  BY <1>0, <1>01, <1>02, HaltedChanges
<1>2. \A j \in Motion!Ids : Motion!Live(j)' <=> Motion!Live(j)
  BY <1>1 DEF Motion!Live
<1>3. cancel'.goal = cancel.goal /\ cancel'.step = "accept"
  OBVIOUS
<1>4. MotionTyped' /\ Synced'
  BY <1>1, <1>02 DEF MotionTyped, Synced
<1>5. LastOnly' /\ Early'
  BY <1>1, <1>2, <1>3, Numbers DEF LastOnly, Early
<1>6. Moves'
  BY <1>01, <1>02, <1>1, <1>3, Numbers DEF Moves, LastOnly, Before
<1>7. QED
  BY <1>4, <1>5, <1>6

\* The motion begins: the goal was not cancelled early, the stream not held.
LEMMA ExecuteKeeps == ASSUME MotionInv, Motion!Execute PROVE MotionInv'
<1> USE DEF Motion!callbacks, Motion!plant, MotionInv
<1>0. CASE goals' = goals /\ Motion!Work("starting", "failed") /\ UNCHANGED arm
  <2>1. Motion!Ids' = Motion!Ids /\ Last' = Last
        /\ \A g \in Motion!Ids : Motion!Live(g)' <=> Motion!Live(g)
    BY <1>0, Zenon DEF Motion!Ids, Last, Motion!Live
  <2>2. QED
    BY <1>0, <2>1, Numbers DEF Motion!Execute, Motion!Work, MotionTyped, Synced, LastOnly,
       Early, Moves, Before, Stages
<1>1. CASE goals' = [goals EXCEPT ![job].moved = TRUE] /\ Motion!Work("starting", "moving")
           /\ ~ latched /\ arm' = "moving"
  <2>0. job \in Motion!Ids /\ job = Last
    BY <1>1, Numbers DEF LastOnly, Motion!Work
  <2>1. /\ goals' \in Seq(Records) /\ Motion!Ids' = Motion!Ids /\ Last' = Last
        /\ \A j \in Motion!Ids : /\ goals'[j].status = goals[j].status
                                 /\ goals'[j].early = goals[j].early
                                 /\ goals'[j].halted = goals[j].halted
                                 /\ goals'[j].moved = (IF j = job THEN TRUE ELSE goals[j].moved)
    BY <1>1, <2>0, MovedChanges
  <2>2. \A j \in Motion!Ids : Motion!Live(j)' <=> Motion!Live(j)
    BY <2>1 DEF Motion!Live
  <2>3. Motion!Live(Last)
    BY <1>1, <2>0 DEF LastOnly, Motion!Work, Synced
  <2>4. QED
    BY <1>1, <2>0, <2>1, <2>2, <2>3, Numbers DEF Motion!Execute, Motion!Work, MotionTyped,
       Synced, LastOnly, Early, Moves, Before, Stages
<1>2. QED
  BY <1>0, <1>1 DEF Motion!Execute

\* The worker ends the goal it works on.
LEMMA ConcludeEnds ==
    ASSUME MotionInv, worker \notin {"waiting", "releasing"}, NEW x \in Motion!Finished,
           Motion!Conclude(x),
           UNCHANGED <<state, kind, cancelRequested, pending, job, Motion!callbacks, arm, halt, latched>>,
           holdAsked' \in BOOLEAN, holdAsked => holdAsked', worker # "moving"
    PROVE  MotionInv'
<1> USE DEF Motion!Conclude, Motion!callbacks, Motion!plant, MotionInv
<1>0. job \in Motion!Ids /\ job = Last
  BY Numbers DEF LastOnly
<1>01. x \in Motion!Finished \cup {"executing", "canceling"}
       /\ goals' = [goals EXCEPT ![job].status = x] /\ MotionTyped
  OBVIOUS
<1> HIDE DEF Motion!Conclude, MotionInv
<1>1. /\ goals' \in Seq(Records) /\ Motion!Ids' = Motion!Ids /\ Last' = Last
      /\ \A j \in Motion!Ids : /\ goals'[j].status = IF j = job THEN x ELSE goals[j].status
                               /\ goals'[j].early = goals[j].early
                               /\ goals'[j].halted = goals[j].halted
                                  /\ goals'[j].moved = goals[j].moved
  BY <1>0, <1>01, StatusChanges
<1> USE DEF Motion!Conclude, MotionInv
<1>2. \A j \in Motion!Ids : ~ Motion!Live(j)'
  BY <1>0, <1>1 DEF Motion!Live, LastOnly
<1>3. MotionTyped' /\ Synced'
  BY <1>1 DEF MotionTyped, Synced, Stages
<1>4. LastOnly'
  BY <1>0, <1>1, <1>2, Numbers DEF LastOnly
<1>5. Early'
  BY <1>0, <1>1, <1>2, Numbers DEF Early, Before
<1>6. Moves'
  BY <1>0, <1>1 DEF Moves, Before
<1>7. QED
  BY <1>3, <1>4, <1>5, <1>6

\* The steps of the worker that end a goal, and the one before success.
LEMMA EndsKeep == ASSUME MotionInv, Motion!GiveUp \/ Motion!Report \/ Motion!Succeed
  \/ Motion!FinishAsCanceled PROVE MotionInv'
<1> USE DEF Motion!plant
<1>1. CASE Motion!GiveUp
  BY <1>1, ConcludeEnds DEF Motion!GiveUp, MotionInv, MotionTyped, Motion!Finished
<1>2. CASE Motion!Succeed
  BY <1>2, ConcludeEnds DEF Motion!Succeed, MotionInv, MotionTyped, Motion!Finished
<1>3. CASE Motion!FinishAsCanceled
  <2> DEFINE x == IF goals[job].status = "canceling" THEN "canceled" ELSE "aborted"
  <2>1. x \in Motion!Finished /\ Motion!Conclude(x)
    BY <1>3 DEF Motion!FinishAsCanceled, Motion!Finished
  <2> HIDE DEF x
  <2>2. QED
    BY <1>3, <2>1, ConcludeEnds DEF Motion!FinishAsCanceled, MotionInv, MotionTyped
<1>4. CASE Motion!Report
  <2>1. CASE worker = "failed" /\ Motion!Conclude("aborted")
              /\ \E sent \in BOOLEAN : Motion!RequestHold(sent)
    BY <1>4, <2>1, ConcludeEnds
       DEF Motion!Report, Motion!RequestHold, Motion!Held, MotionInv, MotionTyped, Motion!Finished
  <2>2. CASE Motion!Work("done", "concluding") /\ UNCHANGED <<goals, holdAsked>>
    <3>1. goals' = goals /\ Motion!Ids' = Motion!Ids /\ Last' = Last
          /\ (\A g \in Motion!Ids : Motion!Live(g)' <=> Motion!Live(g))
          /\ (Motion!Live(Last)' <=> Motion!Live(Last))
      BY <2>2, Zenon DEF Motion!Ids, Last, Motion!Live
    <3>2. QED
      BY <1>4, <2>2, <3>1, Numbers DEF Motion!Report, Motion!Work, Motion!callbacks, MotionInv,
         MotionTyped, Synced, LastOnly, Early, Moves, Before, Stages
  <2>3. QED
    BY <1>4, <2>1, <2>2 DEF Motion!Report
<1>5. QED
  BY <1>1, <1>2, <1>3, <1>4

\* A new goal is the only live one, because the node was idle.
LEMMA AcceptKeeps == ASSUME MotionInv, Motion!AcceptGoal PROVE MotionInv'
<1> USE DEF Motion!AcceptGoal, Motion!callbacks, Motion!plant, MotionInv
<1> PICK k \in Kinds : kind' = k /\ goals' = Append(goals, Motion!Goal(k))
  OBVIOUS
<1>1. Motion!Goal(k) \in Records /\ Motion!Goal(k).early = FALSE /\ Motion!Goal(k).halted = "no"
      /\ Motion!Goal(k).moved = FALSE
      /\ Motion!Goal(k).status = "executing"
  BY DEF Motion!Goal, Records, Motion!Finished, Motion!Halts
<1>2. goals' \in Seq(Records) /\ Last' = Last + 1 /\ goals'[Last + 1] = Motion!Goal(k)
      /\ \A j \in Motion!Ids : goals'[j] = goals[j]
  BY <1>1, AppendProperties DEF MotionTyped, Last, Motion!Ids
<1>3. Motion!Ids' = Motion!Ids \cup {Last'} /\ Last' \notin Motion!Ids /\ Last \in Nat
  BY <1>2, Numbers DEF Motion!Ids, Last
<1>4. Motion!Live(Last)' /\ \A j \in Motion!Ids : Motion!Live(j)' <=> Motion!Live(j)
  BY <1>1, <1>2 DEF Motion!Live, Motion!Finished
<1>5. worker = "waiting" /\ (\A j \in Motion!Ids : ~ Motion!Live(j)) /\ cancel = Motion!NoCancel
  BY DEF Motion!Idle, Synced, LastOnly
<1>6. MotionTyped' /\ Synced'
  BY <1>2, <1>5 DEF MotionTyped, Synced
<1>7. LastOnly'
  BY <1>2, <1>3, <1>4, <1>5 DEF LastOnly, Motion!NoCancel, Last
<1>8. Early'
  BY <1>1, <1>2, <1>3, <1>4, <1>5 DEF Early, Before
<1>9. Moves'
  BY <1>1, <1>2, <1>3, <1>5 DEF Moves, Before, Motion!NoCancel
<1>10. QED
  BY <1>6, <1>7, <1>8, <1>9

\* The part of a cancel callback under the mutex, for a goal that is live.
LEMMA HandleCancelKeeps ==
    ASSUME MotionInv, Motion!Idle, NEW g \in Motion!Ids, goals[g].status = "executing",
           Motion!HandleCancel(g),
           stops' = stops \/ stops' = Tail(stops),
           UNCHANGED <<kind, pending, worker, job, Motion!plant>>
    PROVE  MotionInv'
<1> USE DEF Motion!callbacks, Motion!plant, MotionInv
<1>0. Motion!Live(g) /\ g = Last /\ worker # "releasing" /\ state # "IDLE"
  BY DEF Motion!Live, Motion!Finished, LastOnly, Synced
<1>1. CASE kind # goals[g].kind
  <2>1. UNCHANGED <<state, cancelRequested, cancel, goals>>
    BY <1>1 DEF Motion!HandleCancel
  <2>2. Motion!Ids' = Motion!Ids /\ Last' = Last
        /\ (\A j \in Motion!Ids : Motion!Live(j)' <=> Motion!Live(j))
        /\ (Motion!Live(Last)' <=> Motion!Live(Last))
    BY <2>1, Zenon DEF Motion!Ids, Last, Motion!Live
  <2>3. QED
    BY <2>1, <2>2 DEF MotionTyped, Synced, LastOnly, Early, Moves
<1>2. CASE kind = goals[g].kind
  <2> DEFINE e == state \notin {"EXECUTING", "STOPPING"}
  <2>1. /\ cancelRequested' = TRUE
        /\ state' = IF e THEN state ELSE "STOPPING"
        /\ cancel' = [goal |-> g, step |-> IF e THEN "accept" ELSE "stop"]
        /\ goals' = [goals EXCEPT ![g].early = e]
    BY <1>0, <1>2 DEF Motion!HandleCancel
  <2>2. /\ goals' \in Seq(Records) /\ Motion!Ids' = Motion!Ids /\ Last' = Last
        /\ \A j \in Motion!Ids : /\ goals'[j].status = goals[j].status
                                 /\ goals'[j].early = (IF j = g THEN e ELSE goals[j].early)
                                 /\ goals'[j].halted = goals[j].halted
                                    /\ goals'[j].moved = goals[j].moved
    <3>1. e \in BOOLEAN /\ MotionTyped
      OBVIOUS
    <3> HIDE DEF e, MotionInv
    <3>2. QED
      BY <2>1, <3>1, EarlyChanges
  <2>3. (\A j \in Motion!Ids : Motion!Live(j)' <=> Motion!Live(j)) /\ Motion!Live(Last)'
    BY <1>0, <2>2 DEF Motion!Live
  <2>4. e => worker \in Before /\ ~ goals[Last].moved
    BY <1>0 DEF Synced, Before, Stages, Early
  <2>5. ~ e => worker \notin Before
    BY <1>0 DEF Synced, Before
  <2>6. cancel'.goal = g /\ g # 0 /\ cancel'.step = IF e THEN "accept" ELSE "stop"
    BY <2>1, Numbers
  <2> HIDE DEF e
  <2>7. MotionTyped' /\ Synced'
    BY <2>1, <2>2, <1>0, <2>4, <2>5 DEF MotionTyped, Synced, Before, e
  <2>8. LastOnly'
    BY <1>0, <2>1, <2>2, <2>3, <2>6 DEF LastOnly
  <2>9. Early'
    BY <1>0, <2>1, <2>2, <2>3, <2>4, <2>5 DEF Early, Before
  <2>10. Moves'
    BY <1>0, <2>1, <2>2, <2>4, <2>5, <2>6, Numbers DEF Moves, Before
  <2>11. QED
    BY <2>7, <2>8, <2>9, <2>10
<1>3. QED
  BY <1>1, <1>2

\* Every step preserves the invariant.
LEMMA MotionNext == MotionInv /\ [Motion!Next]_(Motion!vars) => MotionInv'
<1> SUFFICES ASSUME MotionInv, [Motion!Next]_(Motion!vars) PROVE MotionInv'
  OBVIOUS
<1>1. CASE Quiet
  BY <1>1, QuietKeeps
<1>2. CASE Motion!AcceptGoal
  BY <1>2, AcceptKeeps
<1>3. CASE Motion!CancelStops
  BY <1>3, CancelStopsKeeps
<1>4. CASE Motion!CancelAccepted
  BY <1>4, CancelAcceptedKeeps
<1>5. CASE \E g \in Motion!Ids : Motion!Ask(g)
  BY <1>5, AskKeeps
<1>6. CASE \E g \in Motion!Ids : Motion!CancelRequested(g)
  BY <1>6, HandleCancelKeeps DEF Motion!CancelRequested
<1>7. CASE Motion!StopArrives
  <2>1. CASE \E g \in Motion!Ids : goals[g].status = "executing" /\ Motion!HandleCancel(g)
    BY <1>7, <2>1, HandleCancelKeeps DEF Motion!StopArrives
  <2>2. CASE UNCHANGED <<state, cancelRequested, cancel, goals>>
    <3>1. Motion!Ids' = Motion!Ids /\ Last' = Last
          /\ (\A j \in Motion!Ids : Motion!Live(j)' <=> Motion!Live(j))
          /\ (Motion!Live(Last)' <=> Motion!Live(Last))
      BY <2>2, Zenon DEF Motion!Ids, Last, Motion!Live
    <3>2. QED
      BY <1>7, <2>2, <3>1 DEF Motion!StopArrives, Motion!plant, MotionInv, MotionTyped, Synced,
         LastOnly, Early, Moves
  <2>3. QED
    BY <1>7, <2>1, <2>2 DEF Motion!StopArrives
<1>8. CASE Motion!Execute
  BY <1>8, ExecuteKeeps
<1>9. CASE Motion!GiveUp \/ Motion!Report \/ Motion!Succeed \/ Motion!FinishAsCanceled
  BY <1>9, EndsKeep
<1>10. CASE UNCHANGED Motion!vars
  <2>1. Motion!Ids' = Motion!Ids /\ Last' = Last
        /\ (\A j \in Motion!Ids : Motion!Live(j)' <=> Motion!Live(j))
        /\ (Motion!Live(Last)' <=> Motion!Live(Last))
    BY <1>10, Zenon DEF Motion!Ids, Last, Motion!Live, Motion!vars
  <2>2. QED
    BY <1>10, <2>1 DEF Motion!vars, Motion!callbacks, Motion!plant, MotionInv, MotionTyped,
       Synced, LastOnly, Early, Moves
<1>11. QED
  BY <1>1, <1>2, <1>3, <1>4, <1>5, <1>6, <1>7, <1>8, <1>9, <1>10 DEF Motion!Next,
     Motion!Callbacks, Motion!Worker, Quiet

\* There is no goal at the start.
LEMMA MotionInit == Motion!Init => MotionInv
<1> SUFFICES ASSUME Motion!Init PROVE MotionInv
  OBVIOUS
<1> USE DEF Motion!Init, Motion!NoCancel
<1>1. goals = <<>> /\ Last = 0 /\ Motion!Ids = {}
  BY DEF Last, Motion!Ids
<1>2. MotionTyped
  BY EmptySeq DEF MotionTyped
<1>3. Synced /\ LastOnly /\ Early /\ Moves
  BY <1>1 DEF Synced, LastOnly, Early, Moves, Before, Stages
<1>4. QED
  BY <1>2, <1>3 DEF MotionInv

\* The inductive invariant (motion_command_node.cpp:674-1334).
THEOREM MotionInvariant == Motion!Spec => []MotionInv
BY MotionInit, MotionNext, PTL DEF Motion!Spec

\* The three servers and the worker share one command: a goal is accepted
\* by an idle node only, and an idle node has none (:695, :1113).
THEOREM CommandsAreExclusive == Motion!Spec => []Motion!OneCommand
<1>1. MotionInv => Motion!OneCommand
  BY DEF MotionInv, LastOnly, Synced, Motion!OneCommand
<1>2. QED
  BY <1>1, MotionInvariant, PTL

\* A cancellation accepted before EXECUTING keeps the arm still (:720, :1281).
THEOREM EarlyCancelsAreSafe == Motion!Spec => []Motion!EarlyCancelKeepsStill
<1>1. MotionInv => Motion!EarlyCancelKeepsStill
  BY DEF MotionInv, Early, Motion!EarlyCancelKeepsStill
<1>2. QED
  BY <1>1, MotionInvariant, PTL

\* A command that was told to stop moves the arm only as long as its HOLD is
\* under way; when none could be requested, one that moved by then only as
\* long as MoveIt's stop message is (:624, :728, :1305).
THEOREM StopsAreEffective == Motion!Spec => []Motion!StopIsUnderWay
<1>1. MotionInv => Motion!StopIsUnderWay
  BY DEF MotionInv, LastOnly, Moves, Synced, Motion!StopIsUnderWay
<1>2. QED
  BY <1>1, MotionInvariant, PTL

----------------------------------------------------------------------------
(* The bounds of the motion command node, and both nodes side by side.     *)

\* A busy node has a command, a waiting worker no goal, and a stop names a
\* command that was accepted.
StopRecords == [kind : Kinds, goal : Nat]
Bounded ==
    /\ Last <= MaxGoals
    /\ state # "IDLE" => kind \in Kinds
    /\ worker = "waiting" => job = 0
    /\ cancel \in [goal : Nat, step : {"none", "stop", "accept"}]
    /\ stops \in Seq(StopRecords) /\ Len(stops) <= MaxStops
    /\ \A i \in 1 .. Len(stops) : stops[i].goal \in Motion!Ids

\* No step takes a goal away, and only AcceptGoal, below the bound, adds one.
LEMMA GoalsStay ==
    ASSUME MotionInv, MotionInv', [Motion!Next]_(Motion!vars)
    PROVE  Last' = Last \/ (Motion!AcceptGoal /\ Last' = Last + 1)
<1> USE DEF MotionInv, MotionTyped
<1>1. ASSUME DOMAIN goals' = DOMAIN goals PROVE Last' = Last
  BY <1>1, LenProperties DEF Last
<1>2. CASE Motion!AcceptGoal
  <2>1. PICK k \in Kinds : goals' = Append(goals, Motion!Goal(k))
    BY <1>2 DEF Motion!AcceptGoal
  <2>2. Motion!Goal(k) \in Records
    BY DEF Motion!Goal, Records, Motion!Halts
  <2>3. Last' = Last + 1
    BY <2>1, <2>2, AppendProperties DEF Last
  <2>4. QED
    BY <1>2, <2>3
<1>3. CASE \E g \in Motion!Ids : Motion!Ask(g)
  BY <1>1, <1>3 DEF Motion!Ask
<1>4. CASE (\E g \in Motion!Ids : Motion!CancelRequested(g)) \/ Motion!StopArrives
  BY <1>1, <1>4 DEF Motion!CancelRequested, Motion!StopArrives, Motion!HandleCancel
<1>5. CASE Motion!CancelStops \/ Motion!CancelAccepted
  BY <1>1, <1>5 DEF Motion!CancelStops, Motion!CancelAccepted
<1>6. CASE Motion!Execute \/ Motion!GiveUp \/ Motion!Report \/ Motion!Succeed
           \/ Motion!FinishAsCanceled
  BY <1>1, <1>6 DEF Motion!Execute, Motion!GiveUp, Motion!Report, Motion!Succeed,
                    Motion!FinishAsCanceled, Motion!Conclude
<1>7. CASE Quiet \/ UNCHANGED Motion!vars
  BY <1>1, <1>7 DEF Quiet, Motion!HandleStop, Motion!Take, Motion!SeeCancel, Motion!EnterPlanning,
                    Motion!EnterExecuting, Motion!LastCheck, Motion!HaltArrives, Motion!HoldArrives,
                    Motion!ResetStream, Motion!ExecutionEnds, Motion!Release, Motion!vars
<1>8. QED
  BY <1>2, <1>3, <1>4, <1>5, <1>6, <1>7
     DEF Motion!Next, Motion!Callbacks, Motion!Worker, Quiet

\* A stop is recorded with the kind and the number of the active command.
LEMMA StopIsOfCommand ==
    ASSUME MotionInv, Bounded, Motion!HandleStop
    PROVE  Bounded'
<1> DEFINE r == [kind |-> kind, goal |-> Len(goals)]
<1>1. Last \in Nat /\ Last # 0 /\ Last' = Last /\ Motion!Ids' = Motion!Ids
  BY Numbers DEF MotionInv, LastOnly, Synced, Motion!HandleStop, Last, Motion!Ids
<1>2. r \in StopRecords /\ r.goal \in Motion!Ids
  BY <1>1 DEF Bounded, Motion!HandleStop, StopRecords, Last, Motion!Ids
<1>3. stops' = Append(stops, r)
  BY DEF Motion!HandleStop
<1> HIDE DEF r
<1>4. /\ stops' \in Seq(StopRecords) /\ Len(stops') = Len(stops) + 1
      /\ \A i \in 1 .. Len(stops) : stops'[i] = stops[i]
      /\ stops'[Len(stops) + 1] = r
  BY <1>2, <1>3, AppendProperties DEF Bounded
<1>5. Len(stops) \in Nat /\ Len(stops) < MaxStops
  BY LenProperties DEF Bounded, Motion!HandleStop
<1>6. \A i \in 1 .. Len(stops') : stops'[i].goal \in Motion!Ids
  BY <1>2, <1>4, <1>5 DEF Bounded
<1>7. /\ Last' <= MaxGoals /\ (state' # "IDLE" => kind' \in Kinds)
      /\ worker' = "waiting" => job' = 0
      /\ cancel' \in [goal : Nat, step : {"none", "stop", "accept"}]
  BY <1>1 DEF Bounded, Motion!HandleStop
<1>8. Len(stops') <= MaxStops
  BY <1>4, <1>5, MotionAssumption DEF Motion!CommandAssumption
<1>9. QED
  BY <1>1, <1>4, <1>6, <1>7, <1>8 DEF Bounded

\* The worker returns without its goal, and cancel callbacks are records.
LEMMA HandOver ==
    ASSUME MotionInv, Bounded, [Motion!Next]_(Motion!vars)
    PROVE  /\ worker' = "waiting" => job' = 0
           /\ cancel' \in [goal : Nat, step : {"none", "stop", "accept"}]
<1> USE DEF MotionInv, Bounded
<1>1. Motion!Ids \subseteq Nat
  BY DEF Motion!Ids
<1>2. CASE \/ \E g \in Motion!Ids : Motion!CancelRequested(g)
           \/ Motion!StopArrives
  BY <1>1, <1>2 DEF Motion!CancelRequested, Motion!StopArrives, Motion!HandleCancel
<1>3. CASE Motion!CancelStops \/ Motion!CancelAccepted
  BY <1>3 DEF Motion!CancelStops, Motion!CancelAccepted, Motion!NoCancel
<1>4. CASE Motion!AcceptGoal \/ Motion!HandleStop \/ \E g \in Motion!Ids : Motion!Ask(g)
  BY <1>4 DEF Motion!AcceptGoal, Motion!HandleStop, Motion!Ask, Motion!callbacks
<1>5. CASE Motion!Worker
  BY <1>5 DEF Motion!Worker, Motion!Take, Motion!GiveUp, Motion!SeeCancel, Motion!EnterPlanning,
              Motion!EnterExecuting, Motion!LastCheck, Motion!Execute, Motion!ExecutionEnds,
              Motion!Report, Motion!Succeed, Motion!FinishAsCanceled, Motion!Release,
              Motion!callbacks, Motion!Work, Motion!Conclude
<1>6. CASE Motion!HaltArrives \/ Motion!HoldArrives \/ Motion!ResetStream \/ UNCHANGED Motion!vars
  BY <1>6 DEF Motion!HaltArrives, Motion!HoldArrives, Motion!ResetStream, Motion!vars,
              Motion!callbacks
<1>7. QED
  BY <1>2, <1>3, <1>4, <1>5, <1>6 DEF Motion!Next, Motion!Callbacks

\* Every step keeps the bounds.
LEMMA BoundedKept ==
    ASSUME MotionInv, MotionInv', Bounded, [Motion!Next]_(Motion!vars)
    PROVE  Bounded'
<1> USE DEF MotionInv
<1>1. Last \in Nat
  BY Numbers
<1>2. (Last' = Last \/ Last' = Last + 1) /\ Last' <= MaxGoals
  <2>1. MaxGoals \in Nat /\ Last <= MaxGoals
    BY MotionAssumption DEF Bounded, Motion!CommandAssumption
  <2>2. CASE Motion!AcceptGoal /\ Last' = Last + 1
    BY <1>1, <2>1, <2>2 DEF Motion!AcceptGoal, Last
  <2>3. QED
    BY <1>1, <2>1, <2>2, GoalsStay
<1>3. Motion!Ids \subseteq Motion!Ids'
  BY <1>1, <1>2 DEF Last, Motion!Ids
<1>03. /\ worker' = "waiting" => job' = 0
       /\ cancel' \in [goal : Nat, step : {"none", "stop", "accept"}]
  BY HandOver
<1>4. CASE Motion!HandleStop
  BY <1>4, StopIsOfCommand
<1>5. ASSUME UNCHANGED stops PROVE stops' \in Seq(StopRecords) /\ Len(stops') <= MaxStops
                                   /\ \A i \in 1 .. Len(stops') : stops'[i].goal \in Motion!Ids'
  BY <1>3, <1>5 DEF Bounded
<1>6. CASE Motion!AcceptGoal
  BY <1>2, <1>03, <1>5, <1>6 DEF Motion!AcceptGoal, Motion!callbacks, Bounded
<1>7. CASE Motion!StopArrives
  <2>1. stops # <<>> /\ stops' = Tail(stops)
    BY <1>7 DEF Motion!StopArrives
  <2>2. /\ stops' \in Seq(StopRecords) /\ Len(stops') = Len(stops) - 1
        /\ \A i \in 1 .. Len(stops') : stops'[i] = stops[i + 1]
    BY <2>1, HeadTailProperties DEF Bounded
  <2>3. Len(stops) \in Nat /\ Len(stops) <= MaxStops
    BY LenProperties DEF Bounded
  <2>4. \A i \in 1 .. Len(stops') : i + 1 \in 1 .. Len(stops)
    BY <2>2, <2>3
  <2>5. Len(stops') <= MaxStops
    BY <2>2, <2>3, MotionAssumption DEF Motion!CommandAssumption
  <2>6. \A i \in 1 .. Len(stops') : stops'[i].goal \in Motion!Ids'
    BY <1>3, <2>2, <2>4 DEF Bounded
  <2>7. state' # "IDLE" => kind' \in Kinds
    BY <1>7 DEF Motion!StopArrives, Motion!HandleCancel, Bounded
  <2>8. QED
    BY <1>2, <1>03, <2>2, <2>5, <2>6, <2>7 DEF Bounded
<1>8. CASE \/ \E g \in Motion!Ids : Motion!Ask(g) \/ Motion!CancelRequested(g)
           \/ Motion!CancelStops \/ Motion!CancelAccepted
  <2>1. UNCHANGED stops /\ (state' # "IDLE" => kind' \in Kinds)
    BY <1>8 DEF Motion!Ask, Motion!CancelRequested, Motion!HandleCancel, Motion!CancelStops,
                Motion!CancelAccepted, Motion!callbacks, Bounded
  <2>2. QED
    BY <1>2, <1>03, <1>5, <2>1 DEF Bounded
<1>9. CASE Motion!Worker
  <2>1. UNCHANGED stops
    BY <1>9 DEF Motion!Worker, Motion!Take, Motion!GiveUp, Motion!SeeCancel, Motion!EnterPlanning,
                Motion!EnterExecuting, Motion!LastCheck, Motion!Execute, Motion!ExecutionEnds,
                Motion!Report, Motion!Succeed, Motion!FinishAsCanceled, Motion!Release,
                Motion!callbacks
  <2>2. state' # "IDLE" => kind' \in Kinds
    BY <1>9 DEF Motion!Worker, Motion!Take, Motion!GiveUp, Motion!SeeCancel, Motion!EnterPlanning,
                Motion!EnterExecuting, Motion!LastCheck, Motion!Execute, Motion!ExecutionEnds,
                Motion!Report, Motion!Succeed, Motion!FinishAsCanceled, Motion!Release,
                Synced, Motion!Work, Bounded
  <2>3. QED
    BY <1>2, <1>03, <1>5, <2>1, <2>2 DEF Bounded
<1>10. CASE Motion!HaltArrives \/ Motion!HoldArrives \/ Motion!ResetStream \/ UNCHANGED Motion!vars
  <2>1. UNCHANGED <<stops, state, kind>>
    BY <1>10 DEF Motion!HaltArrives, Motion!HoldArrives, Motion!ResetStream, Motion!vars,
                 Motion!callbacks
  <2>2. QED
    BY <1>2, <1>03, <1>5, <2>1 DEF Bounded
<1>11. QED
  BY <1>4, <1>6, <1>7, <1>8, <1>9, <1>10 DEF Motion!Next, Motion!Callbacks

\* With the bounds, the invariant types every variable.
LEMMA MotionTypes == MotionInv /\ Bounded => Motion!TypeOK
<1> SUFFICES ASSUME MotionInv, Bounded PROVE Motion!TypeOK
  OBVIOUS
<1> USE DEF MotionInv, MotionTyped, Bounded
<1>1. Last \in Nat /\ (Last # 0 => Last \in Motion!Ids) /\ DOMAIN stops = 1 .. Len(stops)
  BY Numbers, LenProperties
<1>2. /\ {cancelRequested, halt, holdAsked, latched} \subseteq BOOLEAN
      /\ Len(goals) <= MaxGoals /\ Len(stops) <= MaxStops
  BY DEF Last
<1>3. \A g \in Motion!Ids : goals[g] \in Records
  BY Numbers
<1>4. pending \in Motion!Ids \cup {0} /\ job \in Motion!Ids \cup {0}
  BY <1>1 DEF LastOnly, Synced
<1>5. cancel \in [goal : Motion!Ids \cup {0}, step : {"none", "stop", "accept"}]
  BY DEF LastOnly
<1>6. \A i \in DOMAIN stops : stops[i] \in [kind : Kinds, goal : Motion!Ids]
  <2> TAKE i \in DOMAIN stops
  <2>1. stops[i] \in StopRecords /\ stops[i].goal \in Motion!Ids
    BY <1>1, ElementOfSeq
  <2>2. QED
    BY <2>1 DEF StopRecords
<1>7. QED
  BY <1>2, <1>3, <1>4, <1>5, <1>6 DEF Motion!TypeOK, Synced, Stages, Records

\* The invariant of both nodes.
LEMMA MotionBounded == Motion!Spec => [](MotionInv /\ Bounded /\ Motion!TypeOK)
<1>1. Motion!Init => MotionInv /\ Bounded
  <2> SUFFICES ASSUME Motion!Init PROVE Bounded
    BY MotionInit
  <2>1. goals = <<>> /\ Last = 0 /\ stops = <<>> /\ stops \in Seq(StopRecords) /\ Len(stops) = 0
    BY EmptySeq DEF Motion!Init, Last
  <2>2. QED
    BY <2>1, MotionAssumption
       DEF Motion!Init, Motion!NoCancel, Bounded, Motion!CommandAssumption
<1>2. MotionInv /\ Bounded /\ [Motion!Next]_(Motion!vars) => (MotionInv /\ Bounded)'
  BY MotionNext, BoundedKept
<1>3. QED
  BY <1>1, <1>2, MotionTypes, PTL DEF Motion!Spec

\* Each node takes the steps of its module, or none.
LEMMA SideBySide == CommandsSpec => Spec /\ Motion!Spec
<1>1. CommandsInit => Init /\ Motion!Init
  BY DEF CommandsInit
<1>2. [JogNode \/ MotionNode]_allVars => [Next]_vars /\ [Motion!Next]_(Motion!vars)
  BY DEF JogNode, MotionNode, allVars, motionVars, Motion!vars, Motion!callbacks, Motion!plant
<1>3. QED
  BY <1>1, <1>2, PTL DEF CommandsSpec, Spec, Motion!Spec

\* Whatever switches time out and are made later, MOVEIT mode means that
\* MoveIt's controller has the arm, and triggerFault never finds its flag
\* up in a jog mode, with the other node at work beside the manager
\* (jog_mode_manager.cpp:205, :369).
THEOREM JogModeBesideCommands ==
    CommandsSpec => [](MoveItModeIsMoveIt /\ FaultNeverIgnored)
BY SideBySide, MoveItKeepsTheArm, FaultsAreHandled, PTL

\* The variables of the motion command node keep their types, and the three
\* servers and the worker share one command: at most one goal has not ended,
\* and an idle node has none (motion_command_node.cpp:695, :1113).
THEOREM CommandsAreOne == CommandsSpec => []OneCommand
<1>1. MotionInv => Motion!OneCommand
  BY DEF MotionInv, LastOnly, Synced, Motion!OneCommand
<1>2. QED
  BY <1>1, SideBySide, MotionBounded, PTL DEF OneCommand

\* A command cancelled before EXECUTING never moves the arm, and one cancelled
\* while it executes moves it only as long as its HOLD is under way, or, when
\* none could be requested, MoveIt's stop message to an arm that moved by then
\* (motion_command_node.cpp:624, :720, :728, :1281, :1305).
THEOREM CancelledStands == CommandsSpec => []CancelledStandsStill
BY SideBySide, EarlyCancelsAreSafe, StopsAreEffective, PTL DEF CancelledStandsStill

=============================================================================
