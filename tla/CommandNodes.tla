---------------------------- MODULE CommandNodes ----------------------------
(***************************************************************************)
(* The two nodes of the host that take an operator's commands and share no *)
(* state: the jog mode manager and the motion command node.  They stand    *)
(* side by side: node is chosen at the start, the other node keeps the     *)
(* state it starts in.                                                     *)
(***************************************************************************)
EXTENDS JogMode

\* Of the motion command node, see MotionCommand.
CONSTANTS Kinds, MaxGoals, MaxStops, HoldOnCancel

VARIABLES
    node,
    state, kind, cancelRequested, pending, goals, worker, job, cancel, stops,
    arm, halt, holdAsked, latched

motionVars == <<state, kind, cancelRequested, pending, goals, worker, job, cancel,
                stops, arm, halt, holdAsked, latched>>
allVars == <<node, vars, motionVars>>

Motion == INSTANCE MotionCommand WITH hold <- holdAsked
ASSUME MotionAssumption == Motion!CommandAssumption

CommandsInit == node \in {"jog", "motion"} /\ Init /\ Motion!Init

JogNode == node = "jog" /\ Next /\ UNCHANGED <<node, motionVars>>
MotionNode == node = "motion" /\ Motion!Next /\ UNCHANGED <<node, vars>>

(* Each node has the fairness that its module states for it.               *)
CommandsSpec ==
    /\ CommandsInit /\ [][JogNode \/ MotionNode]_allVars
    /\ SF_vars(node = "jog" /\ UpdateJogActivity)
    /\ SF_vars(node = "jog" /\ CheckCommandWatchdog)
    /\ WF_vars(node = "jog" /\ Tick)
    /\ WF_vars(node = "jog" /\ SupervisorNotReady)
    /\ WF_vars(node = "jog" /\ SwitchTimesOut)
    /\ WF_vars(node = "jog" /\ ResetTrajectory)
    /\ WF_vars(node = "jog" /\ ResetController)
    /\ WF_motionVars(node = "motion" /\ Motion!Worker)
    /\ WF_motionVars(node = "motion" /\ Motion!HaltArrives)
    /\ WF_motionVars(node = "motion" /\ Motion!HoldArrives)
    /\ WF_motionVars(node = "motion" /\ Motion!CancelStops)
    /\ WF_motionVars(node = "motion" /\ Motion!CancelAccepted)

-----------------------------------------------------------------------------
(* The motion command node has one command; one cancelled before it        *)
(* executes never moves the arm, one cancelled later only as long as what  *)
(* was sent to stop it is under way, a HOLD or, when none can be           *)
(* requested, MoveIt's stop message to a motion that has begun; and every  *)
(* goal ends (see MotionCommand).                                          *)
OneCommand == Motion!TypeOK /\ Motion!OneCommand
CancelledStandsStill == Motion!EarlyCancelKeepsStill /\ Motion!StopIsUnderWay
GoalsEnd == Motion!GoalsEnd
=============================================================================
