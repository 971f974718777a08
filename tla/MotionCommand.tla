---------------------------- MODULE MotionCommand ----------------------------
(***************************************************************************)
(* The command life cycle of the motion command node                       *)
(* (elfin3_motion_command/src/motion_command_node.cpp).  Three action      *)
(* servers accept goals, one at a time between them; a worker thread       *)
(* validates, plans and executes the goal and polls cancel_requested_      *)
(* under command_mutex_ on its way.  The callbacks of the servers and of   *)
(* the stop service run one after another in the node's callback group,    *)
(* concurrently with the worker.  The stop service turns into a cancel     *)
(* request that the node sends to itself.                                  *)
(*                                                                         *)
(* Planning, validation and the supervisor's answer are choices between    *)
(* going on and giving up.  MoveIt and the CAN FD stream are an arm that    *)
(* moves until it is done, fails, or is told to stop: by the stop message  *)
(* to MoveIt, which does nothing when no motion runs yet, or by a HOLD of  *)
(* the stream, which also keeps later motions away until it is reset.      *)
(***************************************************************************)
EXTENDS Integers, Sequences

CONSTANTS
    Kinds,    \* the action servers: MoveJ, MovePose, MovePosePTP
    MaxGoals, \* bound: goals accepted in a behaviour
    MaxStops, \* bound: stop requests under way to the action servers
    HoldOnCancel \* canfd_hold_on_cancel: TRUE with the real arm

CommandAssumption ==
    /\ MaxGoals \in Nat /\ MaxStops \in Nat
    /\ HoldOnCancel \in BOOLEAN

VARIABLES
    state,           \* command_state_
    kind,            \* command_type_
    cancelRequested, \* cancel_requested_
    pending,         \* pending_move_..._goal_, 0 for none
    goals,           \* the goals accepted so far
    worker,          \* where the worker thread is
    job,             \* the goal it works on
    cancel,          \* the cancel callback that has left the mutex
    stops,           \* cancel-all requests of the stop service
    arm,             \* what MoveIt does with the arm
    halt,            \* a stop message to MoveIt is under way
    hold,            \* a HOLD request to the CAN FD stream is under way
    latched          \* the stream is held and needs a reset

callbacks == <<cancel, stops>>
plant == <<arm, halt, hold, latched>>
vars == <<state, kind, cancelRequested, pending, goals, worker, job, callbacks, plant>>

Ids == 1 .. Len(goals)
Finished == {"succeeded", "aborted", "canceled"}
Live(g) == goals[g].status \notin Finished
\* A HOLD can be requested when its service is ready and takes the request.
\* When it cannot, requestCanFdHold says so, and nobody looks at the answer.
Held(sent) == HoldOnCancel /\ sent
RequestHold(sent) == hold' = (Held(sent) \/ hold)
NoCancel == [goal |-> 0, step |-> "none"]

\* For a goal: has somebody asked for its end; was a cancellation of it
\* accepted before EXECUTING; was the arm told to stop for it, and how; did
\* it move.
Goal(k) == [kind |-> k, status |-> "executing",
            asked |-> FALSE, early |-> FALSE, halted |-> "no", moved |-> FALSE]

\* How the arm can be told to stop: with a HOLD, by MoveIt alone while it
\* moves, by MoveIt alone ahead of its motion.
Halts == {"no", "held", "stopped", "ahead"}
Halt(g, sent) == IF Held(sent) THEN "held"
                 ELSE IF goals[g].moved THEN "stopped" ELSE "ahead"

TypeOK ==
    /\ state \in {"IDLE", "VALIDATING", "PLANNING", "EXECUTING", "STOPPING"}
    /\ kind \in Kinds \cup {"none"}
    /\ {cancelRequested, halt, hold, latched} \subseteq BOOLEAN
    /\ Len(goals) <= MaxGoals
    /\ \A g \in Ids :
          goals[g] \in [kind : Kinds, status : Finished \cup {"executing", "canceling"},
                        asked : BOOLEAN, early : BOOLEAN, halted : Halts, moved : BOOLEAN]
    /\ pending \in Ids \cup {0} /\ job \in Ids \cup {0}
    /\ worker \in {"waiting", "validating", "planning", "executing", "starting", "moving",
                   "done", "failed", "concluding", "finishing", "releasing"}
    /\ cancel \in [goal : Ids \cup {0}, step : {"none", "stop", "accept"}]
    /\ Len(stops) <= MaxStops
    /\ \A i \in DOMAIN stops : stops[i] \in [kind : Kinds, goal : Ids]
    /\ arm \in {"still", "moving", "stopped"}

Init ==
    /\ state = "IDLE" /\ kind = "none"
    /\ cancelRequested = FALSE
    /\ pending = 0 /\ job = 0
    /\ goals = <<>>
    /\ worker = "waiting"
    /\ cancel = NoCancel /\ stops = <<>>
    /\ arm = "still" /\ halt = FALSE /\ hold = FALSE /\ latched = FALSE

-----------------------------------------------------------------------------
(* The callbacks: accept a goal, cancel it, stop whatever is going on.     *)

Idle == cancel = NoCancel

\* Mutant: a command that is stopping no longer counts as active.
AcceptGoalWhileStopping ==
    /\ Idle /\ state \in {"IDLE", "STOPPING"} /\ Len(goals) < MaxGoals
    /\ \E k \in Kinds : kind' = k /\ goals' = Append(goals, Goal(k))
    /\ state' = "VALIDATING" /\ cancelRequested' = FALSE
    /\ pending' = Len(goals) + 1
    /\ UNCHANGED <<worker, job, callbacks, plant>>

AcceptGoal ==
    /\ Idle /\ state = "IDLE" /\ Len(goals) < MaxGoals
    /\ \E k \in Kinds : kind' = k /\ goals' = Append(goals, Goal(k))
    /\ state' = "VALIDATING" /\ cancelRequested' = FALSE
    /\ pending' = Len(goals) + 1
    /\ UNCHANGED <<worker, job, callbacks, plant>>

\* Mutant: a command that does not execute yet is only marked.
HandleCancelLater(g) ==
    LET executing == state \in {"EXECUTING", "STOPPING"} IN
    IF state = "IDLE" \/ kind # goals[g].kind
    THEN UNCHANGED <<state, cancelRequested, cancel, goals>>
    ELSE /\ cancelRequested' = (cancelRequested \/ executing)
         /\ state' = IF executing THEN "STOPPING" ELSE state
         /\ cancel' = [goal |-> g, step |-> IF executing THEN "stop" ELSE "accept"]
         /\ goals' = [goals EXCEPT ![g].early = ~ executing]

\* The part of a cancel callback that holds the mutex.
HandleCancel(g) ==
    LET executing == state \in {"EXECUTING", "STOPPING"} IN
    IF state = "IDLE" \/ kind # goals[g].kind
    THEN UNCHANGED <<state, cancelRequested, cancel, goals>>
    ELSE /\ cancelRequested' = TRUE
         /\ state' = IF executing THEN "STOPPING" ELSE state
         /\ cancel' = [goal |-> g, step |-> IF executing THEN "stop" ELSE "accept"]
         /\ goals' = [goals EXCEPT ![g].early = ~ executing]

\* A client asks to cancel its goal.
Ask(g) ==
    /\ Idle
    /\ goals[g].status = "executing" /\ ~ goals[g].asked
    /\ goals' = [goals EXCEPT ![g].asked = TRUE]
    /\ UNCHANGED <<state, kind, cancelRequested, pending, worker, job, callbacks, plant>>

\* Mutant: a goal that the worker has not taken needs no worker any more.
CancelRequestedUnqueues(g) ==
    /\ Idle
    /\ goals[g].status = "executing" /\ goals[g].asked
    /\ HandleCancel(g)
    /\ pending' = 0
    /\ UNCHANGED <<kind, worker, job, stops, plant>>

\* Its request reaches the action server, which drops it when the goal has
\* ended meanwhile.
CancelRequested(g) ==
    /\ Idle
    /\ goals[g].status = "executing" /\ goals[g].asked
    /\ HandleCancel(g)
    /\ UNCHANGED <<kind, pending, worker, job, stops, plant>>

\* The request that the node sends names the server only; "goal" is the
\* command that was active.
HandleStop ==
    /\ Idle /\ state # "IDLE" /\ Len(stops) < MaxStops
    /\ stops' = Append(stops, [kind |-> kind, goal |-> Len(goals)])
    /\ UNCHANGED <<state, kind, cancelRequested, pending, goals, worker, job, cancel, plant>>

\* The cancel-all request of an earlier stop reaches the server of its kind.
StopArrives ==
    /\ Idle /\ stops # <<>>
    /\ stops' = Tail(stops)
    /\ LET to == { g \in Ids : goals[g].kind = Head(stops).kind /\ goals[g].status = "executing" } IN
       \/ \E g \in to : HandleCancel(g)
       \/ to = {} /\ UNCHANGED <<state, cancelRequested, cancel, goals>>
    /\ UNCHANGED <<kind, pending, worker, job, plant>>

\* Mutant: MoveIt alone is told to stop.
CancelStopsMoveIt ==
    /\ cancel.step = "stop"
    /\ halt' = TRUE
    /\ \E sent \in BOOLEAN :
          goals' = [goals EXCEPT ![cancel.goal].halted = Halt(cancel.goal, sent)]
    /\ cancel' = [cancel EXCEPT !.step = "accept"]
    /\ UNCHANGED <<state, kind, cancelRequested, pending, worker, job, stops, arm, hold, latched>>

\* Mutant: without a HOLD the callback returns early.
CancelStopsByHold ==
    /\ cancel.step = "stop"
    /\ \E sent \in BOOLEAN :
          /\ RequestHold(sent) /\ halt' = (sent \/ halt)
          /\ goals' = [goals EXCEPT ![cancel.goal].halted = Halt(cancel.goal, sent)]
    /\ cancel' = [cancel EXCEPT !.step = "accept"]
    /\ UNCHANGED <<state, kind, cancelRequested, pending, worker, job, stops, arm, latched>>

\* A HOLD is requested, which may fail, and MoveIt told to stop.
CancelStops ==
    /\ cancel.step = "stop" /\ halt' = TRUE
    /\ \E sent \in BOOLEAN :
          /\ RequestHold(sent)
          /\ goals' = [goals EXCEPT ![cancel.goal].halted = Halt(cancel.goal, sent)]
    /\ cancel' = [cancel EXCEPT !.step = "accept"]
    /\ UNCHANGED <<state, kind, cancelRequested, pending, worker, job, stops, arm, latched>>

\* The server makes an accepted cancellation visible, unless the goal ended.
CancelAccepted ==
    /\ cancel.step = "accept"
    /\ cancel' = NoCancel
    /\ goals' = [goals EXCEPT ![cancel.goal].status = IF @ = "executing" THEN "canceling" ELSE @]
    /\ UNCHANGED <<state, kind, cancelRequested, pending, worker, job, stops, plant>>

-----------------------------------------------------------------------------
(* The worker.                                                             *)

Work(from, to) == worker = from /\ worker' = to

Conclude(status) ==
    /\ goals' = [goals EXCEPT ![job].status = status]
    /\ worker' = "releasing"

Take ==
    /\ Work("waiting", "validating") /\ pending # 0
    /\ job' = pending /\ pending' = 0
    /\ UNCHANGED <<state, kind, cancelRequested, goals, callbacks, plant>>

\* The goal is invalid, the supervisor is not ready, planning fails, or an
\* exception reaches the worker.
GiveUp ==
    /\ worker \in {"validating", "planning", "executing"}
    /\ Conclude("aborted")
    /\ UNCHANGED <<state, kind, cancelRequested, pending, job, callbacks, plant>>

\* One of the polls of cancel_requested_ finds it set.
SeeCancel ==
    /\ worker \in {"validating", "planning", "executing", "done", "failed"}
    /\ cancelRequested
    /\ worker' = "finishing" /\ state' = "STOPPING"
    /\ UNCHANGED <<kind, cancelRequested, pending, goals, job, callbacks, plant>>

EnterPlanning ==
    /\ Work("validating", "planning") /\ ~ cancelRequested
    /\ state' = "PLANNING"
    /\ UNCHANGED <<kind, cancelRequested, pending, goals, job, callbacks, plant>>

EnterExecuting ==
    /\ Work("planning", "executing") /\ ~ cancelRequested
    /\ state' = "EXECUTING"
    /\ UNCHANGED <<kind, cancelRequested, pending, goals, job, callbacks, plant>>

LastCheck ==
    /\ Work("executing", "starting") /\ ~ cancelRequested
    /\ UNCHANGED <<state, kind, cancelRequested, pending, goals, job, callbacks, plant>>

\* execute() starts the motion, or MoveIt, the controller or the stream
\* refuses it.
Execute ==
    /\ \/ Work("starting", "moving") /\ ~ latched
          /\ arm' = "moving"
          /\ goals' = [goals EXCEPT ![job].moved = TRUE]
       \/ Work("starting", "failed") /\ UNCHANGED <<arm, goals>>
    /\ UNCHANGED <<state, kind, cancelRequested, pending, job, callbacks, halt, hold, latched>>

Stopped == IF arm = "moving" THEN "stopped" ELSE arm

HaltArrives ==
    /\ halt /\ halt' = FALSE /\ arm' = Stopped
    /\ UNCHANGED <<state, kind, cancelRequested, pending, goals, worker, job, callbacks, hold, latched>>

HoldArrives ==
    /\ hold /\ hold' = FALSE /\ latched' = TRUE /\ arm' = Stopped
    /\ UNCHANGED <<state, kind, cancelRequested, pending, goals, worker, job, callbacks, halt>>

\* An operator resets the stream between two commands.
ResetStream ==
    /\ latched /\ state = "IDLE" /\ latched' = FALSE
    /\ UNCHANGED <<state, kind, cancelRequested, pending, goals, worker, job, callbacks, arm, halt, hold>>

ExecutionEnds ==
    /\ \/ arm = "moving" /\ Work("moving", "done")
       \/ Work("moving", "failed")
    /\ arm' = "still"
    /\ UNCHANGED <<state, kind, cancelRequested, pending, goals, job, callbacks, halt, hold, latched>>

\* A failed execution requests a HOLD of its own, which may fail as well.
Report ==
    /\ ~ cancelRequested
    /\ \/ Work("done", "concluding") /\ UNCHANGED <<goals, hold>>
       \/ worker = "failed" /\ Conclude("aborted")
          /\ \E sent \in BOOLEAN : RequestHold(sent)
    /\ UNCHANGED <<state, kind, cancelRequested, pending, job, callbacks, arm, halt, latched>>

Succeed ==
    /\ worker = "concluding" /\ Conclude("succeeded")
    /\ UNCHANGED <<state, kind, cancelRequested, pending, job, callbacks, plant>>

\* Wait for the cancellation to become visible, for 100 ms at most.
FinishAsCanceled ==
    /\ worker = "finishing"
    /\ Conclude(IF goals[job].status = "canceling" THEN "canceled" ELSE "aborted")
    /\ UNCHANGED <<state, kind, cancelRequested, pending, job, callbacks, plant>>

Release ==
    /\ Work("releasing", "waiting")
    /\ state' = "IDLE" /\ kind' = "none" /\ cancelRequested' = FALSE
    /\ job' = 0
    /\ UNCHANGED <<pending, goals, callbacks, plant>>

-----------------------------------------------------------------------------
Callbacks ==
    \/ AcceptGoal \/ HandleStop \/ StopArrives \/ CancelStops \/ CancelAccepted
    \/ \E g \in Ids : Ask(g) \/ CancelRequested(g)

Worker ==
    \/ Take \/ GiveUp \/ SeeCancel \/ EnterPlanning \/ EnterExecuting \/ LastCheck
    \/ Execute \/ ExecutionEnds \/ Report \/ Succeed \/ FinishAsCanceled \/ Release

Next == Callbacks \/ Worker \/ HaltArrives \/ HoldArrives \/ ResetStream

Spec == Init /\ [][Next]_vars

\* The worker runs, what MoveIt was asked for ends, and messages arrive.
LiveSpec ==
    /\ Spec
    /\ WF_vars(Worker)
    /\ WF_vars(HaltArrives) /\ WF_vars(HoldArrives)
    /\ WF_vars(CancelStops) /\ WF_vars(CancelAccepted)

-----------------------------------------------------------------------------
\* The three servers and the worker share one command: an idle node has no
\* goal that has not ended, and a busy one has one
\* (motion_command_node.cpp:695, :1113).
OneCommand ==
    /\ \A g, h \in Ids : Live(g) /\ Live(h) => g = h
    /\ state = "IDLE" => \A g \in Ids : ~ Live(g)

\* A cancellation accepted before EXECUTING keeps the arm still, wherever
\* the worker is between two polls (motion_command_node.cpp:720, :1281).
EarlyCancelKeepsStill == \A g \in Ids : goals[g].early => ~ goals[g].moved

\* A command told to stop while it executes moves the arm only as long as
\* what stops it is under way: the HOLD, if one could be requested, also when
\* the stop message found nothing to stop because the motion had not begun,
\* and otherwise the stop message, if the arm moved when it was sent
\* (motion_command_node.cpp:624, :728, :1305).  Nothing is promised of a
\* motion that begins after the stop message when no HOLD could be requested.
StopIsUnderWay ==
    arm = "moving" => /\ goals[job].halted = "held" => hold
                      /\ goals[job].halted = "stopped" => halt

\* Every accepted goal gets its result (motion_command_node.cpp:737).
GoalsEnd == \A g \in 1 .. MaxGoals : (g \in Ids) ~> (g \in Ids /\ ~ Live(g))

=============================================================================
