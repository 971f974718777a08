---------------------------- MODULE DriveEnable ----------------------------
(***************************************************************************)
(* The CiA402 enable sequence of ECAT_runtime.c: the EtherCAT task, which  *)
(* exchanges the process data, dispatches the drive state and asks for the *)
(* enable, and the axes, which follow the controlwords in their own time.  *)
(*                                                                         *)
(* A failed exchange may have reached some of the axes.  Positions, modes  *)
(* and velocities are abstracted to two conditions, csp and settled, which *)
(* the machine may gain and lose at any time.  The sequence starts where   *)
(* BrakeRelease ends.  The exchange of the trajectory is in MotionLoop.    *)
(***************************************************************************)
EXTENDS Naturals

CONSTANTS
  Axes,           \* the six axes of the three slaves
  DelayCycles,    \* ECAT_RUNTIME_CW06_DELAY_CYCLES
  Timeout,        \* the five timeouts of 1000 cycles
  LossCycles,     \* ECAT_RUNTIME_CW06_READY_LOSS, ECAT_RUNTIME_CW07_SWITCH_LOSS
  StableCycles,   \* ECAT_RUNTIME_CW0F_TARGET_STABLE_CYCLES
  RollbackLimit,  \* ECAT_RUNTIME_WKC_ROLLBACK_LIMIT
  FaultLimit      \* ECAT_RUNTIME_WKC_FAULT_LIMIT, above RollbackLimit

VARIABLES
  op,           \* ECAT_ctx.state
  pc,           \* where defaultTask is in its loop
  runtime,      \* the drive state, its counters and the enable request
  bad,          \* bad_wkc_continuous
  accepted,     \* enable_request_accepted of the task
  controlword,  \* the word staged for every axis
  wire,         \* the word each axis received last
  axis,         \* the state each axis reports in its statusword
  csp,          \* every axis shows mode 8
  settled,      \* targets and feedback pass the other checks before the enable
  quick         \* the quick stop is latched (MotionLoop)
vars == <<op, pc, runtime, bad, accepted, controlword, wire, axis, csp, settled, quick>>

Words == {0, 6, 7, 11, 15, 31}
AxisStates == {"SwitchOnDisabled", "ReadyToSwitchOn", "SwitchedOn",
               "OperationEnabled", "QuickStopActive", "Fault"}
DriveStates == {"CW06_DISABLED", "CW06_WAIT_DELAY", "CW06_WAIT_READY", "CW06_DONE",
                "CW07_WAIT_SWITCHED_ON", "CW07_DONE", "CW0F_WAIT_TARGET_STABLE",
                "CW0F_WAIT_OPERATION_ENABLED", "CW0F_DONE", "TEST",
                "CW0F_ROLLBACK_CW07", "CW06_ROLLBACK_ZERO", "CW06_FAILED"}

Init ==
  /\ op = "OPERATIONAL" /\ pc = "process" /\ accepted = FALSE
  /\ runtime = [drive |-> "CW06_WAIT_DELAY", cycles |-> 0, stable |-> 0,
                request |-> FALSE]
  /\ bad = 0 /\ controlword = 0 /\ wire = [a \in Axes |-> 0]
  /\ axis = [a \in Axes |-> "SwitchOnDisabled"]
  /\ csp \in BOOLEAN /\ settled \in BOOLEAN /\ quick = FALSE

----------------------------------------------------------------------------
(* The axes (CiA402) and their surroundings.                               *)
Obeyed(s, w) ==
  CASE s = "Fault"                                 -> s
    [] w = 0                                       -> "SwitchOnDisabled"
    [] s = "SwitchOnDisabled" /\ w \in {6, 7}      -> "ReadyToSwitchOn"
    [] s = "ReadyToSwitchOn" /\ w \in {7, 15, 31}  -> "SwitchedOn"
    [] s = "SwitchedOn" /\ w \in {15, 31}          -> "OperationEnabled"
    [] s = "SwitchedOn" /\ w = 6                   -> "ReadyToSwitchOn"
    [] s = "OperationEnabled" /\ w = 7             -> "SwitchedOn"
    [] s = "OperationEnabled" /\ w = 6             -> "ReadyToSwitchOn"
    [] s = "OperationEnabled" /\ w = 11            -> "QuickStopActive"
    [] s \notin {"SwitchOnDisabled", "QuickStopActive"} /\ w = 11 -> "SwitchOnDisabled"
    [] OTHER                                       -> s

Obey(a) ==
  /\ axis[a] # Obeyed(axis[a], wire[a])
  /\ axis' = [axis EXCEPT ![a] = Obeyed(@, wire[a])]
  /\ UNCHANGED <<op, pc, runtime, bad, accepted, controlword, wire, csp, settled, quick>>

(* A fault, or the loss of the supply or of the enabling input.            *)
Trip(a) ==
  /\ \E s \in {"Fault", "SwitchOnDisabled"} \ {axis[a]} :
       axis[a] # "Fault" /\ axis' = [axis EXCEPT ![a] = s]
  /\ UNCHANGED <<op, pc, runtime, bad, accepted, controlword, wire, csp, settled, quick>>

Settle ==
  /\ settled' = ~settled
  /\ UNCHANGED <<op, pc, runtime, bad, accepted, controlword, wire, axis, csp, quick>>

ChangeMode ==
  /\ csp' = ~csp
  /\ UNCHANGED <<op, pc, runtime, bad, accepted, controlword, wire, axis, settled, quick>>

QuickStop ==
  /\ ~quick /\ quick' = TRUE
  /\ UNCHANGED <<op, pc, runtime, bad, accepted, controlword, wire, axis, csp, settled>>

----------------------------------------------------------------------------
(* What the handlers are made of.                                          *)
Matches(s) == \A a \in Axes : axis[a] = s
FaultFound == \E a \in Axes : axis[a] = "Fault"

Fresh(r) == [r EXCEPT !.cycles = 0]
FreshTarget(r) == [r EXCEPT !.cycles = 0, !.stable = 0]
FreshRequest(r) == [r EXCEPT !.cycles = 0, !.stable = 0, !.request = FALSE]
OneMore == [runtime EXCEPT !.cycles = @ + 1]

Keep(r) == runtime' = r /\ UNCHANGED <<controlword, op>>
Enter(r, state) == Keep([r EXCEPT !.drive = state])
Command(r, state, word) ==
  runtime' = [r EXCEPT !.drive = state] /\ controlword' = word /\ UNCHANGED op

RollbackToZero(r) == Command(r, "CW06_ROLLBACK_ZERO", 0)
RollbackToSwitchedOn(r) == Command(r, "CW0F_ROLLBACK_CW07", 7)

(* ECAT_EnterError.  No SDO job is left, so the context is closed at once. *)
EnterError ==
  /\ op' = "ERROR" /\ UNCHANGED controlword
  /\ runtime' = [drive |-> "CW06_DISABLED", cycles |-> 0, stable |-> 0,
                 request |-> FALSE]

----------------------------------------------------------------------------
(* One handler for each drive state, run after a good exchange.            *)
HandleWaitDelay ==
  \/ OneMore.cycles < DelayCycles /\ Keep(OneMore)
  \/ /\ OneMore.cycles >= DelayCycles /\ Matches("SwitchOnDisabled")
     /\ Command(Fresh(runtime), "CW06_WAIT_READY", 6)
  \/ /\ OneMore.cycles >= DelayCycles /\ ~Matches("SwitchOnDisabled")
     /\ Command(Fresh(runtime), "CW06_FAILED", 0)

HandleWaitReady ==
  \/ Matches("ReadyToSwitchOn") /\ Enter(Fresh(runtime), "CW06_DONE")
  \/ /\ ~Matches("ReadyToSwitchOn")
     /\ IF FaultFound \/ OneMore.cycles >= Timeout
        THEN RollbackToZero(Fresh(runtime)) ELSE Keep(OneMore)

HandleReadyToSwitchOn ==
  \/ Matches("ReadyToSwitchOn") /\ Command(Fresh(runtime), "CW07_WAIT_SWITCHED_ON", 7)
  \/ /\ ~Matches("ReadyToSwitchOn")
     /\ IF FaultFound \/ OneMore.cycles >= LossCycles
        THEN RollbackToZero(Fresh(runtime)) ELSE Keep(OneMore)

HandleWaitSwitchedOn ==
  \/ Matches("SwitchedOn") /\ Enter(Fresh(runtime), "CW07_DONE")
  \/ /\ ~Matches("SwitchedOn")
     /\ IF FaultFound \/ OneMore.cycles >= Timeout
        THEN RollbackToZero(Fresh(runtime)) ELSE Keep(OneMore)

(* Mutant: the drives are looked at only when an enable is asked for.      *)
SwitchedOnUnwatched ==
  \/ ~runtime.request /\ Keep(Fresh(runtime))
  \/ /\ runtime.request /\ Matches("SwitchedOn")
     /\ IF csp THEN Enter(FreshRequest(runtime), "CW0F_WAIT_TARGET_STABLE")
        ELSE RollbackToZero(FreshRequest(runtime))
  \/ /\ runtime.request /\ ~Matches("SwitchedOn")
     /\ RollbackToZero(FreshRequest(runtime))

(* The targets are relatched, which fails when a mode is not CSP.          *)
HandleSwitchedOn ==
  \/ Matches("SwitchedOn") /\ ~runtime.request /\ Keep(Fresh(runtime))
  \/ /\ Matches("SwitchedOn") /\ runtime.request
     /\ IF csp THEN Enter(FreshRequest(runtime), "CW0F_WAIT_TARGET_STABLE")
        ELSE RollbackToZero(FreshRequest(runtime))
  \/ /\ ~Matches("SwitchedOn")
     /\ LET r == [OneMore EXCEPT !.request = FALSE] IN
        IF FaultFound \/ r.cycles >= LossCycles THEN RollbackToZero(Fresh(r)) ELSE Keep(r)

(* The timeout counts while the targets are stable, too.                   *)
HandleWaitTargetStable ==
  LET r == [OneMore EXCEPT !.stable = IF Matches("SwitchedOn") /\ csp /\ settled THEN @ + 1 ELSE 0]
  IN  IF r.stable >= StableCycles
      THEN Command(FreshTarget(r), "CW0F_WAIT_OPERATION_ENABLED", 15)
      ELSE IF FaultFound \/ r.cycles >= Timeout THEN RollbackToZero(FreshTarget(r))
           ELSE Keep(r)

HandleWaitOperationEnabled ==
  \/ Matches("OperationEnabled") /\ Enter(FreshTarget(runtime), "CW0F_DONE")
  \/ /\ ~Matches("OperationEnabled")
     /\ \/ FaultFound /\ RollbackToZero(FreshTarget(runtime))
        \/ /\ ~FaultFound
           /\ IF OneMore.cycles >= Timeout
              THEN RollbackToSwitchedOn(FreshTarget(runtime)) ELSE Keep(OneMore)

FallBack ==
  \/ FaultFound /\ RollbackToZero(FreshRequest(runtime))
  \/ ~FaultFound /\ RollbackToSwitchedOn(FreshRequest(runtime))

(* test_completed is never set.                                            *)
HandleOperationEnabled ==
  \/ Matches("OperationEnabled") /\ Enter(FreshTarget(runtime), "TEST")
  \/ ~Matches("OperationEnabled") /\ FallBack

(* A point sets bit 4 of the controlwords, a hold leaves them.             *)
HandleTest ==
  \/ quick /\ Command(runtime, "TEST", 11)
  \/ ~quick /\ ~Matches("OperationEnabled") /\ FallBack
  \/ ~quick /\ Matches("OperationEnabled") /\ ~csp /\ EnterError
  \/ /\ ~quick /\ Matches("OperationEnabled") /\ csp
     /\ (Keep(runtime) \/ Command(runtime, "TEST", 31))

HandleRollbackToSwitchedOn ==
  \/ Matches("SwitchedOn") /\ Enter(FreshRequest(runtime), "CW07_DONE")
  \/ /\ ~Matches("SwitchedOn")
     /\ IF FaultFound \/ OneMore.cycles >= Timeout
        THEN RollbackToZero(FreshRequest(runtime)) ELSE Keep(OneMore)

DispatchDriveState ==
  \/ runtime.drive = "CW06_WAIT_DELAY" /\ HandleWaitDelay
  \/ runtime.drive = "CW06_WAIT_READY" /\ HandleWaitReady
  \/ runtime.drive = "CW06_DONE" /\ HandleReadyToSwitchOn
  \/ runtime.drive = "CW07_WAIT_SWITCHED_ON" /\ HandleWaitSwitchedOn
  \/ runtime.drive = "CW07_DONE" /\ HandleSwitchedOn
  \/ runtime.drive = "CW0F_WAIT_TARGET_STABLE" /\ HandleWaitTargetStable
  \/ runtime.drive = "CW0F_WAIT_OPERATION_ENABLED" /\ HandleWaitOperationEnabled
  \/ runtime.drive = "CW0F_DONE" /\ HandleOperationEnabled
  \/ runtime.drive = "TEST" /\ HandleTest
  \/ runtime.drive = "CW0F_ROLLBACK_CW07" /\ HandleRollbackToSwitchedOn
  \/ runtime.drive \in {"CW06_ROLLBACK_ZERO", "CW06_FAILED"}
       /\ Command(runtime, "CW06_FAILED", 0)

----------------------------------------------------------------------------
Active == DriveStates \ {"CW06_DISABLED", "CW06_WAIT_DELAY", "CW06_ROLLBACK_ZERO",
                         "CW06_FAILED"}

(* Mutant: every state falls back to Switched On when the bus fails.       *)
ExchangeFailureSoft ==
  IF bad' < RollbackLimit \/ runtime.drive = "CW06_WAIT_DELAY" THEN Keep(runtime)
  ELSE RollbackToSwitchedOn(FreshRequest(runtime))

HandlePdoExchangeFailure ==
  IF bad' < RollbackLimit THEN Keep(runtime)
  ELSE IF bad' >= FaultLimit THEN EnterError
  ELSE IF runtime.drive \in Active THEN RollbackToZero(FreshRequest(runtime))
  ELSE IF runtime.drive = "CW06_WAIT_DELAY" THEN Keep(Fresh(runtime))
  ELSE Keep(runtime)

(* Both come from ECAT_Process, in OPERATIONAL.                            *)
Process ==
  /\ pc = "process" /\ op = "OPERATIONAL" /\ pc' = "request"
  /\ UNCHANGED <<accepted, axis, csp, settled, quick>>

GoodExchange ==
  /\ Process /\ bad' = 0
  /\ wire' = [a \in Axes |-> controlword]
  /\ DispatchDriveState

(* Some axes may have received the frame.                                  *)
BadExchange ==
  /\ Process /\ bad' = bad + 1
  /\ \E reached \in SUBSET Axes :
       wire' = [a \in Axes |-> IF a \in reached THEN controlword ELSE wire[a]]
  /\ HandlePdoExchangeFailure

(* Mutant: the loop forgets that its request was accepted.                 *)
RequestEveryCycle ==
  /\ pc = "request" /\ pc' = "process"
  /\ runtime' = [runtime EXCEPT !.request = @ \/ runtime.drive = "CW07_DONE"]
  /\ UNCHANGED <<op, bad, accepted, controlword, wire, axis, csp, settled, quick>>

(* The rest of the loop of defaultTask.                                    *)
RequestEnable ==
  /\ pc = "request" /\ pc' = "process"
  /\ \/ op = "ERROR" /\ accepted' = FALSE /\ UNCHANGED runtime
     \/ /\ op = "OPERATIONAL"
        /\ LET granted == ~accepted /\ runtime.drive = "CW07_DONE" /\ ~runtime.request IN
           /\ accepted' = (accepted \/ granted)
           /\ runtime' = [runtime EXCEPT !.request = @ \/ granted]
  /\ UNCHANGED <<op, bad, controlword, wire, axis, csp, settled, quick>>

Task == GoodExchange \/ BadExchange \/ RequestEnable
Obeying == \E a \in Axes : Obey(a)
Next == Task \/ Obeying \/ (\E a \in Axes : Trip(a)) 
        \/ Settle \/ ChangeMode \/ QuickStop

Spec == Init /\ [][Next]_vars
FairSpec == Spec /\ WF_vars(Task)

----------------------------------------------------------------------------
TypeOK ==
  /\ op \in {"OPERATIONAL", "ERROR"} /\ pc \in {"process", "request"}
  /\ runtime \in [drive : DriveStates, cycles : 0..(DelayCycles + Timeout + LossCycles),
                  stable : 0..StableCycles, request : BOOLEAN]
  /\ bad \in 0..FaultLimit /\ accepted \in BOOLEAN /\ controlword \in Words
  /\ wire \in [Axes -> Words] /\ axis \in [Axes -> AxisStates]
  /\ {csp, settled, quick} \subseteq BOOLEAN

(* Whatever frames are lost, whatever the axes do meanwhile and wherever   *)
(* the sequence falls back from, an axis gets the words one after the      *)
(* other: 0x0007 only after 0x0006 or from the enabled states, 0x000F only *)
(* after 0x0007.                                                           *)
Predecessors(w) ==
  CASE w = 6 -> {0} [] w = 7 -> {6, 15, 31} [] w = 15 -> {7}
    [] w \in {31, 11} -> {15, 31, 11} [] OTHER -> Words
WordsInOrder ==
  [][\A a \in Axes : wire'[a] # wire[a] => wire[a] \in Predecessors(wire'[a])]_vars

(* Axes that were given up are not enabled again in this power cycle: not  *)
(* after a fall back to Switched On, whatever requests the task makes, and *)
(* not after the words were set to zero, whatever the bus does.            *)
GivenUp == runtime.drive \in {"CW0F_ROLLBACK_CW07", "CW06_ROLLBACK_ZERO"}
GivenUpForGood == [](GivenUp => [](controlword \notin {15, 31}))
ZeroForGood == [](runtime.drive = "CW06_ROLLBACK_ZERO" => [](controlword = 0))

(* The three together: what the controlwords on the wire may never do.     *)
WordsSafe == WordsInOrder /\ GivenUpForGood /\ ZeroForGood

(* An axis in fault makes the controller take all of them back, wherever   *)
(* the sequence is and however the bus behaves: the words go to zero, or   *)
(* hold the quick stop, or the bus is given up.                            *)
FaultStopsAll ==
  (\E a \in Axes : axis[a] = "Fault")
    ~> (controlword \in {0, 11} \/ op = "ERROR")

=============================================================================
