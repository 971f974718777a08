---------------------------- MODULE BrakeRelease ----------------------------
(***************************************************************************)
(* The brake sequence of ECAT_runtime.c: before the axes are enabled, the  *)
(* brake of every axis is opened and closed once by SDO transfers, which a *)
(* task of low priority carries out for the EtherCAT task through one job  *)
(* slot; and the end of the EtherCAT context after an error, which has to  *)
(* wait for that task.                                                     *)
(*                                                                         *)
(* The EtherCAT task preempts the worker anywhere and is never preempted   *)
(* by it.  A transfer may fail, with its effect or without it.             *)
(***************************************************************************)
EXTENDS Naturals

CONSTANTS
  LastSlave,      \* ECAT_LAST_SLAVE; the slaves are numbered from 1
  WaitCycles,     \* ECAT_RUNTIME_BRAKE_DELAY_US in cycles
  RollbackLimit   \* ECAT_RUNTIME_WKC_ROLLBACK_LIMIT

ASSUME BrakeAssumption ==
  /\ LastSlave \in Nat \ {0} /\ WaitCycles \in Nat /\ RollbackLimit \in Nat \ {0}

Slaves == 1..LastSlave
Axes == {1, 2}

(* ECAT_RuntimeBrakeStep, in its order.                                    *)
IDLE == 0
SET_MODE_11 == 1
WRITE_OPEN_COMMAND == 2
WAIT_OPEN_FEEDBACK == 3
WAIT_OPEN_10_MS == 4
WRITE_OPEN_CLEAR_COMMAND == 5
WAIT_OPEN_FEEDBACK_CLEAR == 6
WRITE_EXECUTE_COMMAND == 7
WAIT_EXECUTE_FEEDBACK == 8
WAIT_10_MS == 9
WRITE_CLEAR_COMMAND == 10
WAIT_FEEDBACK_CLEAR == 11
WRITE_COMMAND_ZERO == 12
RELATCH_TARGET_AND_SET_MODE_8 == 13
DONE == 14

VARIABLES
  op,       \* ECAT_ctx.state
  closing,  \* close_pending
  open,     \* context_open
  ready,    \* cyclic_mbx_service_ready
  drive,    \* runtime.drive_state
  bad,      \* bad_wkc_continuous
  brake,    \* runtime.brake; waited counts the cycles since wait_start_us
  mode,     \* the modes of operation in the output image
  job,      \* runtime.sdo_job
  worker,   \* the SDO worker: where it is, and its copy of the job
  device,   \* per axis: the command object, the two feedback objects
  sent      \* history: how often each axis was commanded to open, to close
vars == <<op, closing, open, ready, drive, bad, brake, mode, job, worker, device, sent>>
ecat == <<op, closing, open, ready>>

NoBrake == [step |-> IDLE, slave |-> 0, retry |-> 0, first |-> "NONE", waited |-> 0]
NoJob == [state |-> "IDLE", slave |-> 0, index |-> <<>>, data |-> "ZERO", ok |-> FALSE]
NoWork == [pc |-> "idle", write |-> FALSE, slave |-> 0, index |-> <<>>, data |-> "ZERO", ok |-> FALSE]

Commands == {"OPEN", "EXECUTE", "CLEAR", "ZERO"}
Feedbacks == {"OPENED", "EXECUTED", "NONE"}

(* After ECAT_RuntimeRequestOp; the image holds the modes the axes showed. *)
Init ==
  /\ op = "OPERATIONAL" /\ closing = FALSE /\ open = TRUE /\ ready = TRUE
  /\ drive = "AXIS1_BRAKE_RELEASE" /\ bad = 0 /\ brake = NoBrake
  /\ \E m \in {0, 8} : mode = [x \in Slaves \X Axes |-> m]
  /\ job = NoJob /\ worker = NoWork
  /\ device = [x \in Slaves \X Axes |->
                 [command |-> "ZERO", fb1 |-> "NONE", fb2 |-> "NONE"]]
  /\ sent = [x \in Slaves \X Axes |-> [OPEN |-> 0, EXECUTE |-> 0]]

----------------------------------------------------------------------------
(* A drive acts on its command object and shows it in two feedback objects,*)
(* one after the other.                                                    *)
Shown(c) == CASE c = "OPEN" -> "OPENED" [] c = "EXECUTE" -> "EXECUTED" [] OTHER -> "NONE"

Feedback(x) ==
  /\ \/ device[x].fb1 # Shown(device[x].command) /\ device[x].command # "ZERO"
        /\ device' = [device EXCEPT ![x].fb1 = Shown(device[x].command)]
     \/ device[x].fb2 # Shown(device[x].command) /\ device[x].command # "ZERO"
        /\ device' = [device EXCEPT ![x].fb2 = Shown(device[x].command)]
  /\ UNCHANGED <<ecat, drive, bad, brake, mode, job, worker, sent>>

----------------------------------------------------------------------------
(* The SDO worker.                                                         *)
Pending == {"READ_PENDING", "WRITE_PENDING"}

Claim ==
  /\ worker.pc = "idle" /\ op = "OPERATIONAL" /\ open /\ ready /\ job.state \in Pending
  /\ worker' = [pc |-> "transfer", write |-> job.state = "WRITE_PENDING", slave |-> job.slave,
                index |-> job.index, data |-> job.data, ok |-> FALSE]
  /\ job' = [job EXCEPT !.state = "RUNNING"]
  /\ UNCHANGED <<ecat, drive, bad, brake, mode, device, sent>>

Target == <<worker.slave, worker.index[1]>>

(* An answer that is lost fails the write after its effect.                *)
Write ==
  /\ worker.write
  /\ \E effect, ok \in BOOLEAN :
       /\ ok => effect
       /\ worker' = [worker EXCEPT !.pc = "publish", !.ok = ok]
       /\ IF effect
          THEN /\ device' = [device EXCEPT ![Target].command = worker.data]
               /\ sent' = IF worker.data \in {"OPEN", "EXECUTE"}
                          THEN [sent EXCEPT ![Target][worker.data] = @ + 1] ELSE sent
          ELSE UNCHANGED <<device, sent>>

Read ==
  /\ ~worker.write
  /\ \E ok \in BOOLEAN :
       worker' = [worker EXCEPT !.pc = "publish", !.ok = ok,
                                !.data = IF ok THEN device[Target][worker.index[2]] ELSE @]
  /\ UNCHANGED <<device, sent>>

Transfer ==
  /\ worker.pc = "transfer" /\ (Write \/ Read)
  /\ UNCHANGED <<ecat, drive, bad, brake, mode, job>>

Publish ==
  /\ worker.pc = "publish" /\ worker' = NoWork
  /\ job' = [job EXCEPT !.state = "DONE", !.ok = worker.ok,
                        !.data = IF worker.write THEN @ ELSE worker.data]
  /\ UNCHANGED <<ecat, drive, bad, brake, mode, device, sent>>

ProcessRuntimeSdoWorker == Claim \/ Transfer \/ Publish

----------------------------------------------------------------------------
(* ECAT_RuntimeBrakeProcessSdo: a job is submitted, awaited, consumed.     *)
Axis == IF drive = "AXIS1_BRAKE_RELEASE" THEN 1 ELSE 2

Request(write, object, data) ==
  [state |-> IF write THEN "WRITE_PENDING" ELSE "READ_PENDING",
   slave |-> brake.slave, index |-> <<Axis, object>>, data |-> data, ok |-> FALSE]

Submit(request) == job.state = "IDLE" /\ job' = request
Busy == job.state \in Pending \cup {"RUNNING"} /\ UNCHANGED job
Answered(request) ==
  /\ job.slave = request.slave /\ job.index = request.index /\ job.ok
  /\ request.state = "WRITE_PENDING" => job.data = request.data
Consume(request) == job.state = "DONE" /\ Answered(request) /\ job' = [job EXCEPT !.state = "IDLE"]
Refuse(request) == job.state = "DONE" /\ ~Answered(request)

(* Mutant: a job that the worker has claimed counts as cancelled.          *)
CancellableAlways(writing) == TRUE

(* ECAT_RuntimePrepareBrakeRollback: while a command is written, only a    *)
(* job that the worker has not claimed; never one that is running.         *)
Cancellable(writing) ==
  job.state \in {"IDLE", "WRITE_PENDING"} \cup (IF writing THEN {} ELSE {"READ_PENDING", "DONE"})

----------------------------------------------------------------------------
(* Mutant: the context is closed at once, whatever the worker does.        *)
CloseAtOnce ==
  /\ closing' = FALSE /\ open' = FALSE
  /\ drive' = "CW06_DISABLED" /\ brake' = NoBrake /\ job' = NoJob

(* Mutant: an error that meets the worker at work leaves nothing pending.  *)
CloseOnce ==
  IF worker.pc = "idle"
  THEN /\ closing' = FALSE /\ open' = FALSE
       /\ drive' = "CW06_DISABLED" /\ brake' = NoBrake /\ job' = NoJob
  ELSE UNCHANGED <<closing, open, drive, brake, job>>

(* bad is cleared as well, and not read any more.                          *)
CloseContextWhenWorkerIdle ==
  IF worker.pc = "idle"
  THEN /\ closing' = FALSE /\ open' = FALSE
       /\ drive' = "CW06_DISABLED" /\ brake' = NoBrake /\ job' = NoJob
  ELSE closing' = TRUE /\ UNCHANGED <<open, drive, brake, job>>

EnterError == op' = "ERROR" /\ ready' = FALSE /\ CloseContextWhenWorkerIdle /\ UNCHANGED mode

(* ECAT_Process in the state ERROR.                                        *)
KeepClosing ==
  /\ op = "ERROR" /\ closing /\ CloseContextWhenWorkerIdle
  /\ UNCHANGED <<op, ready, bad, mode, worker, device, sent>>

----------------------------------------------------------------------------
(* The steps, one in a good cycle in which every axis is switched off.     *)
Stay == UNCHANGED <<ecat, drive, brake, mode>>
Advance(b) == brake' = b /\ UNCHANGED <<ecat, drive, mode>>
This == <<brake.slave, Axis>>
StartSlave(n) == [NoBrake EXCEPT !.step = SET_MODE_11, !.slave = n]

IdleStep ==
  \/ Busy /\ Stay
  \/ job.state \in {"IDLE", "DONE"} /\ job' = [job EXCEPT !.state = "IDLE"] /\ Advance(StartSlave(1))

SetModeStep ==
  /\ mode' = [mode EXCEPT ![This] = 11]
  /\ brake' = [brake EXCEPT !.step = WRITE_OPEN_COMMAND, !.retry = 0]
  /\ UNCHANGED <<ecat, drive, job>>

(* Mutant: a write that fails is tried again.                              *)
WriteStepAgain(data, next) ==
  LET request == Request(TRUE, "command", data) IN
  \/ (Submit(request) \/ Busy) /\ Stay
  \/ Consume(request) /\ Advance([brake EXCEPT !.step = next, !.retry = 0, !.first = "NONE"])
  \/ Refuse(request) /\ job' = [job EXCEPT !.state = "IDLE"] /\ Stay

(* Mutant: the sequence does not wait for the answer to the last write.    *)
WriteStepNoWait(data, next) ==
  LET request == Request(TRUE, "command", data) IN
  \/ /\ Submit(request)
     /\ IF data = "ZERO" THEN Advance([brake EXCEPT !.step = next]) ELSE Stay
  \/ Busy /\ Stay
  \/ Consume(request) /\ Advance([brake EXCEPT !.step = next, !.retry = 0, !.first = "NONE"])
  \/ Refuse(request) /\ EnterError

WriteStep(data, next) ==
  LET request == Request(TRUE, "command", data) IN
  \/ (Submit(request) \/ Busy) /\ Stay
  \/ Consume(request) /\ Advance([brake EXCEPT !.step = next, !.retry = 0, !.first = "NONE"])
  \/ Refuse(request) /\ EnterError

(* Mutant: the second object alone decides.                                *)
ReadStepSecond(expected, next) ==
  LET request == Request(FALSE, IF brake.retry = 0 THEN "fb1" ELSE "fb2", "ZERO") IN
  \/ (Submit(request) \/ Busy) /\ Stay
  \/ /\ Consume(request)
     /\ \/ brake.retry = 0 /\ Advance([brake EXCEPT !.retry = 1, !.first = job.data])
        \/ /\ brake.retry = 1
           /\ Advance([brake EXCEPT !.retry = 0, !.waited = 0,
                         !.step = IF job.data = expected THEN next ELSE @])
  \/ Refuse(request) /\ EnterError

(* The two feedback objects are read in turn, until both are as expected.  *)
ReadStep(expected, next) ==
  LET request == Request(FALSE, IF brake.retry = 0 THEN "fb1" ELSE "fb2", "ZERO") IN
  \/ (Submit(request) \/ Busy) /\ Stay
  \/ /\ Consume(request)
     /\ \/ brake.retry = 0 /\ Advance([brake EXCEPT !.retry = 1, !.first = job.data])
        \/ /\ brake.retry = 1
           /\ Advance([brake EXCEPT !.retry = 0, !.waited = 0,
                         !.step = IF {brake.first, job.data} = {expected} THEN next ELSE @])
  \/ Refuse(request) /\ EnterError

WaitStep(next) ==
  /\ UNCHANGED job
  /\ \/ brake.waited < WaitCycles /\ Advance([brake EXCEPT !.waited = @ + 1])
     \/ brake.waited >= WaitCycles /\ Advance([brake EXCEPT !.step = next])

RelatchStep ==
  /\ mode' = [mode EXCEPT ![This] = 8]
  /\ brake' = [brake EXCEPT !.step = DONE]
  /\ UNCHANGED <<ecat, drive, job>>

DoneStep ==
  /\ UNCHANGED job
  /\ \/ job.state # "IDLE" /\ Stay
     \/ job.state = "IDLE" /\ brake.slave < LastSlave /\ Advance(StartSlave(brake.slave + 1))
     \/ /\ job.state = "IDLE" /\ brake.slave = LastSlave
        /\ brake' = NoBrake /\ UNCHANGED <<ecat, mode>>
        /\ drive' = IF Axis = 1 THEN "AXIS2_BRAKE_RELEASE" ELSE "CW06_WAIT_DELAY"

HandleBrakeStep ==
  \/ brake.step = IDLE /\ IdleStep
  \/ brake.step = SET_MODE_11 /\ SetModeStep
  \/ brake.step = WRITE_OPEN_COMMAND /\ WriteStep("OPEN", WAIT_OPEN_FEEDBACK)
  \/ brake.step = WAIT_OPEN_FEEDBACK /\ ReadStep("OPENED", WAIT_OPEN_10_MS)
  \/ brake.step = WAIT_OPEN_10_MS /\ WaitStep(WRITE_OPEN_CLEAR_COMMAND)
  \/ brake.step = WRITE_OPEN_CLEAR_COMMAND /\ WriteStep("CLEAR", WAIT_OPEN_FEEDBACK_CLEAR)
  \/ brake.step = WAIT_OPEN_FEEDBACK_CLEAR /\ ReadStep("NONE", WRITE_EXECUTE_COMMAND)
  \/ brake.step = WRITE_EXECUTE_COMMAND /\ WriteStep("EXECUTE", WAIT_EXECUTE_FEEDBACK)
  \/ brake.step = WAIT_EXECUTE_FEEDBACK /\ ReadStep("EXECUTED", WAIT_10_MS)
  \/ brake.step = WAIT_10_MS /\ WaitStep(WRITE_CLEAR_COMMAND)
  \/ brake.step = WRITE_CLEAR_COMMAND /\ WriteStep("CLEAR", WAIT_FEEDBACK_CLEAR)
  \/ brake.step = WAIT_FEEDBACK_CLEAR /\ ReadStep("NONE", WRITE_COMMAND_ZERO)
  \/ brake.step = WRITE_COMMAND_ZERO /\ WriteStep("ZERO", RELATCH_TARGET_AND_SET_MODE_8)
  \/ brake.step = RELATCH_TARGET_AND_SET_MODE_8 /\ RelatchStep
  \/ brake.step = DONE /\ DoneStep

(* Between the answer to the opening and the restored mode there is no way *)
(* back; before and after it the job is cancelled and the mode restored.   *)
Committed == WRITE_OPEN_COMMAND < brake.step /\ brake.step <= RELATCH_TARGET_AND_SET_MODE_8

GiveUp(restore) ==
  IF Committed \/ ~Cancellable(brake.step \in {WRITE_OPEN_COMMAND, WRITE_EXECUTE_COMMAND})
  THEN EnterError
  ELSE /\ job' = [job EXCEPT !.state = "IDLE"]
       /\ mode' = IF restore THEN [mode EXCEPT ![This] = 8] ELSE mode
       /\ brake' = NoBrake /\ drive' = "CW06_ROLLBACK_ZERO"
       /\ UNCHANGED ecat

----------------------------------------------------------------------------
Releasing == op = "OPERATIONAL" /\ drive \in {"AXIS1_BRAKE_RELEASE", "AXIS2_BRAKE_RELEASE"}

GoodExchange ==
  /\ Releasing /\ bad' = 0 /\ HandleBrakeStep
  /\ UNCHANGED <<worker, device, sent>>

(* An axis is not in the state Switch on disabled.                         *)
AxisNotDisabled ==
  /\ Releasing /\ bad' = 0 /\ GiveUp(brake.step >= SET_MODE_11)
  /\ UNCHANGED <<worker, device, sent>>

BadExchange ==
  /\ Releasing /\ bad' = bad + 1
  /\ \/ bad' < RollbackLimit /\ Stay /\ UNCHANGED job
     \/ bad' >= RollbackLimit /\ GiveUp(brake.slave > 0)
  /\ UNCHANGED <<worker, device, sent>>

Task == GoodExchange \/ AxisNotDisabled \/ BadExchange \/ KeepClosing
Devices == \E x \in Slaves \X Axes : Feedback(x)
Next == Task \/ ProcessRuntimeSdoWorker \/ Devices

Spec == Init /\ [][Next]_vars
FairSpec ==
  /\ Spec /\ WF_vars(Task) /\ WF_vars(ProcessRuntimeSdoWorker)
  /\ \A x \in Slaves \X Axes : WF_vars(Feedback(x))

----------------------------------------------------------------------------
Objects == {"command", "fb1", "fb2"}
Values == Commands \cup Feedbacks
Indices == {<<>>} \cup (Axes \X Objects)

TypeOK ==
  /\ op \in {"OPERATIONAL", "ERROR"} /\ {closing, open, ready} \subseteq BOOLEAN
  /\ drive \in {"AXIS1_BRAKE_RELEASE", "AXIS2_BRAKE_RELEASE", "CW06_WAIT_DELAY",
                "CW06_ROLLBACK_ZERO", "CW06_DISABLED"}
  /\ bad \in 0..RollbackLimit
  /\ brake \in [step : IDLE..DONE, slave : 0..LastSlave, retry : {0, 1},
                first : Feedbacks, waited : 0..WaitCycles]
  /\ mode \in [Slaves \X Axes -> {0, 8, 11}]
  /\ job \in [state : Pending \cup {"IDLE", "RUNNING", "DONE"}, slave : 0..LastSlave,
              index : Indices, data : Values, ok : BOOLEAN]
  /\ worker \in [pc : {"idle", "transfer", "publish"}, write : BOOLEAN,
                 slave : 0..LastSlave, index : Indices, data : Values, ok : BOOLEAN]
  /\ device \in [Slaves \X Axes -> [command : Commands, fb1 : Feedbacks, fb2 : Feedbacks]]

(* A job in the slot is the one the current step asked for, so that no     *)
(* step can take the answer to another's request for its own: steps end    *)
(* and are given up only with the slot free, or the context with them.     *)
Asked ==
  CASE brake.step = WRITE_OPEN_COMMAND -> "OPEN"
    [] brake.step \in {WRITE_OPEN_CLEAR_COMMAND, WRITE_CLEAR_COMMAND} -> "CLEAR"
    [] brake.step = WRITE_EXECUTE_COMMAND -> "EXECUTE"
    [] brake.step = WRITE_COMMAND_ZERO -> "ZERO"
    [] OTHER -> "none"
Polled == brake.step \in {WAIT_OPEN_FEEDBACK, WAIT_OPEN_FEEDBACK_CLEAR,
                          WAIT_EXECUTE_FEEDBACK, WAIT_FEEDBACK_CLEAR}
JobIsAsked ==
  job.state # "IDLE" =>
    /\ job.slave = brake.slave /\ job.index[1] = Axis
    /\ \/ job.index[2] = "command" /\ job.data = Asked
       \/ Polled /\ job.index[2] = IF brake.retry = 0 THEN "fb1" ELSE "fb2"

(* No axis is commanded to open, or to close, a second time, whatever the  *)
(* transfers answer: a write of unknown outcome is not repeated            *)
(* (ECAT_runtime.c:1819).                                                  *)
CommandedOnce == \A x \in Slaves \X Axes : sent[x].OPEN <= 1 /\ sent[x].EXECUTE <= 1

(* The sequence is given up by a mere rollback only while no brake is      *)
(* between its commands: nothing is written behind the rollback, all       *)
(* opened brakes were closed, and no axis is left in mode 11.              *)
AtRest(x) == device[x] = [command |-> "ZERO", fb1 |-> "NONE", fb2 |-> "NONE"]
RollbackIsClean ==
  drive = "CW06_ROLLBACK_ZERO" =>
    \A x \in Slaves \X Axes :
      AtRest(x) /\ sent[x].OPEN = sent[x].EXECUTE /\ mode[x] # 11

(* The enable sequence starts with every brake opened and closed, every    *)
(* feedback cleared and every axis in mode 8.                              *)
DoneIsClean ==
  drive = "CW06_WAIT_DELAY" =>
    \A x \in Slaves \X Axes :
      AtRest(x) /\ sent[x] = [OPEN |-> 1, EXECUTE |-> 1] /\ mode[x] = 8

(* The context is not closed under a transfer, nor the job slot cleared    *)
(* before the worker has written its answer into it.                       *)
ContextOutlivesTransfer ==
  /\ worker.pc # "idle" => open /\ job.state = "RUNNING"
  /\ ~open => job = NoJob

(* What the steps rely on: an answer is that of the request it is taken    *)
(* for, a rollback or the end of the sequence leaves no job and no brake   *)
(* half way, and the context outlives the transfer that uses it.           *)
BrakesSafe ==
  /\ TypeOK /\ JobIsAsked /\ RollbackIsClean /\ DoneIsClean
  /\ ContextOutlivesTransfer

(* The sequence ends, though no step of it has a timeout, and an error     *)
(* closes the context.                                                     *)
SequenceEnds == (Releasing ~> ~Releasing) /\ (op = "ERROR" ~> ~open)
=============================================================================
