-------------------------- MODULE EtherCATProofs ---------------------------
(***************************************************************************)
(* Proofs about the EtherCAT task, for every number of slaves and axes,    *)
(* every waiting time, limit and tolerance.                                *)
(*                                                                         *)
(* The brakes: the worker's transfer ends before the context does, a job   *)
(* in the slot is the current step's, no brake is commanded twice, and a   *)
(* rollback or the end of the sequence leaves every brake and every mode   *)
(* as it should be.  Slot: the worker is at work exactly while the slot    *)
(* says RUNNING, on a copy of the job in it.  AskedFor: what the job asks  *)
(* for is what the step of the sequence asks for.  The counts: axes ahead  *)
(* of the sequence were sent nothing, the current one nothing that a step  *)
(* to come will send, and a write that waits in the slot has not been      *)
(* done.  Course: axes ahead of the sequence are at rest and untouched,    *)
(* axes behind it at rest and done with; the axis at hand was sent what    *)
(* the steps so far send (CommandAt, SentAt), and what the next step       *)
(* expects once its write is answered.  A feedback that was seen cleared   *)
(* under the last CLEAR stays cleared.                                     *)
(*                                                                         *)
(* The start of the bus: BusInv says what the master knows of its slaves   *)
(* in every state of the start.  The Ethernet port: PortInv measures how   *)
(* far every frame that is not awaited lies behind the slot that is due,   *)
(* on the wire, in the receive ring and in hand.  The drives: WordsInv     *)
(* ties the word that is staged to the state, and an axis to that word or  *)
(* the one before it.  The layout of a drive: LayoutInv says that all that *)
(* was read so far agrees, and that no assignment is in force while a map  *)
(* is in pieces.  PartsAside puts them side by side, as EtherCATSpec does. *)
(***************************************************************************)
EXTENDS EtherCAT, SequenceTheorems, FiniteSetTheorems, TLAPS

X == Slaves \X Axes
Brakes == [step : IDLE..DONE, slave : 0..LastSlave, retry : {0, 1},
           first : Values, waited : Nat]
Jobs == [state : Pending \cup {"IDLE", "RUNNING", "DONE"}, slave : 0..LastSlave,
         index : Indices, data : Values, ok : BOOLEAN]
Workers == [pc : {"idle", "transfer", "publish"}, write : BOOLEAN,
            slave : 0..LastSlave, index : Indices, data : Values, ok : BOOLEAN]

Typed ==
  /\ op \in {"OPERATIONAL", "ERROR"}
  /\ closing \in BOOLEAN /\ open \in BOOLEAN
  /\ drive \in {"AXIS1_BRAKE_RELEASE", "AXIS2_BRAKE_RELEASE", "CW06_WAIT_DELAY",
                "CW06_ROLLBACK_ZERO", "CW06_DISABLED"}
  /\ brake \in Brakes /\ job \in Jobs /\ worker \in Workers
  /\ device \in [X -> [command : Values, fb1 : Values, fb2 : Values]]
  /\ sent \in [X -> [OPEN : Nat, EXECUTE : Nat]]
  /\ brake.step = IDLE <=> brake.slave = 0

Slot ==
  /\ worker.pc # "idle" <=> job.state = "RUNNING"
  /\ worker.pc # "idle" => open
  /\ ~open => job = NoJob /\ op = "ERROR" /\ ~closing

Copied ==
  worker.pc # "idle" =>
    /\ worker.slave = job.slave /\ worker.index = job.index
    /\ worker.write => worker.data = job.data
    /\ worker.write <=> job.index[2] = "command"

AskedFor ==
  job.state # "IDLE" =>
    /\ job.slave = brake.slave /\ brake.slave # 0
    /\ job.index \in Axes \X Objects /\ job.index[1] = Axis
    /\ job.state = "WRITE_PENDING" => job.index[2] = "command"
    /\ job.state = "READ_PENDING" => job.index[2] # "command"
    /\ job.index[2] = "command" =>
         \/ job.data = "OPEN" /\ brake.step = WRITE_OPEN_COMMAND
         \/ job.data = "EXECUTE" /\ brake.step = WRITE_EXECUTE_COMMAND
         \/ job.data = "CLEAR" /\ brake.step = WRITE_OPEN_CLEAR_COMMAND
         \/ job.data = "CLEAR" /\ brake.step = WRITE_CLEAR_COMMAND
         \/ job.data = "ZERO" /\ brake.step = WRITE_COMMAND_ZERO
    /\ job.index[2] # "command" =>
         Polled /\ job.index[2] = IF brake.retry = 0 THEN "fb1" ELSE "fb2"

Ahead(x) == x[2] > Axis \/ (x[2] = Axis /\ x[1] > brake.slave)

NothingAhead ==
  Releasing => \A x \in X : Ahead(x) => sent[x].OPEN = 0 /\ sent[x].EXECUTE = 0

NothingToCome ==
  Releasing /\ brake.slave # 0 =>
    /\ brake.step < WRITE_OPEN_COMMAND => sent[This].OPEN = 0
    /\ brake.step = WRITE_OPEN_COMMAND /\ job.state = "IDLE" => sent[This].OPEN = 0
    /\ brake.step < WRITE_EXECUTE_COMMAND => sent[This].EXECUTE = 0
    /\ brake.step = WRITE_EXECUTE_COMMAND /\ job.state = "IDLE" => sent[This].EXECUTE = 0

Waiting == job.state = "WRITE_PENDING" \/ (worker.pc = "transfer" /\ worker.write)
NotYetSent ==
  Waiting =>
    /\ job.data = "OPEN" => sent[<<job.slave, job.index[1]>>].OPEN = 0
    /\ job.data = "EXECUTE" => sent[<<job.slave, job.index[1]>>].EXECUTE = 0

Inv ==
  /\ Typed /\ Slot /\ Copied /\ AskedFor
  /\ NothingAhead /\ NothingToCome /\ NotYetSent /\ CommandedOnce

(* The commands in the order of the steps: the last one, and how often the *)
(* axis at hand was commanded, before the transfer of step s is done.      *)
CommandAt(s) ==
  CASE s <= WRITE_OPEN_COMMAND -> "ZERO"
    [] s \in WAIT_OPEN_FEEDBACK..WRITE_OPEN_CLEAR_COMMAND -> "OPEN"
    [] s \in WAIT_OPEN_FEEDBACK_CLEAR..WRITE_EXECUTE_COMMAND -> "CLEAR"
    [] s \in WAIT_EXECUTE_FEEDBACK..WRITE_CLEAR_COMMAND -> "EXECUTE"
    [] s \in WAIT_FEEDBACK_CLEAR..WRITE_COMMAND_ZERO -> "CLEAR"
    [] OTHER -> "ZERO"
SentAt(s) == [OPEN    |-> IF s <= WRITE_OPEN_COMMAND THEN 0 ELSE 1,
              EXECUTE |-> IF s <= WRITE_EXECUTE_COMMAND THEN 0 ELSE 1]
Reached(s) == device[This].command = CommandAt(s) /\ sent[This] = SentAt(s)
Cleared == device[This].fb1 = "NONE" /\ device[This].fb2 = "NONE"

(* The write in the slot has not been done, or it was and is answered.     *)
Asking == job.state # "IDLE" /\ job.index[2] = "command"
Undone == job.state \in {"IDLE"} \cup Pending \/ worker.pc = "transfer" \/ ~Asking
Confirmed == (job.state = "DONE" /\ job.ok) \/ (worker.pc = "publish" /\ worker.ok)
Reply == IF job.state = "DONE" THEN job.data ELSE worker.data

(* The axis at hand got what the steps so far sent, and the commands that  *)
(* end the sequence find its feedback cleared.                             *)
ModesAt(s) == IF s = SET_MODE_11 THEN {0, 8} ELSE IF s = DONE THEN {8} ELSE {11}
OnCourse ==
  /\ Undone => Reached(brake.step)
  /\ Asking /\ Confirmed => Reached(brake.step + 1)
  /\ brake.step <= WRITE_OPEN_COMMAND /\ Undone => Cleared
  /\ brake.step >= WAIT_FEEDBACK_CLEAR => device[This].command \in {"CLEAR", "ZERO"}
  /\ brake.step = WAIT_FEEDBACK_CLEAR /\ brake.retry = 1 /\ brake.first = "NONE" =>
       device[This].fb1 = "NONE"
  /\ brake.step = WAIT_FEEDBACK_CLEAR /\ Confirmed /\ Reply = "NONE" =>
       device[This][job.index[2]] = "NONE"
  /\ brake.step > WAIT_FEEDBACK_CLEAR => Cleared
  /\ mode[This] \in ModesAt(brake.step)

(* The axes ahead are as they were found, those behind are done with.      *)
Clean(x, n) == AtRest(x) /\ sent[x] = [OPEN |-> n, EXECUTE |-> n]
Behind(x) == x[2] < Axis \/ (x[2] = Axis /\ x[1] < brake.slave)
AheadAtRest == Releasing => \A x \in X : Ahead(x) => Clean(x, 0) /\ mode[x] # 11
BehindAtRest == Releasing => \A x \in X : Behind(x) => Clean(x, 1) /\ mode[x] = 8
HereOnCourse == Releasing /\ brake.slave # 0 => OnCourse
EndedFree == drive \in {"CW06_ROLLBACK_ZERO", "CW06_WAIT_DELAY"} => job.state = "IDLE"
Course ==
  /\ AheadAtRest /\ BehindAtRest /\ HereOnCourse
  /\ EndedFree /\ RollbackIsClean /\ DoneIsClean

(* The types that Typed leaves wider.                                      *)
Shapes ==
  /\ brake.first \in Feedbacks /\ brake.waited \in 0..WaitCycles
  /\ mode \in [X -> {0, 8, 11}]
  /\ device \in [X -> [command : Commands, fb1 : Feedbacks, fb2 : Feedbacks]]
  /\ job.state = "DONE" /\ job.ok /\ ~Asking => job.data \in Feedbacks
  /\ worker.pc = "publish" /\ worker.ok /\ ~worker.write => worker.data \in Feedbacks
BadCounted == bad \in 0..RollbackLimit /\ (Releasing => bad < RollbackLimit)

----------------------------------------------------------------------------
LEMMA AxisType == Axis \in Axes
BY DEF Axis, Axes

LEMMA Empty ==
  /\ NoJob \in Jobs /\ NoJob.state = "IDLE"
  /\ NoBrake \in Brakes /\ NoBrake.step = IDLE /\ NoBrake.slave = 0
  /\ NoWork \in Workers /\ NoWork.pc = "idle"
<1>1. "ZERO" \in Values /\ "NONE" \in Values /\ <<>> \in Indices
  BY DEF Values, Commands, Feedbacks, Indices
<1>2. 0 \in 0..LastSlave
  BY BrakeAssumption DEF BrakeAssumption
<1>3. NoJob \in Jobs /\ NoJob.state = "IDLE"
  BY <1>1, <1>2 DEF NoJob, Jobs
<1>4. NoBrake \in Brakes /\ NoBrake.step = IDLE /\ NoBrake.slave = 0
  BY <1>1, <1>2 DEF NoBrake, Brakes, IDLE, DONE
<1>5. NoWork \in Workers /\ NoWork.pc = "idle"
  BY <1>1, <1>2 DEF NoWork, Workers
<1> QED
  BY <1>3, <1>4, <1>5

LEMMA InitInv == Init => Inv
<1> SUFFICES ASSUME Init PROVE Inv
  OBVIOUS
<1>1. Typed
  <2>1. /\ op \in {"OPERATIONAL", "ERROR"} /\ closing \in BOOLEAN /\ open \in BOOLEAN
        /\ drive = "AXIS1_BRAKE_RELEASE"
        /\ brake = NoBrake /\ job = NoJob /\ worker = NoWork
    BY DEF Init
  <2>2. device \in [X -> [command : Values, fb1 : Values, fb2 : Values]]
    BY DEF Init, X, Values, Commands, Feedbacks
  <2>3. sent \in [X -> [OPEN : Nat, EXECUTE : Nat]]
    BY DEF Init, X
  <2> QED
    BY <2>1, <2>2, <2>3, Empty DEF Typed
<1>2. Slot /\ Copied /\ AskedFor /\ NotYetSent
  BY Empty DEF Init, Slot, Copied, AskedFor, NotYetSent, Waiting
<1>3. \A x \in X : sent[x].OPEN = 0 /\ sent[x].EXECUTE = 0
  BY DEF Init, X
<1>4. NothingAhead /\ NothingToCome /\ CommandedOnce
  <2>1. brake.slave = 0
    BY Empty DEF Init
  <2> QED
    BY <1>3, <2>1 DEF NothingAhead, NothingToCome, CommandedOnce, X
<1> QED
  BY <1>1, <1>2, <1>4 DEF Inv

----------------------------------------------------------------------------
(* What does not touch the sequence, the slot or the drives keeps Inv.     *)
LEMMA RestKeeps ==
  ASSUME Inv, UNCHANGED <<op, closing, open, drive, brake, job, worker, device, sent>>
  PROVE  Inv'
BY DEF Inv, Typed, Slot, Copied, AskedFor, NothingAhead, NothingToCome, NotYetSent,
  CommandedOnce, Waiting, Releasing, Ahead, This, Axis, Polled

(* The end of the context, at once or as soon as the worker is idle.       *)
LEMMA CloseKeeps ==
  ASSUME Inv, op' = "ERROR", CloseContextWhenWorkerIdle, UNCHANGED <<worker, device, sent>>
  PROVE  Inv'
<1> USE DEF Inv
<1>1. ~Releasing'
  BY DEF Releasing
<1>2. NothingAhead' /\ NothingToCome'
  BY <1>1 DEF NothingAhead, NothingToCome
<1>3. CommandedOnce'
  BY DEF CommandedOnce
<1>4. CASE worker.pc = "idle"
  <2>1. closing' = FALSE /\ open' = FALSE /\ drive' = "CW06_DISABLED"
        /\ brake' = NoBrake /\ job' = NoJob
    BY <1>4 DEF CloseContextWhenWorkerIdle
  <2>2. Typed'
    BY <2>1, Empty DEF Typed
  <2>3. Slot' /\ Copied' /\ AskedFor' /\ NotYetSent'
    BY <1>4, <2>1, Empty DEF Slot, Copied, AskedFor, NotYetSent, Waiting
  <2> QED
    BY <1>2, <1>3, <2>2, <2>3
<1>5. CASE worker.pc # "idle"
  <2>1. closing' = TRUE /\ UNCHANGED <<open, drive, brake, job>>
    BY <1>5 DEF CloseContextWhenWorkerIdle
  <2>2. Typed'
    BY <2>1 DEF Typed
  <2>3. Slot'
    BY <1>5, <2>1 DEF Slot
  <2>4. Copied' /\ AskedFor' /\ NotYetSent'
    BY <2>1 DEF Copied, AskedFor, NotYetSent, Waiting, Axis, Polled
  <2> QED
    BY <1>2, <1>3, <2>2, <2>3, <2>4
<1> QED
  BY <1>4, <1>5

LEMMA EnterErrorKeeps ==
  ASSUME Inv, EnterError, UNCHANGED <<worker, device, sent>>
  PROVE  Inv'
BY CloseKeeps DEF EnterError

(* A step that finds the slot free asks for its own transfer.              *)
WriteOf(data) ==
  \/ data = "OPEN" /\ brake.step = WRITE_OPEN_COMMAND
  \/ data = "EXECUTE" /\ brake.step = WRITE_EXECUTE_COMMAND
  \/ data = "CLEAR" /\ brake.step = WRITE_OPEN_CLEAR_COMMAND
  \/ data = "CLEAR" /\ brake.step = WRITE_CLEAR_COMMAND
  \/ data = "ZERO" /\ brake.step = WRITE_COMMAND_ZERO
ReadOf(object) == Polled /\ object = IF brake.retry = 0 THEN "fb1" ELSE "fb2"

LEMMA SubmitKeeps ==
  ASSUME Inv, Releasing, brake.slave # 0,
         NEW write \in BOOLEAN, NEW object \in Objects, NEW data \in Values,
         write <=> object = "command",
         write => WriteOf(data), ~write => ReadOf(object),
         Submit(Request(write, object, data)),
         UNCHANGED <<ecat, drive, brake, worker, device, sent>>
  PROVE  Inv'
<1> USE DEF Inv
<1>1. /\ job.state = "IDLE"
      /\ job' = [state |-> IF write THEN "WRITE_PENDING" ELSE "READ_PENDING",
                 slave |-> brake.slave, index |-> <<Axis, object>>, data |-> data,
                 ok |-> FALSE]
  BY DEF Submit, Request
<1>2. UNCHANGED <<op, closing, open, drive, brake, worker, device, sent>>
  BY DEF ecat
<1>3. brake \in Brakes /\ brake.slave \in 0..LastSlave
  BY DEF Typed, Brakes
<1>4. <<Axis, object>> \in Axes \X Objects
  BY AxisType
<1>5. Typed'
  <2>1. job' \in Jobs
    BY <1>1, <1>3, <1>4 DEF Jobs, Pending, Indices
  <2> QED
    BY <1>2, <2>1 DEF Typed
<1>6. worker.pc = "idle" /\ open
  <2>1. worker.pc = "idle"
    BY <1>1 DEF Slot
  <2>2. open
    BY DEF Slot, Releasing
  <2> QED
    BY <2>1, <2>2
<1>7. Slot' /\ Copied'
  BY <1>1, <1>2, <1>6 DEF Slot, Copied
<1>8. AskedFor'
  BY <1>1, <1>2, <1>4 DEF AskedFor, WriteOf, ReadOf, Axis, Polled
<1>9. NothingAhead' /\ NothingToCome' /\ CommandedOnce'
  BY <1>1, <1>2 DEF NothingAhead, NothingToCome, CommandedOnce, Releasing, Ahead, This, Axis
<1>10. NotYetSent'
  <2>1. data = "OPEN" /\ write => sent[This].OPEN = 0
    BY <1>1 DEF WriteOf, NothingToCome, WRITE_OPEN_COMMAND, WRITE_EXECUTE_COMMAND,
         WRITE_OPEN_CLEAR_COMMAND, WRITE_CLEAR_COMMAND, WRITE_COMMAND_ZERO
  <2>2. data = "EXECUTE" /\ write => sent[This].EXECUTE = 0
    BY <1>1 DEF WriteOf, NothingToCome, WRITE_OPEN_COMMAND, WRITE_EXECUTE_COMMAND,
         WRITE_OPEN_CLEAR_COMMAND, WRITE_CLEAR_COMMAND, WRITE_COMMAND_ZERO
  <2>3. Waiting' => write
    BY <1>1, <1>2, <1>6 DEF Waiting
  <2>4. <<job'.slave, job'.index[1]>> = This
    BY <1>1 DEF This
  <2> QED
    BY <1>1, <1>2, <2>1, <2>2, <2>3, <2>4 DEF NotYetSent
<1> QED
  BY <1>5, <1>7, <1>8, <1>9, <1>10

(* The sequence goes on with the slot free: to a later step of the slave,  *)
(* or round one of its polling steps again.                                *)
LEMMA AdvanceKeeps ==
  ASSUME Inv, Releasing, brake.slave # 0,
         job.state \in {"IDLE", "DONE"}, job' = [job EXCEPT !.state = "IDLE"],
         brake' \in Brakes, brake'.slave = brake.slave, brake'.step # IDLE,
         brake'.step >= brake.step,
         brake'.step \in {WRITE_OPEN_COMMAND, WRITE_EXECUTE_COMMAND} =>
           brake.step < brake'.step,
         UNCHANGED <<ecat, drive, worker, device, sent>>
  PROVE  Inv'
<1> USE DEF Inv
<1>1. UNCHANGED <<op, closing, open, drive, worker, device, sent>>
  BY DEF ecat
<1>2. job \in Jobs /\ job' \in Jobs /\ job'.state = "IDLE"
  BY DEF Typed, Jobs
<1>3. Typed'
  BY <1>1, <1>2 DEF Typed
<1>4. worker.pc = "idle" /\ open
  <2>1. worker.pc = "idle"
    BY DEF Slot
  <2>2. open
    BY DEF Slot, Releasing
  <2> QED
    BY <2>1, <2>2
<1>5. Slot' /\ Copied' /\ AskedFor' /\ NotYetSent'
  BY <1>1, <1>2, <1>4 DEF Slot, Copied, AskedFor, NotYetSent, Waiting
<1>6. NothingAhead' /\ CommandedOnce'
  BY <1>1 DEF NothingAhead, CommandedOnce, Releasing, Ahead, Axis
<1>7. NothingToCome'
  <2>1. This' = This
    BY <1>1 DEF This, Axis
  <2>2. brake.step \in Nat /\ brake'.step \in Nat
    BY DEF Typed, Brakes, IDLE, DONE
  <2> QED
    BY <1>1, <2>1, <2>2 DEF NothingToCome, Releasing, WRITE_OPEN_COMMAND,
         WRITE_EXECUTE_COMMAND
<1> QED
  BY <1>3, <1>5, <1>6, <1>7

(* The sequence turns to the next slave, which lies ahead of it.           *)
LEMMA NextSlaveKeeps ==
  ASSUME Inv, Releasing, brake.slave < LastSlave,
         job.state \in {"IDLE", "DONE"}, job' = [job EXCEPT !.state = "IDLE"],
         brake' = StartSlave(brake.slave + 1),
         UNCHANGED <<ecat, drive, worker, device, sent>>
  PROVE  Inv'
<1> USE DEF Inv
<1>1. UNCHANGED <<op, closing, open, drive, worker, device, sent>>
  BY DEF ecat
<1>2. job' \in Jobs /\ job'.state = "IDLE"
  BY DEF Typed, Jobs
<1>3. brake.slave \in 0..LastSlave /\ LastSlave \in Nat \ {0}
  BY BrakeAssumption DEF BrakeAssumption, Typed, Brakes
<1>4. /\ brake' \in Brakes /\ brake'.step = SET_MODE_11
      /\ brake'.slave = brake.slave + 1
  <2>1. brake' = [step |-> 1, slave |-> brake.slave + 1, retry |-> 0,
                  first |-> "NONE", waited |-> 0]
    BY DEF StartSlave, NoBrake, SET_MODE_11
  <2>2. brake.slave + 1 \in 0..LastSlave /\ 1 \in IDLE..DONE /\ "NONE" \in Values
    BY <1>3 DEF IDLE, DONE, Values, Feedbacks
  <2> QED
    BY <2>1, <2>2 DEF Brakes, SET_MODE_11
<1>5. Typed'
  BY <1>1, <1>2, <1>3, <1>4 DEF Typed, IDLE, SET_MODE_11
<1>6. worker.pc = "idle" /\ open
  <2>1. worker.pc = "idle"
    BY DEF Slot
  <2>2. open
    BY DEF Slot, Releasing
  <2> QED
    BY <2>1, <2>2
<1>7. Slot' /\ Copied' /\ AskedFor' /\ NotYetSent'
  BY <1>1, <1>2, <1>6 DEF Slot, Copied, AskedFor, NotYetSent, Waiting
<1>8. CommandedOnce'
  BY <1>1 DEF CommandedOnce
<1>9. Axis' = Axis
  BY <1>1 DEF Axis
<1>10. NothingAhead'
  BY <1>1, <1>3, <1>4, <1>9 DEF NothingAhead, Releasing, Ahead, X, Slaves
<1>11. NothingToCome'
  <2>1. This' \in X /\ Ahead(This')
    BY <1>3, <1>4, <1>9, AxisType DEF This, X, Slaves, Ahead
  <2> QED
    BY <1>1, <2>1 DEF NothingToCome, NothingAhead
<1> QED
  BY <1>5, <1>7, <1>8, <1>10, <1>11

----------------------------------------------------------------------------
(* The steps of the sequence.                                              *)
LEMMA StayKeeps ==
  ASSUME Inv, Stay, UNCHANGED <<job, worker, device, sent>>
  PROVE  Inv'
BY RestKeeps DEF Stay, ecat

LEMMA WriteStepKeeps ==
  ASSUME Inv, Releasing, NEW data \in Commands, NEW next \in IDLE..DONE, WriteOf(data),
         next > brake.step, next \notin {WRITE_OPEN_COMMAND, WRITE_EXECUTE_COMMAND},
         WriteStep(data, next), UNCHANGED <<worker, device, sent>>
  PROVE  Inv'
<1>1. brake \in Brakes /\ brake.slave # 0 /\ data \in Values
  <2>1. brake \in Brakes /\ (brake.step = IDLE <=> brake.slave = 0)
    BY DEF Inv, Typed
  <2>2. brake.step # IDLE
    BY DEF WriteOf, IDLE, WRITE_OPEN_COMMAND, WRITE_EXECUTE_COMMAND,
       WRITE_OPEN_CLEAR_COMMAND, WRITE_CLEAR_COMMAND, WRITE_COMMAND_ZERO
  <2> QED
    BY <2>1, <2>2 DEF Values
<1> DEFINE request == Request(TRUE, "command", data)
<1>2. CASE Submit(request) /\ Stay
  <2>1. UNCHANGED <<ecat, drive, brake>>
    BY <1>2 DEF Stay
  <2> QED
    BY <1>1, <1>2, <2>1, SubmitKeeps DEF Objects
<1>3. CASE Busy /\ Stay
  BY <1>3, StayKeeps DEF Busy
<1>4. CASE /\ Consume(request)
           /\ Advance([brake EXCEPT !.step = next, !.retry = 0, !.first = "NONE"])
  <2>1. job.state \in {"IDLE", "DONE"} /\ job' = [job EXCEPT !.state = "IDLE"]
    BY <1>4 DEF Consume
  <2>2. /\ brake' = [brake EXCEPT !.step = next, !.retry = 0, !.first = "NONE"]
        /\ UNCHANGED <<ecat, drive>>
    BY <1>4 DEF Advance
  <2>3. brake' \in Brakes /\ brake'.slave = brake.slave /\ brake'.step = next
    BY <1>1, <2>2 DEF Brakes, Values, Feedbacks
  <2>4. brake.step \in Nat /\ next \in Nat /\ next # IDLE
    BY <1>1 DEF Brakes, IDLE, DONE
  <2>5. next >= brake.step
    BY <2>4
  <2> QED
    BY <1>1, <2>1, <2>2, <2>3, <2>4, <2>5, AdvanceKeeps
<1>5. CASE Refuse(request) /\ EnterError
  BY <1>5, EnterErrorKeeps
<1> QED
  BY <1>2, <1>3, <1>4, <1>5 DEF WriteStep

LEMMA ReadStepKeeps ==
  ASSUME Inv, Releasing, NEW expected, NEW next \in IDLE..DONE, Polled,
         next > brake.step, next # WRITE_OPEN_COMMAND,
         ReadStep(expected, next), UNCHANGED <<worker, device, sent>>
  PROVE  Inv'
<1>1. brake \in Brakes /\ job \in Jobs /\ brake.slave # 0
  <2>1. brake \in Brakes /\ job \in Jobs /\ (brake.step = IDLE <=> brake.slave = 0)
    BY DEF Inv, Typed
  <2>2. brake.step # IDLE
    BY DEF Polled, IDLE, WAIT_OPEN_FEEDBACK, WAIT_OPEN_FEEDBACK_CLEAR,
       WAIT_EXECUTE_FEEDBACK, WAIT_FEEDBACK_CLEAR
  <2> QED
    BY <2>1, <2>2
<1>2. brake.step \in Nat /\ next \in Nat /\ brake.step # IDLE /\ next # IDLE
      /\ next >= brake.step
      /\ brake.step \notin {WRITE_OPEN_COMMAND, WRITE_EXECUTE_COMMAND}
  BY <1>1 DEF Brakes, IDLE, DONE, Polled, WAIT_OPEN_FEEDBACK, WAIT_OPEN_FEEDBACK_CLEAR,
     WAIT_EXECUTE_FEEDBACK, WAIT_FEEDBACK_CLEAR, WRITE_OPEN_COMMAND, WRITE_EXECUTE_COMMAND
<1> DEFINE object == IF brake.retry = 0 THEN "fb1" ELSE "fb2"
           request == Request(FALSE, object, "ZERO")
<1>3. CASE Submit(request) /\ Stay
  <2>1. UNCHANGED <<ecat, drive, brake>>
    BY <1>3 DEF Stay
  <2>2. object \in Objects /\ object # "command" /\ "ZERO" \in Values
    BY DEF Objects, Values, Commands
  <2>3. ReadOf(object)
    BY DEF ReadOf
  <2> HIDE DEF object
  <2> QED
    BY <1>1, <1>3, <2>1, <2>2, <2>3, SubmitKeeps
<1>4. CASE Busy /\ Stay
  BY <1>4, StayKeeps DEF Busy
<1>5. ASSUME Consume(request), NEW b \in Brakes, Advance(b), b.slave = brake.slave,
             b.step \in {brake.step, next}
      PROVE  Inv'
  <2>1. job.state \in {"IDLE", "DONE"} /\ job' = [job EXCEPT !.state = "IDLE"]
    BY <1>5 DEF Consume
  <2>2. brake' = b /\ UNCHANGED <<ecat, drive>>
    BY <1>5 DEF Advance
  <2>3. /\ brake' \in Brakes /\ brake'.slave = brake.slave /\ brake'.step # IDLE
        /\ brake'.step >= brake.step
        /\ (brake'.step \in {WRITE_OPEN_COMMAND, WRITE_EXECUTE_COMMAND} =>
              brake.step < brake'.step)
    BY <1>2, <1>5, <2>2
  <2> QED
    BY <1>1, <2>1, <2>2, <2>3, AdvanceKeeps
<1>6. CASE /\ Consume(request) /\ brake.retry = 0
           /\ Advance([brake EXCEPT !.retry = 1, !.first = job.data])
  <2> DEFINE b == [brake EXCEPT !.retry = 1, !.first = job.data]
  <2>1. b \in Brakes /\ b.slave = brake.slave /\ b.step = brake.step
    BY <1>1 DEF Brakes, Jobs
  <2>2. Advance(b)
    BY <1>6
  <2> HIDE DEF b
  <2> QED
    BY <1>5, <1>6, <2>1, <2>2
<1>7. CASE /\ Consume(request) /\ brake.retry = 1
           /\ Advance([brake EXCEPT !.retry = 0, !.waited = 0,
                 !.step = IF {brake.first, job.data} = {expected} THEN next ELSE @])
  <2> DEFINE same == {brake.first, job.data} = {expected}
             b == [brake EXCEPT !.retry = 0, !.waited = 0,
                     !.step = IF same THEN next ELSE @]
  <2>1. Advance(b)
    BY <1>7
  <2>2. same \in BOOLEAN
    OBVIOUS
  <2> HIDE DEF same
  <2>3. b \in Brakes /\ b.slave = brake.slave /\ b.step \in {brake.step, next}
    BY <1>1, <2>2 DEF Brakes
  <2> HIDE DEF b
  <2> QED
    BY <1>5, <1>7, <2>1, <2>3
<1>8. CASE Refuse(request) /\ EnterError
  BY <1>8, EnterErrorKeeps
<1> QED
  BY <1>3, <1>4, <1>6, <1>7, <1>8 DEF ReadStep

(* At the steps that ask for nothing the slot is free.                     *)
LEMMA FreeSlot ==
  ASSUME Inv,
         brake.step \in {IDLE, SET_MODE_11, WAIT_OPEN_10_MS, WAIT_10_MS,
                         RELATCH_TARGET_AND_SET_MODE_8, DONE}
  PROVE  job.state = "IDLE" /\ job = [job EXCEPT !.state = "IDLE"]
<1>1. job.state = "IDLE"
  BY DEF Inv, AskedFor, Polled, IDLE, SET_MODE_11, WAIT_OPEN_10_MS, WAIT_10_MS,
    RELATCH_TARGET_AND_SET_MODE_8, DONE, WRITE_OPEN_COMMAND, WRITE_EXECUTE_COMMAND,
    WRITE_OPEN_CLEAR_COMMAND, WRITE_CLEAR_COMMAND, WRITE_COMMAND_ZERO,
    WAIT_OPEN_FEEDBACK, WAIT_OPEN_FEEDBACK_CLEAR, WAIT_EXECUTE_FEEDBACK,
    WAIT_FEEDBACK_CLEAR
<1>2. job \in Jobs
  BY DEF Inv, Typed
<1> QED
  BY <1>1, <1>2 DEF Jobs

LEMMA IdleStepKeeps ==
  ASSUME Inv, Releasing, brake.step = IDLE, IdleStep, UNCHANGED <<worker, device, sent>>
  PROVE  Inv'
<1>1. brake.slave = 0 /\ brake.slave < LastSlave
  BY BrakeAssumption DEF BrakeAssumption, Inv, Typed
<1>2. CASE Busy /\ Stay
  BY <1>2, StayKeeps DEF Busy
<1>3. CASE /\ job.state \in {"IDLE", "DONE"}
           /\ job' = [job EXCEPT !.state = "IDLE"] /\ Advance(StartSlave(1))
  <2>1. brake' = StartSlave(brake.slave + 1)
    BY <1>1, <1>3 DEF Advance
  <2>2. UNCHANGED <<ecat, drive>>
    BY <1>3 DEF Advance
  <2> QED
    BY <1>1, <1>3, <2>1, <2>2, NextSlaveKeeps
<1> QED
  BY <1>2, <1>3 DEF IdleStep

LEMMA SetModeStepKeeps ==
  ASSUME Inv, Releasing, brake.step = SET_MODE_11, SetModeStep,
         UNCHANGED <<worker, device, sent>>
  PROVE  Inv'
<1>1. brake \in Brakes /\ brake.slave # 0
  BY DEF Inv, Typed, IDLE, SET_MODE_11
<1>2. /\ brake' = [brake EXCEPT !.step = 2, !.retry = 0]
      /\ UNCHANGED <<ecat, drive>> /\ job' = job
  BY DEF SetModeStep, WRITE_OPEN_COMMAND
<1>3. brake' \in Brakes /\ brake'.slave = brake.slave /\ brake'.step = 2
  <2>1. 2 \in IDLE..DONE
    BY DEF IDLE, DONE
  <2> QED
    BY <1>1, <1>2, <2>1 DEF Brakes
<1>4. job.state = "IDLE" /\ job' = [job EXCEPT !.state = "IDLE"]
  BY <1>2, FreeSlot
<1>5. brake'.step # IDLE /\ brake'.step >= brake.step /\ brake.step < brake'.step
  BY <1>3 DEF IDLE, SET_MODE_11
<1> QED
  BY <1>1, <1>2, <1>3, <1>4, <1>5, AdvanceKeeps

LEMMA WaitStepKeeps ==
  ASSUME Inv, Releasing, brake.step \in {WAIT_OPEN_10_MS, WAIT_10_MS},
         NEW next \in IDLE..DONE, next > brake.step,
         next \notin {WRITE_OPEN_COMMAND, WRITE_EXECUTE_COMMAND},
         WaitStep(next), UNCHANGED <<worker, device, sent>>
  PROVE  Inv'
<1>1. brake \in Brakes /\ brake.slave # 0 /\ brake.step \in {4, 9}
  BY DEF Inv, Typed, IDLE, WAIT_OPEN_10_MS, WAIT_10_MS
<1>2. /\ brake' \in {[brake EXCEPT !.waited = brake.waited + 1],
                     [brake EXCEPT !.step = next]}
      /\ UNCHANGED <<ecat, drive>> /\ job' = job
  BY DEF WaitStep, Advance
<1>3. brake' \in Brakes /\ brake'.slave = brake.slave /\ brake'.step \in {brake.step, next}
  BY <1>1, <1>2 DEF Brakes
<1>4. job.state = "IDLE" /\ job' = [job EXCEPT !.state = "IDLE"]
  BY <1>2, FreeSlot
<1>5. /\ brake'.step # IDLE /\ brake'.step >= brake.step
      /\ brake'.step \notin {WRITE_OPEN_COMMAND, WRITE_EXECUTE_COMMAND}
  BY <1>1, <1>3 DEF IDLE, DONE, WRITE_OPEN_COMMAND, WRITE_EXECUTE_COMMAND
<1> QED
  BY <1>1, <1>2, <1>3, <1>4, <1>5, AdvanceKeeps

LEMMA RelatchStepKeeps ==
  ASSUME Inv, Releasing, brake.step = RELATCH_TARGET_AND_SET_MODE_8, RelatchStep,
         UNCHANGED <<worker, device, sent>>
  PROVE  Inv'
<1>1. brake \in Brakes /\ brake.slave # 0 /\ brake.step = 13
  BY DEF Inv, Typed, IDLE, RELATCH_TARGET_AND_SET_MODE_8
<1>2. /\ brake' = [brake EXCEPT !.step = 14]
      /\ UNCHANGED <<ecat, drive>> /\ job' = job
  BY DEF RelatchStep, DONE
<1>3. brake' \in Brakes /\ brake'.slave = brake.slave /\ brake'.step = 14
  BY <1>1, <1>2 DEF Brakes, IDLE, DONE
<1>4. job.state = "IDLE" /\ job' = [job EXCEPT !.state = "IDLE"]
  BY <1>2, FreeSlot
<1>5. brake'.step # IDLE /\ brake'.step >= brake.step /\ brake.step < brake'.step
  BY <1>1, <1>3 DEF IDLE
<1> QED
  BY <1>1, <1>2, <1>3, <1>4, <1>5, AdvanceKeeps

(* The last slave's axis is done: the second axis of every slave is ahead. *)
LEMMA DoneStepKeeps ==
  ASSUME Inv, Releasing, brake.step = DONE, DoneStep, UNCHANGED <<worker, device, sent>>
  PROVE  Inv'
<1>1. job.state = "IDLE" /\ job = [job EXCEPT !.state = "IDLE"] /\ job' = job
  BY FreeSlot DEF DoneStep
<1>2. CASE brake.slave < LastSlave /\ Advance(StartSlave(brake.slave + 1))
  <2>1. brake' = StartSlave(brake.slave + 1) /\ UNCHANGED <<ecat, drive>>
    BY <1>2 DEF Advance
  <2> QED
    BY <1>1, <1>2, <2>1, NextSlaveKeeps
<1>3. CASE /\ brake' = NoBrake /\ UNCHANGED <<ecat, mode>>
           /\ drive' = IF Axis = 1 THEN "AXIS2_BRAKE_RELEASE" ELSE "CW06_WAIT_DELAY"
  <2>1. UNCHANGED <<op, closing, open, job, worker, device, sent>>
    BY <1>1, <1>3 DEF ecat
  <2>2. brake' \in Brakes /\ brake'.step = IDLE /\ brake'.slave = 0
    BY <1>3, Empty
  <2>3. Typed'
    BY <1>3, <2>1, <2>2 DEF Inv, Typed
  <2>4. Slot' /\ Copied' /\ AskedFor' /\ NotYetSent' /\ CommandedOnce'
    BY <1>1, <2>1 DEF Inv, Slot, Copied, AskedFor, NotYetSent, CommandedOnce, Waiting
  <2>5. NothingToCome'
    BY <2>2 DEF NothingToCome
  <2>6. NothingAhead'
    <3>1. CASE drive = "AXIS1_BRAKE_RELEASE"
      <4>1. Axis = 1 /\ Axis' = 2
        BY <1>3, <3>1 DEF Axis
      <4> QED
        BY <2>1, <4>1 DEF Inv, NothingAhead, Ahead, Releasing, X, Axes
    <3>2. CASE drive # "AXIS1_BRAKE_RELEASE"
      <4>1. ~Releasing'
        BY <1>3, <3>2 DEF Axis, Releasing
      <4> QED
        BY <4>1 DEF NothingAhead
    <3> QED
      BY <3>1, <3>2
  <2> QED
    BY <2>3, <2>4, <2>5, <2>6 DEF Inv
<1>4. CASE job.state # "IDLE" /\ Stay
  BY <1>1, <1>4
<1> QED
  BY <1>2, <1>3, <1>4 DEF DoneStep

LEMMA HandleBrakeStepKeeps ==
  ASSUME Inv, Releasing, HandleBrakeStep, UNCHANGED <<worker, device, sent>>
  PROVE  Inv'
<1> USE DEF IDLE, SET_MODE_11, WRITE_OPEN_COMMAND, WAIT_OPEN_FEEDBACK, WAIT_OPEN_10_MS,
      WRITE_OPEN_CLEAR_COMMAND, WAIT_OPEN_FEEDBACK_CLEAR, WRITE_EXECUTE_COMMAND,
      WAIT_EXECUTE_FEEDBACK, WAIT_10_MS, WRITE_CLEAR_COMMAND, WAIT_FEEDBACK_CLEAR,
      WRITE_COMMAND_ZERO, RELATCH_TARGET_AND_SET_MODE_8, DONE
<1>1. ASSUME NEW data \in Commands, NEW next \in IDLE..DONE, WriteOf(data),
             next > brake.step, next \notin {WRITE_OPEN_COMMAND, WRITE_EXECUTE_COMMAND},
             WriteStep(data, next)
      PROVE  Inv'
  BY <1>1, WriteStepKeeps
<1>2. ASSUME NEW expected, NEW next \in IDLE..DONE, Polled, next > brake.step,
             next # WRITE_OPEN_COMMAND, ReadStep(expected, next)
      PROVE  Inv'
  BY <1>2, ReadStepKeeps
<1>3. {"OPEN", "EXECUTE", "CLEAR", "ZERO"} \subseteq Commands
  BY DEF Commands
<1>4. CASE brake.step = IDLE /\ IdleStep
  BY <1>4, IdleStepKeeps
<1>5. CASE brake.step = SET_MODE_11 /\ SetModeStep
  BY <1>5, SetModeStepKeeps
<1>6. CASE brake.step = WRITE_OPEN_COMMAND /\ WriteStep("OPEN", WAIT_OPEN_FEEDBACK)
  BY <1>1, <1>3, <1>6 DEF WriteOf
<1>7. CASE brake.step = WAIT_OPEN_FEEDBACK /\ ReadStep("OPENED", WAIT_OPEN_10_MS)
  BY <1>2, <1>7 DEF Polled
<1>8. CASE brake.step = WAIT_OPEN_10_MS /\ WaitStep(WRITE_OPEN_CLEAR_COMMAND)
  BY <1>8, WaitStepKeeps
<1>9. CASE brake.step = WRITE_OPEN_CLEAR_COMMAND /\ WriteStep("CLEAR", WAIT_OPEN_FEEDBACK_CLEAR)
  BY <1>1, <1>3, <1>9 DEF WriteOf
<1>10. CASE brake.step = WAIT_OPEN_FEEDBACK_CLEAR /\ ReadStep("NONE", WRITE_EXECUTE_COMMAND)
  BY <1>2, <1>10 DEF Polled
<1>11. CASE brake.step = WRITE_EXECUTE_COMMAND /\ WriteStep("EXECUTE", WAIT_EXECUTE_FEEDBACK)
  BY <1>1, <1>3, <1>11 DEF WriteOf
<1>12. CASE brake.step = WAIT_EXECUTE_FEEDBACK /\ ReadStep("EXECUTED", WAIT_10_MS)
  BY <1>2, <1>12 DEF Polled
<1>13. CASE brake.step = WAIT_10_MS /\ WaitStep(WRITE_CLEAR_COMMAND)
  BY <1>13, WaitStepKeeps
<1>14. CASE brake.step = WRITE_CLEAR_COMMAND /\ WriteStep("CLEAR", WAIT_FEEDBACK_CLEAR)
  BY <1>1, <1>3, <1>14 DEF WriteOf
<1>15. CASE brake.step = WAIT_FEEDBACK_CLEAR /\ ReadStep("NONE", WRITE_COMMAND_ZERO)
  BY <1>2, <1>15 DEF Polled
<1>16. CASE brake.step = WRITE_COMMAND_ZERO /\ WriteStep("ZERO", RELATCH_TARGET_AND_SET_MODE_8)
  BY <1>1, <1>3, <1>16 DEF WriteOf
<1>17. CASE brake.step = RELATCH_TARGET_AND_SET_MODE_8 /\ RelatchStep
  BY <1>17, RelatchStepKeeps
<1>18. CASE brake.step = DONE /\ DoneStep
  BY <1>18, DoneStepKeeps
<1> QED
  BY <1>4, <1>5, <1>6, <1>7, <1>8, <1>9, <1>10, <1>11, <1>12, <1>13, <1>14, <1>15,
     <1>16, <1>17, <1>18 DEF HandleBrakeStep

----------------------------------------------------------------------------
(* Giving up: only with the slot not in the worker's hands.                *)
LEMMA GiveUpKeeps ==
  ASSUME Inv, Releasing, NEW restore \in BOOLEAN, GiveUp(restore),
         UNCHANGED <<worker, device, sent>>
  PROVE  Inv'
<1>1. CASE EnterError
  BY <1>1, EnterErrorKeeps
<1>2. CASE /\ Cancellable(brake.step \in {WRITE_OPEN_COMMAND, WRITE_EXECUTE_COMMAND})
           /\ job' = [job EXCEPT !.state = "IDLE"]
           /\ brake' = NoBrake /\ drive' = "CW06_ROLLBACK_ZERO"
           /\ UNCHANGED ecat
  <2>1. job.state # "RUNNING"
    BY <1>2 DEF Cancellable
  <2>2. worker.pc = "idle" /\ open
    <3>1. worker.pc = "idle"
      BY <2>1 DEF Inv, Slot
    <3>2. open
      BY DEF Inv, Slot, Releasing
    <3> QED
      BY <3>1, <3>2
  <2>3. UNCHANGED <<op, closing, open, worker, device, sent>>
    BY <1>2 DEF ecat
  <2>4. job' \in Jobs /\ job'.state = "IDLE"
    BY <1>2 DEF Inv, Typed, Jobs
  <2>5. brake' \in Brakes /\ brake'.step = IDLE /\ brake'.slave = 0
    BY <1>2, Empty
  <2>6. Typed'
    BY <1>2, <2>3, <2>4, <2>5 DEF Inv, Typed
  <2>7. Slot' /\ Copied' /\ AskedFor' /\ NotYetSent' /\ CommandedOnce'
    BY <2>2, <2>3, <2>4 DEF Inv, Slot, Copied, AskedFor, NotYetSent, CommandedOnce, Waiting
  <2>8. ~Releasing'
    BY <1>2 DEF Releasing
  <2> QED
    BY <2>6, <2>7, <2>8 DEF Inv, NothingAhead, NothingToCome
<1> QED
  BY <1>1, <1>2 DEF GiveUp

LEMMA TaskKeeps == ASSUME Inv, Task PROVE Inv'
<1>1. CASE GoodExchange
  BY <1>1, HandleBrakeStepKeeps DEF GoodExchange
<1>2. CASE AxisNotDisabled
  <2>1. (brake.step >= SET_MODE_11) \in BOOLEAN
    BY DEF Inv, Typed, Brakes, SET_MODE_11
  <2> QED
    BY <1>2, <2>1, GiveUpKeeps DEF AxisNotDisabled
<1>3. CASE BadExchange
  <2>1. CASE Stay /\ UNCHANGED job
    BY <1>3, <2>1, StayKeeps DEF BadExchange
  <2>2. CASE GiveUp(brake.slave > 0)
    <3>1. (brake.slave > 0) \in BOOLEAN
      BY DEF Inv, Typed, Brakes
    <3> QED
      BY <1>3, <2>2, <3>1, GiveUpKeeps DEF BadExchange
  <2> QED
    BY <1>3, <2>1, <2>2 DEF BadExchange
<1>4. CASE KeepClosing
  BY <1>4, CloseKeeps DEF KeepClosing
<1> QED
  BY <1>1, <1>2, <1>3, <1>4 DEF Task

----------------------------------------------------------------------------
LEMMA FeedbackKeeps == ASSUME Inv, NEW x \in X, Feedback(x) PROVE Inv'
<1>1. UNCHANGED <<op, closing, open, drive, brake, job, worker, sent>>
  BY DEF Feedback, ecat
<1>2. device' \in [X -> [command : Values, fb1 : Values, fb2 : Values]]
  <2>1. Shown(device[x].command) \in Values
    BY DEF Shown, Values, Feedbacks
  <2> HIDE DEF Shown
  <2> QED
    BY <2>1 DEF Feedback, Inv, Typed
<1> QED
  BY <1>1, <1>2 DEF Inv, Typed, Slot, Copied, AskedFor, NothingAhead, NothingToCome,
     NotYetSent, CommandedOnce, Waiting, Releasing, Ahead, This, Axis, Polled

LEMMA ClaimKeeps == ASSUME Inv, Claim PROVE Inv'
<1> USE DEF Inv
<1>1. /\ worker.pc = "idle" /\ op = "OPERATIONAL" /\ open /\ job.state \in Pending
      /\ worker' = [pc |-> "transfer", write |-> job.state = "WRITE_PENDING",
                    slave |-> job.slave, index |-> job.index, data |-> job.data, ok |-> FALSE]
      /\ job' = [job EXCEPT !.state = "RUNNING"]
      /\ UNCHANGED <<op, closing, open, drive, brake, device, sent>>
  BY DEF Claim, ecat
<1>2. job \in Jobs
  BY DEF Typed
<1>3. /\ job' \in Jobs /\ job'.state = "RUNNING" /\ job'.slave = job.slave
      /\ job'.index = job.index /\ job'.data = job.data
  BY <1>1, <1>2 DEF Jobs
<1>4. DEFINE w == job.state = "WRITE_PENDING"
<1>5. w \in BOOLEAN
  OBVIOUS
<1>6. /\ worker'.pc = "transfer" /\ worker'.write = w /\ worker'.slave = job.slave
      /\ worker'.index = job.index /\ worker'.data = job.data
  BY <1>1
<1>7. worker' \in Workers
  <2> HIDE DEF w
  <2>1. worker' = [pc |-> "transfer", write |-> w, slave |-> job.slave,
                   index |-> job.index, data |-> job.data, ok |-> FALSE]
    BY <1>1 DEF w
  <2> QED
    BY <1>2, <1>5, <2>1 DEF Workers, Jobs
<1>8. Typed'
  BY <1>1, <1>3, <1>7 DEF Typed
<1>9. Slot'
  BY <1>1, <1>3, <1>6 DEF Slot
<1>10. w <=> job.index[2] = "command"
  BY <1>1 DEF AskedFor, Pending
<1>11. Copied'
  BY <1>3, <1>6, <1>10 DEF Copied
<1>12. AskedFor'
  BY <1>1, <1>3 DEF AskedFor, Pending, Axis, Polled
<1>13. NothingAhead' /\ CommandedOnce'
  BY <1>1 DEF NothingAhead, CommandedOnce, Releasing, Ahead, Axis
<1>14. NothingToCome'
  BY <1>1, <1>3 DEF NothingToCome, Releasing, This, Axis
<1>15. NotYetSent'
  BY <1>1, <1>3, <1>6 DEF NotYetSent, Waiting
<1> QED
  BY <1>8, <1>9, <1>11, <1>12, <1>13, <1>14, <1>15

LEMMA PublishKeeps == ASSUME Inv, Publish PROVE Inv'
<1> USE DEF Inv
<1>1. /\ worker.pc = "publish" /\ worker' = NoWork
      /\ job' = [job EXCEPT !.state = "DONE", !.ok = worker.ok,
                   !.data = IF worker.write THEN job.data ELSE worker.data]
      /\ UNCHANGED <<op, closing, open, drive, brake, device, sent>>
  BY DEF Publish, ecat
<1>2. job \in Jobs /\ worker \in Workers /\ worker.write \in BOOLEAN
  BY DEF Typed, Workers
<1>3. /\ job' \in Jobs /\ job'.state = "DONE" /\ job'.slave = job.slave
      /\ job'.index = job.index /\ (worker.write => job'.data = job.data)
  BY <1>1, <1>2 DEF Jobs, Workers
<1>4. worker' \in Workers /\ worker'.pc = "idle"
  BY <1>1, Empty
<1>5. job.state = "RUNNING" /\ (worker.write <=> job.index[2] = "command") /\ open
  <2>1. job.state = "RUNNING" /\ (worker.write <=> job.index[2] = "command")
    BY <1>1 DEF Slot, Copied
  <2>2. open
    BY <1>1 DEF Slot
  <2> QED
    BY <2>1, <2>2
<1>6. Typed'
  BY <1>1, <1>3, <1>4 DEF Typed
<1>7. Slot' /\ Copied' /\ NotYetSent'
  BY <1>1, <1>3, <1>4, <1>5 DEF Slot, Copied, NotYetSent, Waiting
<1>8. AskedFor'
  BY <1>1, <1>3, <1>5 DEF AskedFor, Axis, Polled
<1>9. NothingAhead' /\ CommandedOnce'
  BY <1>1 DEF NothingAhead, CommandedOnce, Releasing, Ahead, Axis
<1>10. NothingToCome'
  BY <1>1, <1>3, <1>5 DEF NothingToCome, Releasing, This, Axis
<1> QED
  BY <1>6, <1>7, <1>8, <1>9, <1>10

(* The write is the one that was not sent yet, to the axis at hand.        *)
LEMMA TransferKeeps == ASSUME Inv, Transfer PROVE Inv'
<1> USE DEF Inv
<1>1. /\ worker.pc = "transfer" /\ (Write \/ Read)
      /\ UNCHANGED <<op, closing, open, drive, brake, job>>
  BY DEF Transfer, ecat
<1>2. worker \in Workers /\ job \in Jobs /\ brake \in Brakes
      /\ job.state = "RUNNING"
  BY <1>1 DEF Typed, Slot
<1>3. /\ worker.slave = job.slave /\ worker.index = job.index
      /\ worker.write => worker.data = job.data
      /\ worker.write <=> job.index[2] = "command"
  BY <1>1 DEF Copied
<1>4. /\ job.slave = brake.slave /\ brake.slave # 0
      /\ job.index \in Axes \X Objects /\ job.index[1] = Axis
  BY <1>2 DEF AskedFor
<1>5. Target = This /\ This \in X /\ This = <<job.slave, job.index[1]>>
  <2>1. brake.slave \in Slaves
    BY <1>2, <1>4, BrakeAssumption DEF BrakeAssumption, Brakes, Slaves
  <2> QED
    BY <1>3, <1>4, <2>1, AxisType DEF Target, This, X
<1>6. ~Ahead(This)
  BY <1>2, AxisType DEF Ahead, This, Brakes, Axes
<1>7. ASSUME worker' \in Workers, worker'.pc = "publish", worker'.write = worker.write,
             worker'.slave = worker.slave, worker'.index = worker.index,
             worker.write => worker'.data = worker.data
      PROVE  Slot' /\ Copied' /\ AskedFor' /\ NotYetSent'
  <2>1. Slot'
    BY <1>1, <1>2, <1>7 DEF Slot
  <2>2. Copied'
    BY <1>1, <1>3, <1>7 DEF Copied
  <2>3. AskedFor'
    BY <1>1 DEF AskedFor, Axis, Polled
  <2>4. NotYetSent'
    BY <1>1, <1>2, <1>7 DEF NotYetSent, Waiting
  <2> QED
    BY <2>1, <2>2, <2>3, <2>4
<1>8. CASE Read
  <2>1. ~worker.write /\ UNCHANGED <<device, sent>>
    BY <1>8 DEF Read
  <2>2. device[Target][worker.index[2]] \in Values
    BY <1>3, <1>4, <1>5 DEF Typed, Objects
  <2>3. PICK done \in BOOLEAN :
          worker' = [worker EXCEPT !.pc = "publish", !.ok = done,
                       !.data = IF done THEN device[Target][worker.index[2]] ELSE worker.data]
    BY <1>8 DEF Read
  <2>4. /\ worker' \in Workers /\ worker'.pc = "publish"
        /\ worker'.write = worker.write /\ worker'.slave = worker.slave
        /\ worker'.index = worker.index
    BY <1>2, <2>2, <2>3 DEF Workers
  <2>5. Typed'
    BY <1>1, <2>1, <2>4 DEF Typed
  <2>6. NothingAhead' /\ NothingToCome' /\ CommandedOnce'
    BY <1>1, <2>1 DEF NothingAhead, NothingToCome, CommandedOnce, Releasing, Ahead,
       This, Axis
  <2> QED
    BY <1>7, <2>1, <2>4, <2>5, <2>6
<1>9. CASE Write
  <2>1. worker.write /\ worker.data = job.data /\ worker.data \in Commands
    <3>1. worker.write /\ worker.data = job.data /\ job.index[2] = "command"
      BY <1>3, <1>9 DEF Write
    <3> QED
      BY <1>2, <3>1 DEF AskedFor, Commands
  <2>2. PICK effect \in BOOLEAN, done \in BOOLEAN :
          /\ worker' = [worker EXCEPT !.pc = "publish", !.ok = done]
          /\ IF effect
             THEN /\ device' = [device EXCEPT ![Target].command = worker.data]
                  /\ sent' = IF worker.data \in {"OPEN", "EXECUTE"}
                             THEN [sent EXCEPT ![Target][worker.data] = @ + 1] ELSE sent
             ELSE UNCHANGED <<device, sent>>
    BY <1>9 DEF Write
  <2>3. /\ worker' \in Workers /\ worker'.pc = "publish"
        /\ worker'.write = worker.write /\ worker'.slave = worker.slave
        /\ worker'.index = worker.index /\ worker'.data = worker.data
    BY <1>2, <2>2 DEF Workers
  <2>4. Slot' /\ Copied' /\ AskedFor' /\ NotYetSent'
    BY <1>7, <2>3
  <2>5. device' \in [X -> [command : Values, fb1 : Values, fb2 : Values]]
    <3>1. device \in [X -> [command : Values, fb1 : Values, fb2 : Values]]
      BY DEF Typed
    <3>2. worker.data \in Values
      BY <2>1 DEF Values
    <3>3. CASE effect
      <4>1. device' = [device EXCEPT ![This].command = worker.data]
        BY <1>5, <2>2, <3>3
      <4>2. [device[This] EXCEPT !.command = worker.data]
              \in [command : Values, fb1 : Values, fb2 : Values]
        BY <1>5, <3>1, <3>2
      <4> QED
        BY <1>5, <3>1, <4>1, <4>2
    <3>4. CASE ~effect
      BY <2>2, <3>1, <3>4
    <3> QED
      BY <3>3, <3>4
  <2>6. sent \in [X -> [OPEN : Nat, EXECUTE : Nat]]
    BY DEF Typed
  <2>7. CASE sent' = sent
    <3>1. Typed'
      BY <1>1, <2>3, <2>5, <2>7 DEF Typed
    <3>2. NothingAhead' /\ NothingToCome' /\ CommandedOnce'
      BY <1>1, <2>7 DEF NothingAhead, NothingToCome, CommandedOnce, Releasing, Ahead,
         This, Axis
    <3> QED
      BY <2>4, <3>1, <3>2
  <2>8. ASSUME worker.data = "OPEN", sent' = [sent EXCEPT ![This].OPEN = @ + 1]
        PROVE  Inv'
    <3>1. job.data = "OPEN" /\ sent[This].OPEN = 0 /\ brake.step = WRITE_OPEN_COMMAND
      <4>1. job.data = "OPEN" /\ job.index[2] = "command"
        BY <1>3, <2>1, <2>8
      <4>2. sent[This].OPEN = 0
        BY <1>1, <1>5, <2>1, <4>1 DEF NotYetSent, Waiting
      <4>3. brake.step = WRITE_OPEN_COMMAND
        BY <1>2, <4>1 DEF AskedFor
      <4> QED
        BY <4>1, <4>2, <4>3
    <3>2. /\ sent' \in [X -> [OPEN : Nat, EXECUTE : Nat]]
          /\ sent'[This].OPEN = 1 /\ sent'[This].EXECUTE = sent[This].EXECUTE
          /\ \A x \in X : x # This => sent'[x] = sent[x]
      BY <1>5, <2>6, <2>8, <3>1
    <3>3. Typed'
      BY <1>1, <2>3, <2>5, <3>2 DEF Typed
    <3>4. NothingAhead'
      BY <1>1, <1>6, <3>2 DEF NothingAhead, Releasing, Ahead, Axis
    <3>5. This' = This
      BY <1>1 DEF This, Axis
    <3>6. NothingToCome'
      BY <1>1, <1>2, <3>1, <3>2, <3>5 DEF NothingToCome, Releasing, WRITE_OPEN_COMMAND,
         WRITE_EXECUTE_COMMAND
    <3>7. CommandedOnce'
      <4>1. sent[This].OPEN <= 1 /\ sent[This].EXECUTE <= 1
        BY <1>5 DEF CommandedOnce, X
      <4>2. \A x \in X : sent'[x].OPEN <= 1 /\ sent'[x].EXECUTE <= 1
        <5> SUFFICES ASSUME NEW x \in X PROVE sent'[x].OPEN <= 1 /\ sent'[x].EXECUTE <= 1
          OBVIOUS
        <5>1. CASE x = This
          BY <3>2, <4>1, <5>1
        <5>2. CASE x # This
          <6>1. sent'[x] = sent[x]
            BY <3>2, <5>2
          <6>2. sent[x].OPEN <= 1 /\ sent[x].EXECUTE <= 1
            BY DEF CommandedOnce, X
          <6> QED
            BY <6>1, <6>2
        <5> QED
          BY <5>1, <5>2
      <4> QED
        BY <4>2 DEF CommandedOnce, X
    <3> QED
      BY <2>4, <3>3, <3>4, <3>6, <3>7
  <2>9. ASSUME worker.data = "EXECUTE", sent' = [sent EXCEPT ![This].EXECUTE = @ + 1]
        PROVE  Inv'
    <3>1. job.data = "EXECUTE" /\ sent[This].EXECUTE = 0 /\ brake.step = WRITE_EXECUTE_COMMAND
      <4>1. job.data = "EXECUTE" /\ job.index[2] = "command"
        BY <1>3, <2>1, <2>9
      <4>2. sent[This].EXECUTE = 0
        BY <1>1, <1>5, <2>1, <4>1 DEF NotYetSent, Waiting
      <4>3. brake.step = WRITE_EXECUTE_COMMAND
        BY <1>2, <4>1 DEF AskedFor
      <4> QED
        BY <4>1, <4>2, <4>3
    <3>2. /\ sent' \in [X -> [OPEN : Nat, EXECUTE : Nat]]
          /\ sent'[This].EXECUTE = 1 /\ sent'[This].OPEN = sent[This].OPEN
          /\ \A x \in X : x # This => sent'[x] = sent[x]
      BY <1>5, <2>6, <2>9, <3>1
    <3>3. Typed'
      BY <1>1, <2>3, <2>5, <3>2 DEF Typed
    <3>4. NothingAhead'
      BY <1>1, <1>6, <3>2 DEF NothingAhead, Releasing, Ahead, Axis
    <3>5. This' = This
      BY <1>1 DEF This, Axis
    <3>6. NothingToCome'
      BY <1>1, <1>2, <3>1, <3>2, <3>5 DEF NothingToCome, Releasing, WRITE_OPEN_COMMAND,
         WRITE_EXECUTE_COMMAND
    <3>7. CommandedOnce'
      <4>1. sent[This].OPEN <= 1 /\ sent[This].EXECUTE <= 1
        BY <1>5 DEF CommandedOnce, X
      <4>2. \A x \in X : sent'[x].OPEN <= 1 /\ sent'[x].EXECUTE <= 1
        <5> SUFFICES ASSUME NEW x \in X PROVE sent'[x].OPEN <= 1 /\ sent'[x].EXECUTE <= 1
          OBVIOUS
        <5>1. CASE x = This
          BY <3>2, <4>1, <5>1
        <5>2. CASE x # This
          <6>1. sent'[x] = sent[x]
            BY <3>2, <5>2
          <6>2. sent[x].OPEN <= 1 /\ sent[x].EXECUTE <= 1
            BY DEF CommandedOnce, X
          <6> QED
            BY <6>1, <6>2
        <5> QED
          BY <5>1, <5>2
      <4> QED
        BY <4>2 DEF CommandedOnce, X
    <3> QED
      BY <2>4, <3>3, <3>4, <3>6, <3>7
  <2> QED
    <3>1. CASE ~effect
      BY <2>2, <2>7, <3>1
    <3>2. CASE effect /\ worker.data \notin {"OPEN", "EXECUTE"}
      BY <2>2, <2>7, <3>2
    <3>3. CASE effect /\ worker.data = "OPEN"
      <4>1. sent' = [sent EXCEPT ![This].OPEN = @ + 1]
        BY <1>5, <2>2, <2>6, <3>3
      <4> QED
        BY <2>8, <3>3, <4>1
    <3>4. CASE effect /\ worker.data = "EXECUTE"
      <4>1. sent' = [sent EXCEPT ![This].EXECUTE = @ + 1]
        BY <1>5, <2>2, <2>6, <3>4
      <4> QED
        BY <2>9, <3>4, <4>1
    <3> QED
      BY <3>1, <3>2, <3>3, <3>4
<1> QED
  BY <1>1, <1>8, <1>9

----------------------------------------------------------------------------
LEMMA NextInv == Inv /\ [Next]_vars => Inv'
<1> SUFFICES ASSUME Inv, [Next]_vars PROVE Inv'
  OBVIOUS
<1>1. CASE Task
  BY <1>1, TaskKeeps
<1>2. CASE ProcessRuntimeSdoWorker
  BY <1>2, ClaimKeeps, TransferKeeps, PublishKeeps DEF ProcessRuntimeSdoWorker
<1>3. CASE Devices
  BY <1>3, FeedbackKeeps DEF Devices, X
<1>4. CASE UNCHANGED vars
  BY <1>4, RestKeeps DEF vars, ecat
<1> QED
  BY <1>1, <1>2, <1>3, <1>4 DEF Next

(* The invariant holds in every state the sequence reaches, whatever the   *)
(* transfers and the cycles do.                                            *)
THEOREM Invariant == Spec => []Inv
BY InitInv, NextInv, PTL DEF Spec

(* No axis is commanded to open its brake, or to close it, a second time,  *)
(* by however many slaves, cycles and failures of ECAT_runtime.c.          *)
THEOREM IsCommandedOnce == Spec => []CommandedOnce
<1>1. Inv => CommandedOnce
  BY DEF Inv
<1> QED
  BY Invariant, <1>1, PTL

(* The SDO worker's transfer ends, and its answer is in the slot, before   *)
(* ECAT_CloseContextWhenWorkerIdle closes the context.                     *)
THEOREM TransfersEndFirst == Spec => []ContextOutlivesTransfer
<1>1. Inv => ContextOutlivesTransfer
  BY DEF Inv, Slot, ContextOutlivesTransfer
<1> QED
  BY Invariant, <1>1, PTL

LEMMA AskedValue ==
  /\ brake.step = WRITE_OPEN_COMMAND => Asked = "OPEN"
  /\ brake.step \in {WRITE_OPEN_CLEAR_COMMAND, WRITE_CLEAR_COMMAND} => Asked = "CLEAR"
  /\ brake.step = WRITE_EXECUTE_COMMAND => Asked = "EXECUTE"
  /\ brake.step = WRITE_COMMAND_ZERO => Asked = "ZERO"
BY DEF Asked, WRITE_OPEN_COMMAND, WRITE_OPEN_CLEAR_COMMAND, WRITE_CLEAR_COMMAND,
   WRITE_EXECUTE_COMMAND, WRITE_COMMAND_ZERO

(* A job in the slot of ECAT_RuntimeBrakeProcessSdo is the one the current *)
(* step asked for: no step takes the answer to another's request.          *)
THEOREM JobsAreAsked == Spec => []JobIsAsked
<1>1. ASSUME Inv PROVE JobIsAsked
  <2> SUFFICES ASSUME job.state # "IDLE"
               PROVE  /\ job.slave = brake.slave /\ job.index[1] = Axis
                      /\ \/ job.index[2] = "command" /\ job.data = Asked
                         \/ Polled /\ job.index[2] = IF brake.retry = 0 THEN "fb1" ELSE "fb2"
    BY DEF JobIsAsked
  <2>1. AskedFor
    BY <1>1 DEF Inv
  <2>2. job.slave = brake.slave /\ job.index[1] = Axis
    BY <2>1 DEF AskedFor
  <2>3. CASE job.index[2] = "command"
    BY <2>1, <2>2, <2>3, AskedValue DEF AskedFor
  <2>4. CASE job.index[2] # "command"
    BY <2>1, <2>2, <2>4 DEF AskedFor
  <2> QED
    BY <2>3, <2>4
<1> QED
  BY Invariant, <1>1, PTL

----------------------------------------------------------------------------
(* The course of the axis at hand.                                         *)
USE DEF IDLE, SET_MODE_11, WRITE_OPEN_COMMAND, WAIT_OPEN_FEEDBACK, WAIT_OPEN_10_MS,
  WRITE_OPEN_CLEAR_COMMAND, WAIT_OPEN_FEEDBACK_CLEAR, WRITE_EXECUTE_COMMAND,
  WAIT_EXECUTE_FEEDBACK, WAIT_10_MS, WRITE_CLEAR_COMMAND, WAIT_FEEDBACK_CLEAR,
  WRITE_COMMAND_ZERO, RELATCH_TARGET_AND_SET_MODE_8, DONE

LEMMA CommandTable ==
  /\ CommandAt(1) = "ZERO" /\ CommandAt(2) = "ZERO" /\ CommandAt(3) = "OPEN"
  /\ CommandAt(4) = "OPEN" /\ CommandAt(5) = "OPEN" /\ CommandAt(6) = "CLEAR"
  /\ CommandAt(7) = "CLEAR" /\ CommandAt(8) = "EXECUTE" /\ CommandAt(9) = "EXECUTE"
  /\ CommandAt(10) = "EXECUTE" /\ CommandAt(11) = "CLEAR" /\ CommandAt(12) = "CLEAR"
  /\ CommandAt(13) = "ZERO" /\ CommandAt(14) = "ZERO"
BY DEF CommandAt

LEMMA SentTable ==
  /\ \A s \in {1, 2} : SentAt(s) = [OPEN |-> 0, EXECUTE |-> 0]
  /\ \A s \in {3, 4, 5, 6, 7} : SentAt(s) = [OPEN |-> 1, EXECUTE |-> 0]
  /\ \A s \in {8, 9, 10, 11, 12, 13, 14} : SentAt(s) = [OPEN |-> 1, EXECUTE |-> 1]
BY DEF SentAt

LEMMA StepType ==
  ASSUME Inv, Releasing, brake.slave # 0
  PROVE  /\ brake.step \in {1, 2, 3, 4, 5, 6, 7, 8, 9, 10, 11, 12, 13, 14}
         /\ brake.slave \in Slaves /\ This \in X
<1>1. brake \in Brakes /\ (brake.step = 0 <=> brake.slave = 0)
  BY DEF Inv, Typed
<1>2. brake.step \in {1, 2, 3, 4, 5, 6, 7, 8, 9, 10, 11, 12, 13, 14}
  BY <1>1 DEF Brakes
<1>3. brake.slave \in Slaves
  BY <1>1, BrakeAssumption DEF BrakeAssumption, Brakes, Slaves
<1> QED
  BY <1>2, <1>3, AxisType DEF This, X

LEMMA Positions ==
  ASSUME Inv, Releasing
  PROVE  /\ \A x \in X : Ahead(x) \/ Behind(x) \/ (brake.slave # 0 /\ x = This)
         /\ brake.slave # 0 => ~Ahead(This) /\ ~Behind(This)
<1>1. brake.slave \in Nat
  BY DEF Inv, Typed, Brakes
<1>2. Axis \in {1, 2}
  BY AxisType DEF Axes
<1>3. ASSUME NEW x \in X, ~Ahead(x), ~Behind(x) PROVE brake.slave # 0 /\ x = This
  <2>1. x[1] \in Nat /\ x[1] # 0 /\ x[2] \in {1, 2} /\ x = <<x[1], x[2]>>
    BY BrakeAssumption DEF BrakeAssumption, X, Slaves, Axes
  <2>2. x[2] = Axis /\ x[1] = brake.slave
    BY <1>1, <1>2, <1>3, <2>1 DEF Ahead, Behind
  <2> QED
    BY <2>1, <2>2 DEF This
<1>4. ~Ahead(This) /\ ~Behind(This)
  BY <1>1, <1>2 DEF Ahead, Behind, This
<1> QED
  BY <1>3, <1>4

LEMMA IdleWorker == ASSUME Inv, job.state # "RUNNING" PROVE worker.pc = "idle"
BY DEF Inv, Slot

(* A step that changes nothing but the axis at hand.                       *)
LEMMA HereKeeps ==
  ASSUME Inv, Course, Releasing, brake.slave # 0, UNCHANGED <<op, drive>>,
         brake'.slave = brake.slave,
         \A x \in X : x # This =>
           device'[x] = device[x] /\ sent'[x] = sent[x] /\ mode'[x] = mode[x],
         OnCourse'
  PROVE  Course'
<1>1. Axis' = Axis /\ This' = This
  BY DEF Axis, This
<1>2. Releasing' /\ drive' \notin {"CW06_ROLLBACK_ZERO", "CW06_WAIT_DELAY"}
  BY DEF Releasing
<1>3. \A x \in X : Ahead(x) \/ Behind(x) => x # This
  BY Positions
<1>4. AheadAtRest'
  <2> SUFFICES ASSUME NEW x \in X, Ahead(x)' PROVE Clean(x, 0)' /\ (mode[x] # 11)'
    BY DEF AheadAtRest
  <2>1. Ahead(x)
    BY <1>1 DEF Ahead
  <2>2. Clean(x, 0) /\ mode[x] # 11
    BY <2>1 DEF Course, AheadAtRest
  <2>3. device'[x] = device[x] /\ sent'[x] = sent[x] /\ mode'[x] = mode[x]
    BY <1>3, <2>1
  <2> QED
    BY <2>2, <2>3 DEF Clean, AtRest
<1>5. BehindAtRest'
  <2> SUFFICES ASSUME NEW x \in X, Behind(x)' PROVE Clean(x, 1)' /\ (mode[x] = 8)'
    BY DEF BehindAtRest
  <2>1. Behind(x)
    BY <1>1 DEF Behind
  <2>2. Clean(x, 1) /\ mode[x] = 8
    BY <2>1 DEF Course, BehindAtRest
  <2>3. device'[x] = device[x] /\ sent'[x] = sent[x] /\ mode'[x] = mode[x]
    BY <1>3, <2>1
  <2> QED
    BY <2>2, <2>3 DEF Clean, AtRest
<1>6. HereOnCourse' /\ EndedFree' /\ RollbackIsClean' /\ DoneIsClean'
  BY <1>2 DEF HereOnCourse, EndedFree, RollbackIsClean, DoneIsClean
<1> QED
  BY <1>4, <1>5, <1>6 DEF Course

(* Off the sequence, and not at its end, nothing is claimed.               *)
LEMMA AsideKeeps ==
  ASSUME ~Releasing', drive' \notin {"CW06_ROLLBACK_ZERO", "CW06_WAIT_DELAY"}
  PROVE  Course'
BY DEF Course, AheadAtRest, BehindAtRest, HereOnCourse, EndedFree, RollbackIsClean, DoneIsClean

LEMMA AtHere == ASSUME Inv, Course, Releasing, brake.slave # 0 PROVE OnCourse
BY DEF Course, HereOnCourse

(* With the slot free, the axis at hand is where the next step expects it. *)
LEMMA FreeOnCourse ==
  ASSUME Inv, Releasing, brake.slave # 0,
         job'.state = "IDLE", worker.pc = "idle",
         UNCHANGED <<drive, device, sent, worker>>, brake'.slave = brake.slave,
         brake'.step \in {1, 2, 3, 4, 5, 6, 7, 8, 9, 10, 11, 12, 13, 14},
         Reached(brake'.step),
         brake'.step <= 2 \/ brake'.step > 11 => Cleared,
         brake'.step = 11 /\ brake'.retry = 1 /\ brake'.first = "NONE" =>
           device[This].fb1 = "NONE",
         mode'[This] \in ModesAt(brake'.step)
  PROVE  OnCourse'
<1>1. This' = This
  BY DEF This, Axis
<1>2. ~Asking' /\ ~Confirmed'
  BY DEF Asking, Confirmed
<1>3. Reached(brake.step)' /\ (brake'.step <= 2 \/ brake'.step > 11 => Cleared')
  BY <1>1 DEF Reached, Cleared
<1>4. brake'.step >= 11 => device'[This].command \in {"CLEAR", "ZERO"}
  BY CommandTable DEF Reached
<1>5. mode'[This'] \in ModesAt(brake'.step)
  BY <1>1
<1>6. (mode[This] \in ModesAt(brake.step))'
  BY <1>5 DEF ModesAt
<1> QED
  BY <1>1, <1>2, <1>3, <1>4, <1>6 DEF OnCourse

LEMMA AdvanceCourse ==
  ASSUME Inv, Shapes, Course, Releasing, brake.slave # 0,
         job'.state = "IDLE", worker.pc = "idle",
         UNCHANGED <<ecat, drive, device, sent, worker>>, brake'.slave = brake.slave,
         brake'.step \in {1, 2, 3, 4, 5, 6, 7, 8, 9, 10, 11, 12, 13, 14},
         brake'.first \in Feedbacks, brake'.waited \in 0..WaitCycles,
         Reached(brake'.step),
         brake'.step <= 2 \/ brake'.step > 11 => Cleared,
         brake'.step = 11 /\ brake'.retry = 1 /\ brake'.first = "NONE" =>
           device[This].fb1 = "NONE",
         NEW m \in ModesAt(brake'.step), m \in {0, 8, 11},
         mode' = [mode EXCEPT ![This] = m]
  PROVE  Shapes' /\ Course'
<1>1. This \in X /\ mode \in [X -> {0, 8, 11}]
  BY StepType DEF Shapes
<1>2. mode'[This] = m /\ \A x \in X : x # This => mode'[x] = mode[x]
  BY <1>1
<1>3. OnCourse'
  BY <1>2, FreeOnCourse
<1>4. Course'
  BY <1>2, <1>3, HereKeeps DEF ecat
<1>5. Shapes'
  BY <1>1 DEF Shapes
<1> QED
  BY <1>4, <1>5

(* The same, when the mode stays and the step comes after one whose course *)
(* was the same.                                                           *)
LEMMA StayingMode ==
  ASSUME Inv, Shapes, Course, Releasing, brake.slave # 0,
         brake.step # 1, brake.step # 14
  PROVE  mode = [mode EXCEPT ![This] = 11] /\ 11 \in {0, 8, 11}
<1>1. This \in X /\ mode \in [X -> {0, 8, 11}]
  BY StepType DEF Shapes
<1>2. mode[This] \in ModesAt(brake.step)
  BY AtHere DEF OnCourse
<1>3. mode[This] = 11
  BY <1>2 DEF ModesAt
<1> QED
  BY <1>1, <1>3

(* An error ends the sequence, with the context or as soon as it can.      *)
LEMMA ErrorCourse ==
  ASSUME Inv, Shapes, Course, op' = "ERROR", CloseContextWhenWorkerIdle,
         UNCHANGED <<mode, worker, device, sent>>
  PROVE  Shapes' /\ Course'
<1>1. ~Releasing'
  BY DEF Releasing
<1>2. CASE worker.pc = "idle"
  <2>1. drive' = "CW06_DISABLED" /\ brake' = NoBrake /\ job' = NoJob
    BY <1>2 DEF CloseContextWhenWorkerIdle
  <2>2. Course'
    BY <1>1, <2>1, AsideKeeps
  <2>3. brake'.first = "NONE" /\ brake'.waited = 0 /\ job'.state = "IDLE"
    BY <2>1 DEF NoBrake, NoJob
  <2>4. "NONE" \in Feedbacks /\ 0 \in 0..WaitCycles
    BY BrakeAssumption DEF BrakeAssumption, Feedbacks
  <2>5. Shapes'
    BY <2>3, <2>4 DEF Shapes
  <2> QED
    BY <2>2, <2>5
<1>3. CASE worker.pc # "idle"
  <2>1. UNCHANGED <<drive, brake, job>>
    BY <1>3 DEF CloseContextWhenWorkerIdle
  <2>2. Shapes'
    BY <2>1 DEF Shapes, Asking
  <2>3. job.state = "RUNNING"
    BY <1>3 DEF Inv, Slot
  <2>4. drive' \notin {"CW06_ROLLBACK_ZERO", "CW06_WAIT_DELAY"}
    BY <2>1, <2>3 DEF Course, EndedFree
  <2> QED
    BY <1>1, <2>2, <2>4, AsideKeeps
<1> QED
  BY <1>2, <1>3

LEMMA StayCourse ==
  ASSUME Shapes, Course, UNCHANGED <<op, drive, brake, mode, job, worker, device, sent>>
  PROVE  Shapes' /\ Course'
<1>1. UNCHANGED <<Axis, This, Releasing>>
  BY DEF Axis, This, Releasing
<1>2. Shapes'
  BY DEF Shapes, Asking
<1>3. AheadAtRest' /\ BehindAtRest'
  BY <1>1 DEF Course, AheadAtRest, BehindAtRest, Ahead, Behind, Clean, AtRest
<1>4. HereOnCourse'
  <2>1. UNCHANGED <<Undone, Confirmed, Asking, Reply, Cleared>>
    BY <1>1 DEF Undone, Confirmed, Asking, Reply, Cleared
  <2>2. Reached(brake.step)' = Reached(brake.step)
        /\ Reached(brake.step + 1)' = Reached(brake.step + 1)
    BY <1>1 DEF Reached, CommandAt, SentAt
  <2>3. ModesAt(brake.step)' = ModesAt(brake.step)
    BY DEF ModesAt
  <2> QED
    BY <1>1, <2>1, <2>2, <2>3 DEF Course, HereOnCourse, OnCourse
<1>5. EndedFree' /\ RollbackIsClean' /\ DoneIsClean'
  BY DEF Course, EndedFree, RollbackIsClean, DoneIsClean, AtRest
<1> QED
  BY <1>2, <1>3, <1>4, <1>5 DEF Course

(* A transfer that is asked for has no effect yet.                         *)
LEMMA SubmitCourse ==
  ASSUME Inv, Shapes, Course, Releasing, brake.slave # 0,
         job.state = "IDLE", job'.state \in Pending,
         UNCHANGED <<ecat, drive, brake, mode, worker, device, sent>>
  PROVE  Shapes' /\ Course'
<1>1. worker.pc = "idle" /\ job'.state # "DONE"
  BY IdleWorker DEF Pending
<1>2. This' = This
  BY DEF This, Axis
<1>3. Shapes'
  BY <1>1 DEF Shapes
<1>4. OnCourse
  BY AtHere
<1>5. Undone /\ ~Confirmed'
  BY <1>1 DEF Undone, Confirmed
<1>6. Reached(brake.step)' = Reached(brake.step) /\ Cleared' = Cleared
      /\ ModesAt(brake.step)' = ModesAt(brake.step)
  BY <1>2 DEF Reached, Cleared, CommandAt, SentAt, ModesAt
<1>7. OnCourse'
  BY <1>2, <1>4, <1>5, <1>6 DEF OnCourse
<1> QED
  BY <1>3, <1>7, HereKeeps DEF ecat

(* The answer to a write moves the sequence past the write.                *)
LEMMA WriteStepCourse ==
  ASSUME Inv, Shapes, Course, Releasing, NEW data, WriteOf(data),
         WriteStep(data, brake.step + 1), UNCHANGED <<worker, device, sent>>
  PROVE  Shapes' /\ Course'
<1>1. brake \in Brakes /\ job \in Jobs /\ brake.slave # 0
  BY DEF Inv, Typed, WriteOf
<1>2. brake.step \in {2, 5, 7, 10, 12}
  BY DEF WriteOf
<1> DEFINE request == Request(TRUE, "command", data)
<1>3. CASE Submit(request) /\ Stay
  <2>1. job.state = "IDLE" /\ job'.state = "WRITE_PENDING"
    BY <1>3 DEF Submit, Request
  <2>2. UNCHANGED <<ecat, drive, brake, mode>>
    BY <1>3 DEF Stay
  <2> QED
    BY <1>1, <2>1, <2>2, SubmitCourse DEF Pending
<1>4. CASE Busy /\ Stay
  BY <1>4, StayCourse DEF Busy, Stay, ecat
<1>5. CASE Refuse(request) /\ EnterError
  BY <1>5, ErrorCourse DEF EnterError
<1>6. CASE /\ Consume(request)
           /\ Advance([brake EXCEPT !.step = brake.step + 1, !.retry = 0, !.first = "NONE"])
  <2>1. /\ job.state = "DONE" /\ job.ok /\ job.index = request.index
        /\ job' = [job EXCEPT !.state = "IDLE"]
    BY <1>6 DEF Consume, Answered
  <2>2. job'.state = "IDLE" /\ job.index[2] = "command"
    BY <1>1, <2>1 DEF Jobs, Request
  <2>3. UNCHANGED <<ecat, drive, mode>>
        /\ brake' = [brake EXCEPT !.step = brake.step + 1, !.retry = 0, !.first = "NONE"]
    BY <1>6 DEF Advance
  <2>4. /\ brake'.step = brake.step + 1 /\ brake'.retry = 0 /\ brake'.slave = brake.slave
        /\ brake'.first = "NONE" /\ brake'.waited = brake.waited
    BY <1>1, <2>3 DEF Brakes
  <2>5. brake'.first \in Feedbacks /\ brake'.waited \in 0..WaitCycles
    BY <2>4 DEF Shapes, Feedbacks
  <2>6. worker.pc = "idle"
    BY <2>1, IdleWorker
  <2>7. Reached(brake'.step) /\ (brake'.step > 11 => Cleared)
    <3>1. OnCourse /\ Asking /\ Confirmed
      BY <1>1, <2>1, <2>2, AtHere DEF Asking, Confirmed
    <3>2. Reached(brake.step + 1)
      BY <3>1 DEF OnCourse
    <3>3. brake.step = 12 => Cleared
      BY <3>1 DEF OnCourse
    <3> QED
      BY <1>2, <2>4, <3>2, <3>3
  <2>8. mode' = [mode EXCEPT ![This] = 11] /\ 11 \in {0, 8, 11}
    BY <1>1, <1>2, <2>3, StayingMode
  <2>9. 11 \in ModesAt(brake'.step)
    BY <1>2, <2>4 DEF ModesAt
  <2>10. /\ brake'.step \in {1, 2, 3, 4, 5, 6, 7, 8, 9, 10, 11, 12, 13, 14}
         /\ ~(brake'.step <= 2)
    BY <1>2, <2>4
  <2>11. UNCHANGED <<ecat, drive>> /\ brake'.slave = brake.slave
    BY <2>3, <2>4
  <2>12. brake'.retry # 1
    BY <2>4
  <2> QED
    BY <1>1, <2>2, <2>5, <2>6, <2>7, <2>8, <2>9, <2>10, <2>11, <2>12, AdvanceCourse
<1> QED
  BY <1>3, <1>4, <1>5, <1>6 DEF WriteStep

(* The two objects, read one after the other, both show what they should.  *)
LEMMA ReadStepCourse ==
  ASSUME Inv, Shapes, Course, Releasing, NEW expected, Polled,
         brake.step = WAIT_FEEDBACK_CLEAR => expected = "NONE",
         ReadStep(expected, brake.step + 1), UNCHANGED <<worker, device, sent>>
  PROVE  Shapes' /\ Course'
<1>1. brake \in Brakes /\ job \in Jobs /\ brake.slave # 0
  BY DEF Inv, Typed, Polled
<1>2. brake.step \in {3, 6, 8, 11}
  BY DEF Polled
<1> DEFINE object == IF brake.retry = 0 THEN "fb1" ELSE "fb2"
           request == Request(FALSE, object, "ZERO")
<1>3. CASE Submit(request) /\ Stay
  <2>1. job.state = "IDLE" /\ job'.state = "READ_PENDING"
    BY <1>3 DEF Submit, Request
  <2>2. UNCHANGED <<ecat, drive, brake, mode>>
    BY <1>3 DEF Stay
  <2> QED
    BY <1>1, <2>1, <2>2, SubmitCourse DEF Pending
<1>4. CASE Busy /\ Stay
  BY <1>4, StayCourse DEF Busy, Stay, ecat
<1>5. CASE Refuse(request) /\ EnterError
  BY <1>5, ErrorCourse DEF EnterError
<1>6. ASSUME Consume(request), NEW b \in Brakes, Advance(b), b.slave = brake.slave,
             b.first \in Feedbacks, b.waited \in 0..WaitCycles,
             b.step \in {brake.step, brake.step + 1},
             b.step = 11 /\ b.retry = 1 /\ b.first = "NONE" => device[This].fb1 = "NONE",
             b.step > 11 => Cleared
      PROVE  Shapes' /\ Course'
  <2>1. job.state = "DONE" /\ job' = [job EXCEPT !.state = "IDLE"] /\ job.index = request.index
    BY <1>6 DEF Consume, Answered
  <2>2. job'.state = "IDLE" /\ worker.pc = "idle"
    BY <1>1, <2>1, IdleWorker DEF Jobs
  <2>3. UNCHANGED <<ecat, drive, mode>> /\ brake' = b
    BY <1>6 DEF Advance
  <2>4. job.index[2] # "command"
    BY <2>1 DEF Request
  <2>5. Reached(brake.step)
    <3>1. Undone
      BY <2>4 DEF Undone, Asking
    <3> QED
      BY <1>1, <3>1, AtHere DEF OnCourse
  <2>6. Reached(b.step)
    BY <1>2, <1>6, <2>5, CommandTable, SentTable DEF Reached
  <2>7. mode' = [mode EXCEPT ![This] = 11] /\ 11 \in {0, 8, 11}
    BY <1>1, <1>2, <2>3, StayingMode
  <2>8. b.step \in {3, 4, 6, 7, 8, 9, 11, 12}
    BY <1>2, <1>6
  <2>9. 11 \in ModesAt(b.step)
    BY <2>8 DEF ModesAt
  <2>10. /\ b.step \in {1, 2, 3, 4, 5, 6, 7, 8, 9, 10, 11, 12, 13, 14}
         /\ ~(b.step <= 2)
    BY <2>8
  <2> QED
    BY <1>1, <1>6, <2>2, <2>3, <2>6, <2>7, <2>9, <2>10, AdvanceCourse
<1>7. ASSUME Consume(request)
      PROVE  /\ job.data \in Feedbacks
             /\ brake.step = 11 /\ job.data = "NONE" => device[This][object] = "NONE"
  <2>1. job.state = "DONE" /\ job.ok /\ job.index = request.index
    BY <1>7 DEF Consume, Answered
  <2>2. job.index[2] = object /\ object # "command"
    BY <2>1 DEF Request
  <2>3. job.data \in Feedbacks
    BY <2>1, <2>2 DEF Shapes, Asking
  <2>4. Confirmed /\ Reply = job.data
    BY <2>1 DEF Confirmed, Reply
  <2> QED
    BY <1>1, <2>2, <2>3, <2>4, AtHere DEF OnCourse
<1>8. CASE /\ Consume(request) /\ brake.retry = 0
           /\ Advance([brake EXCEPT !.retry = 1, !.first = job.data])
  <2> DEFINE b == [brake EXCEPT !.retry = 1, !.first = job.data]
  <2>1. /\ b \in Brakes /\ b.slave = brake.slave /\ b.step = brake.step
        /\ b.first = job.data /\ b.waited = brake.waited
    BY <1>1 DEF Brakes, Jobs
  <2>2. Advance(b)
    BY <1>8
  <2> HIDE DEF b
  <2>3. b.first \in Feedbacks /\ b.waited \in 0..WaitCycles
    BY <1>7, <1>8, <2>1 DEF Shapes
  <2>4. b.step = 11 /\ b.retry = 1 /\ b.first = "NONE" => device[This].fb1 = "NONE"
    BY <1>7, <1>8, <2>1
  <2>5. ~(b.step > 11)
    BY <1>2, <2>1
  <2> QED
    BY <1>6, <1>8, <2>1, <2>2, <2>3, <2>4, <2>5
<1>9. CASE /\ Consume(request) /\ brake.retry = 1
           /\ Advance([brake EXCEPT !.retry = 0, !.waited = 0,
                 !.step = IF {brake.first, job.data} = {expected} THEN brake.step + 1 ELSE @])
  <2> DEFINE same == {brake.first, job.data} = {expected}
             b == [brake EXCEPT !.retry = 0, !.waited = 0,
                     !.step = IF same THEN brake.step + 1 ELSE @]
  <2>1. Advance(b)
    BY <1>9
  <2>2. same \in BOOLEAN /\ (same => brake.first = expected /\ job.data = expected)
    OBVIOUS
  <2> HIDE DEF same
  <2>3. /\ b \in Brakes /\ b.slave = brake.slave /\ b.retry = 0 /\ b.waited = 0
        /\ b.step = (IF same THEN brake.step + 1 ELSE brake.step) /\ b.first = brake.first
    <3>1. brake.step + 1 \in IDLE..DONE
      BY <1>2
    <3> QED
      BY <1>1, <2>2, <3>1 DEF Brakes
  <2> HIDE DEF b
  <2>4. b.first \in Feedbacks /\ b.waited \in 0..WaitCycles
    BY <2>3, BrakeAssumption DEF BrakeAssumption, Shapes
  <2>5. b.step > 11 => Cleared
    <3>1. SUFFICES ASSUME b.step > 11 PROVE Cleared
      OBVIOUS
    <3>2. same /\ brake.step = 11
      BY <1>2, <2>3, <3>1
    <3>3. brake.first = "NONE" /\ job.data = "NONE"
      BY <2>2, <3>2
    <3>4. device[This].fb1 = "NONE"
      BY <1>1, <1>9, <3>2, <3>3, AtHere DEF OnCourse
    <3>5. device[This].fb2 = "NONE"
      BY <1>7, <1>9, <3>2, <3>3
    <3> QED
      BY <3>4, <3>5 DEF Cleared
  <2>6. b.step \in {brake.step, brake.step + 1}
    BY <2>3
  <2> QED
    BY <1>6, <1>9, <2>1, <2>3, <2>4, <2>5, <2>6
<1> QED
  BY <1>3, <1>4, <1>5, <1>8, <1>9 DEF ReadStep

(* Before its first command, and after its last one, the axis is at rest.  *)
LEMMA RestHere ==
  ASSUME Inv, Shapes, Course, Releasing, brake.slave # 0, Undone
  PROVE  /\ brake.step \in {1, 2} => Clean(This, 0)
         /\ brake.step = 14 => Clean(This, 1) /\ mode[This] = 8
<1>1. OnCourse /\ This \in X
  BY AtHere, StepType
<1>2. device[This] \in [command : Commands, fb1 : Feedbacks, fb2 : Feedbacks]
  BY <1>1 DEF Shapes
<1>3. Reached(brake.step)
  BY <1>1 DEF OnCourse
<1>4. ASSUME brake.step \in {1, 2} PROVE Clean(This, 0)
  <2>1. Cleared
    BY <1>1, <1>4 DEF OnCourse
  <2>2. device[This].command = "ZERO" /\ sent[This] = [OPEN |-> 0, EXECUTE |-> 0]
    BY <1>3, <1>4, CommandTable, SentTable DEF Reached
  <2> QED
    BY <1>2, <2>1, <2>2 DEF Cleared, Clean, AtRest
<1>5. ASSUME brake.step = 14 PROVE Clean(This, 1) /\ mode[This] = 8
  <2>1. Cleared
    BY <1>1, <1>5 DEF OnCourse
  <2>2. device[This].command = "ZERO" /\ sent[This] = [OPEN |-> 1, EXECUTE |-> 1]
    BY <1>3, <1>5, CommandTable, SentTable DEF Reached
  <2>3. mode[This] = 8
    BY <1>1, <1>5 DEF OnCourse, ModesAt
  <2> QED
    BY <1>2, <2>1, <2>2, <2>3 DEF Cleared, Clean, AtRest
<1> QED
  BY <1>4, <1>5

LEMMA NextSlaveCourse ==
  ASSUME Inv, Shapes, Course, Releasing, brake.slave < LastSlave,
         brake.slave # 0 => brake.step = DONE /\ job.state = "IDLE",
         job.state # "RUNNING", job'.state = "IDLE",
         brake' = StartSlave(brake.slave + 1),
         UNCHANGED <<ecat, drive, mode, worker, device, sent>>
  PROVE  Shapes' /\ Course'
<1>1. /\ brake'.step = 1 /\ brake'.slave = brake.slave + 1 /\ brake'.retry = 0
      /\ brake'.first = "NONE" /\ brake'.waited = 0
  BY DEF StartSlave, NoBrake
<1>2. worker.pc = "idle"
  BY IdleWorker
<1>3. brake.slave \in Nat /\ brake.slave + 1 \in Slaves
  BY BrakeAssumption DEF BrakeAssumption, Inv, Typed, Brakes, Slaves
<1>4. Axis' = Axis /\ Releasing' /\ Axis \in {1, 2}
      /\ drive' \notin {"CW06_ROLLBACK_ZERO", "CW06_WAIT_DELAY"}
  BY AxisType DEF Axis, Releasing, ecat, Axes
<1>5. Shapes'
  <2>1. "NONE" \in Feedbacks /\ 0 \in 0..WaitCycles
    BY BrakeAssumption DEF BrakeAssumption, Feedbacks
  <2> QED
    BY <1>1, <1>2, <2>1 DEF Shapes
<1>6. AheadAtRest'
  <2> SUFFICES ASSUME NEW x \in X, Ahead(x)' PROVE Clean(x, 0)' /\ (mode[x] # 11)'
    BY DEF AheadAtRest
  <2>1. Ahead(x)
    BY <1>1, <1>3, <1>4 DEF Ahead, X, Slaves
  <2>2. Clean(x, 0) /\ mode[x] # 11
    BY <2>1 DEF Course, AheadAtRest
  <2> QED
    BY <2>2 DEF Clean, AtRest
<1>7. BehindAtRest'
  <2> SUFFICES ASSUME NEW x \in X, Behind(x)' PROVE Clean(x, 1)' /\ (mode[x] = 8)'
    BY DEF BehindAtRest
  <2>1. Behind(x) \/ (brake.slave # 0 /\ x = This)
    <3>1. x[1] \in Nat /\ x[2] \in {1, 2}
      BY DEF X, Slaves, Axes
    <3>2. x[2] < Axis \/ (x[2] = Axis /\ x[1] < brake.slave + 1)
      BY <1>1, <1>4 DEF Behind
    <3>3. ~Ahead(x)
      BY <1>3, <1>4, <3>1, <3>2 DEF Ahead
    <3> QED
      BY <3>3, Positions
  <2>2. CASE Behind(x)
    <3>1. Clean(x, 1) /\ mode[x] = 8
      BY <2>2 DEF Course, BehindAtRest
    <3> QED
      BY <3>1 DEF Clean, AtRest
  <2>3. CASE brake.slave # 0 /\ x = This
    <3>1. Clean(x, 1) /\ mode[x] = 8
      BY <2>3, RestHere DEF Undone
    <3> QED
      BY <3>1 DEF Clean, AtRest
  <2> QED
    BY <2>1, <2>2, <2>3
<1>8. OnCourse'
  <2> DEFINE y == <<brake.slave + 1, Axis>>
  <2>1. y \in X /\ Ahead(y)
    BY <1>3, <1>4, AxisType DEF X, Ahead
  <2>2. Clean(y, 0) /\ mode[y] # 11 /\ mode[y] \in {0, 8, 11}
    BY <2>1 DEF Course, AheadAtRest, Shapes
  <2>3. This' = y
    BY <1>1, <1>4 DEF This
  <2>4. ~Asking' /\ ~Confirmed'
    BY <1>2 DEF Asking, Confirmed
  <2>5. Cleared'
    BY <2>2, <2>3 DEF Cleared, Clean, AtRest
  <2>6. Reached(brake.step)'
    BY <1>1, <2>2, <2>3, CommandTable, SentTable DEF Reached, Clean, AtRest, CommandAt, SentAt
  <2>7. mode'[This'] \in {0, 8} /\ ModesAt(brake.step)' = {0, 8}
    BY <1>1, <2>2, <2>3 DEF ModesAt
  <2> QED
    BY <1>1, <2>4, <2>5, <2>6, <2>7 DEF OnCourse
<1>9. HereOnCourse' /\ EndedFree' /\ RollbackIsClean' /\ DoneIsClean'
  BY <1>4, <1>8 DEF HereOnCourse, EndedFree, RollbackIsClean, DoneIsClean
<1> QED
  BY <1>5, <1>6, <1>7, <1>9 DEF Course

LEMMA IdleStepCourse ==
  ASSUME Inv, Shapes, Course, Releasing, brake.step = IDLE, IdleStep,
         UNCHANGED <<worker, device, sent>>
  PROVE  Shapes' /\ Course'
<1>1. brake.slave = 0 /\ brake.slave < LastSlave /\ job \in Jobs
  BY BrakeAssumption DEF BrakeAssumption, Inv, Typed
<1>2. CASE Busy /\ Stay
  BY <1>2, StayCourse DEF Busy, Stay, ecat
<1>3. CASE /\ job.state \in {"IDLE", "DONE"}
           /\ job' = [job EXCEPT !.state = "IDLE"] /\ Advance(StartSlave(1))
  <2>1. brake' = StartSlave(brake.slave + 1) /\ UNCHANGED <<ecat, drive, mode>>
    BY <1>1, <1>3 DEF Advance
  <2>2. job'.state = "IDLE" /\ job.state # "RUNNING"
    BY <1>1, <1>3 DEF Jobs
  <2> QED
    BY <1>1, <2>1, <2>2, NextSlaveCourse
<1> QED
  BY <1>2, <1>3 DEF IdleStep

LEMMA SetModeStepCourse ==
  ASSUME Inv, Shapes, Course, Releasing, brake.step = SET_MODE_11, SetModeStep,
         UNCHANGED <<worker, device, sent>>
  PROVE  Shapes' /\ Course'
<1>1. brake \in Brakes /\ brake.slave # 0
  BY DEF Inv, Typed
<1>2. /\ brake' = [brake EXCEPT !.step = 2, !.retry = 0]
      /\ UNCHANGED <<ecat, drive>> /\ job' = job /\ mode' = [mode EXCEPT ![This] = 11]
  BY DEF SetModeStep
<1>3. /\ brake'.step = 2 /\ brake'.slave = brake.slave /\ brake'.first = brake.first
      /\ brake'.waited = brake.waited
  BY <1>1, <1>2 DEF Brakes
<1>4. job.state = "IDLE" /\ job'.state = "IDLE" /\ worker.pc = "idle"
  BY <1>2, FreeSlot, IdleWorker
<1>5. Cleared /\ Reached(2)
  <2>1. OnCourse /\ Undone
    BY <1>1, <1>4, AtHere DEF Undone
  <2>2. Cleared /\ Reached(1)
    BY <2>1 DEF OnCourse
  <2> QED
    BY <2>2, CommandTable, SentTable DEF Reached
<1>6. brake'.first \in Feedbacks /\ brake'.waited \in 0..WaitCycles
  BY <1>3 DEF Shapes
<1>7. 11 \in ModesAt(brake'.step) /\ 11 \in {0, 8, 11}
  BY <1>3 DEF ModesAt
<1>8. UNCHANGED <<ecat, drive>> /\ mode' = [mode EXCEPT ![This] = 11]
  BY <1>2
<1>9. /\ brake'.step \in {1, 2, 3, 4, 5, 6, 7, 8, 9, 10, 11, 12, 13, 14}
      /\ brake'.slave = brake.slave /\ brake'.step # 11 /\ Reached(brake'.step)
  BY <1>3, <1>5
<1> QED
  BY <1>1, <1>4, <1>5, <1>6, <1>7, <1>8, <1>9, AdvanceCourse

LEMMA WaitStepCourse ==
  ASSUME Inv, Shapes, Course, Releasing, brake.step \in {WAIT_OPEN_10_MS, WAIT_10_MS},
         WaitStep(brake.step + 1), UNCHANGED <<worker, device, sent>>
  PROVE  Shapes' /\ Course'
<1>1. brake \in Brakes /\ brake.slave # 0 /\ brake.step \in {4, 9}
  BY DEF Inv, Typed
<1>2. UNCHANGED <<ecat, drive, mode>> /\ job' = job
  BY DEF WaitStep, Advance
<1>3. /\ brake'.step \in {brake.step, brake.step + 1} /\ brake'.slave = brake.slave
      /\ brake'.first = brake.first /\ brake'.waited \in 0..WaitCycles
  <2>1. brake.waited \in 0..WaitCycles /\ WaitCycles \in Nat
    BY BrakeAssumption DEF BrakeAssumption, Shapes
  <2>2. CASE brake.waited < WaitCycles /\ brake' = [brake EXCEPT !.waited = brake.waited + 1]
    BY <1>1, <2>1, <2>2 DEF Brakes
  <2>3. CASE brake' = [brake EXCEPT !.step = brake.step + 1]
    BY <1>1, <2>1, <2>3 DEF Brakes
  <2> QED
    BY <2>2, <2>3 DEF WaitStep, Advance
<1>4. job.state = "IDLE" /\ job'.state = "IDLE" /\ worker.pc = "idle"
  BY <1>2, FreeSlot, IdleWorker
<1>5. Reached(brake'.step)
  <2>1. OnCourse /\ Undone
    BY <1>1, <1>4, AtHere DEF Undone
  <2>2. Reached(brake.step)
    BY <2>1 DEF OnCourse
  <2> QED
    BY <1>1, <1>3, <2>2, CommandTable, SentTable DEF Reached
<1>6. brake'.first \in Feedbacks
  BY <1>3 DEF Shapes
<1>7. brake'.step \in {4, 5, 9, 10}
  BY <1>1, <1>3
<1>8. mode' = [mode EXCEPT ![This] = 11] /\ 11 \in {0, 8, 11}
  BY <1>1, <1>2, StayingMode
<1>9. 11 \in ModesAt(brake'.step)
  BY <1>7 DEF ModesAt
<1>10. /\ brake'.step \in {1, 2, 3, 4, 5, 6, 7, 8, 9, 10, 11, 12, 13, 14}
       /\ ~(brake'.step <= 2 \/ brake'.step > 11) /\ brake'.step # 11
  BY <1>7
<1> QED
  BY <1>1, <1>2, <1>3, <1>4, <1>5, <1>6, <1>8, <1>9, <1>10, AdvanceCourse

LEMMA RelatchStepCourse ==
  ASSUME Inv, Shapes, Course, Releasing, brake.step = RELATCH_TARGET_AND_SET_MODE_8,
         RelatchStep, UNCHANGED <<worker, device, sent>>
  PROVE  Shapes' /\ Course'
<1>1. brake \in Brakes /\ brake.slave # 0
  BY DEF Inv, Typed
<1>2. /\ brake' = [brake EXCEPT !.step = 14]
      /\ UNCHANGED <<ecat, drive>> /\ job' = job /\ mode' = [mode EXCEPT ![This] = 8]
  BY DEF RelatchStep
<1>3. /\ brake'.step = 14 /\ brake'.slave = brake.slave /\ brake'.first = brake.first
      /\ brake'.waited = brake.waited
  BY <1>1, <1>2 DEF Brakes
<1>4. job.state = "IDLE" /\ job'.state = "IDLE" /\ worker.pc = "idle"
  BY <1>2, FreeSlot, IdleWorker
<1>5. Cleared /\ Reached(14)
  <2>1. OnCourse /\ Undone
    BY <1>1, <1>4, AtHere DEF Undone
  <2>2. Cleared /\ Reached(13)
    BY <2>1 DEF OnCourse
  <2> QED
    BY <2>2, CommandTable, SentTable DEF Reached
<1>6. brake'.first \in Feedbacks /\ brake'.waited \in 0..WaitCycles
  BY <1>3 DEF Shapes
<1>7. 8 \in ModesAt(brake'.step) /\ 8 \in {0, 8, 11}
  BY <1>3 DEF ModesAt
<1>8. UNCHANGED <<ecat, drive>> /\ mode' = [mode EXCEPT ![This] = 8]
  BY <1>2
<1>9. /\ brake'.step \in {1, 2, 3, 4, 5, 6, 7, 8, 9, 10, 11, 12, 13, 14}
      /\ brake'.slave = brake.slave /\ brake'.step # 11 /\ Reached(brake'.step)
  BY <1>3, <1>5
<1> QED
  BY <1>1, <1>4, <1>5, <1>6, <1>7, <1>8, <1>9, AdvanceCourse

(* The last slave's axis is done: all axes of that number are behind.      *)
LEMMA DoneStepCourse ==
  ASSUME Inv, Shapes, Course, Releasing, brake.step = DONE, DoneStep,
         UNCHANGED <<worker, device, sent>>
  PROVE  Shapes' /\ Course'
<1>1. job.state = "IDLE" /\ job' = job /\ brake.slave # 0 /\ worker.pc = "idle"
  <2>1. job.state = "IDLE" /\ job' = job
    BY FreeSlot DEF DoneStep
  <2>2. brake.slave # 0
    BY DEF Inv, Typed
  <2> QED
    BY <2>1, <2>2, IdleWorker
<1>2. CASE brake.slave < LastSlave /\ Advance(StartSlave(brake.slave + 1))
  <2>1. brake' = StartSlave(brake.slave + 1) /\ UNCHANGED <<ecat, drive, mode>>
    BY <1>2 DEF Advance
  <2> QED
    BY <1>1, <1>2, <2>1, NextSlaveCourse
<1>3. CASE /\ brake.slave = LastSlave
           /\ brake' = NoBrake /\ UNCHANGED <<ecat, mode>>
           /\ drive' = IF Axis = 1 THEN "AXIS2_BRAKE_RELEASE" ELSE "CW06_WAIT_DELAY"
  <2>1. brake'.slave = 0 /\ brake'.first = "NONE" /\ brake'.waited = 0
    BY <1>3 DEF NoBrake
  <2>2. Shapes'
    <3>1. "NONE" \in Feedbacks /\ 0 \in 0..WaitCycles
      BY BrakeAssumption DEF BrakeAssumption, Feedbacks
    <3>2. UNCHANGED <<mode, device, worker, job>>
      BY <1>1, <1>3
    <3> QED
      BY <1>1, <2>1, <3>1, <3>2 DEF Shapes
  <2>3. \A x \in X : x[2] = Axis \/ x[2] < Axis => Clean(x, 1) /\ mode[x] = 8
    <3> SUFFICES ASSUME NEW x \in X, x[2] = Axis \/ x[2] < Axis
                 PROVE  Clean(x, 1) /\ mode[x] = 8
      OBVIOUS
    <3>1. x[1] \in 1..LastSlave /\ x[2] \in {1, 2} /\ Axis \in {1, 2} /\ LastSlave \in Nat
      BY AxisType, BrakeAssumption DEF BrakeAssumption, X, Slaves, Axes
    <3>2. ~Ahead(x)
      BY <1>3, <3>1 DEF Ahead
    <3>3. Behind(x) \/ x = This
      BY <3>2, Positions
    <3>4. CASE Behind(x)
      BY <3>4 DEF Course, BehindAtRest
    <3>5. CASE x = This
      BY <1>1, <3>5, RestHere DEF Undone
    <3> QED
      BY <3>3, <3>4, <3>5
  <2>4. \A x \in X : x[2] \in {1, 2}
    BY DEF X, Axes
  <2>5. UNCHANGED <<op, device, sent, mode>>
    BY <1>3 DEF ecat
  <2>6. CASE drive = "AXIS1_BRAKE_RELEASE"
    <3>1. Axis = 1 /\ drive' = "AXIS2_BRAKE_RELEASE" /\ Axis' = 2
      BY <1>3, <2>6 DEF Axis
    <3>2. \A x \in X : Ahead(x)' => Ahead(x)
      BY <2>4, <3>1 DEF Ahead
    <3>3. \A x \in X : Behind(x)' => x[2] = Axis
      <4> SUFFICES ASSUME NEW x \in X, Behind(x)' PROVE x[2] = Axis
        OBVIOUS
      <4>1. x[2] < 2 \/ x[1] < 0
        BY <2>1, <3>1 DEF Behind
      <4>2. x[1] \in Nat
        BY DEF X, Slaves
      <4> QED
        BY <2>4, <3>1, <4>1, <4>2
    <3>4. AheadAtRest'
      BY <2>5, <3>2 DEF Course, AheadAtRest, Clean, AtRest
    <3>5. BehindAtRest'
      BY <2>3, <2>5, <3>3 DEF BehindAtRest, Clean, AtRest
    <3>6. HereOnCourse' /\ EndedFree' /\ RollbackIsClean' /\ DoneIsClean'
      BY <2>1, <3>1 DEF HereOnCourse, EndedFree, RollbackIsClean, DoneIsClean
    <3> QED
      BY <2>2, <3>4, <3>5, <3>6 DEF Course
  <2>7. CASE drive # "AXIS1_BRAKE_RELEASE"
    <3>1. Axis = 2 /\ drive' = "CW06_WAIT_DELAY"
      BY <1>3, <2>7 DEF Axis
    <3>2. ~Releasing'
      BY <3>1 DEF Releasing
    <3>3. \A x \in X : Clean(x, 1) /\ mode[x] = 8
      BY <2>3, <2>4, <3>1
    <3>4. DoneIsClean'
      BY <2>5, <3>3 DEF DoneIsClean, Clean, AtRest, X
    <3>5. AheadAtRest' /\ BehindAtRest' /\ HereOnCourse' /\ EndedFree' /\ RollbackIsClean'
      BY <1>1, <3>1, <3>2 DEF AheadAtRest, BehindAtRest, HereOnCourse, EndedFree, RollbackIsClean
    <3> QED
      BY <2>2, <3>4, <3>5 DEF Course
  <2> QED
    BY <2>6, <2>7
<1>4. CASE job.state # "IDLE" /\ Stay
  BY <1>1, <1>4
<1> QED
  BY <1>2, <1>3, <1>4 DEF DoneStep

LEMMA HandleBrakeStepCourse ==
  ASSUME Inv, Shapes, Course, Releasing, HandleBrakeStep, UNCHANGED <<worker, device, sent>>
  PROVE  Shapes' /\ Course'
<1>1. ASSUME NEW data, WriteOf(data), WriteStep(data, brake.step + 1)
      PROVE  Shapes' /\ Course'
  BY <1>1, WriteStepCourse
<1>2. ASSUME NEW expected, Polled, brake.step = WAIT_FEEDBACK_CLEAR => expected = "NONE",
             ReadStep(expected, brake.step + 1)
      PROVE  Shapes' /\ Course'
  BY <1>2, ReadStepCourse
<1>3. CASE brake.step = IDLE /\ IdleStep
  BY <1>3, IdleStepCourse
<1>4. CASE brake.step = SET_MODE_11 /\ SetModeStep
  BY <1>4, SetModeStepCourse
<1>5. CASE brake.step = WRITE_OPEN_COMMAND /\ WriteStep("OPEN", WAIT_OPEN_FEEDBACK)
  BY <1>1, <1>5 DEF WriteOf
<1>6. CASE brake.step = WAIT_OPEN_FEEDBACK /\ ReadStep("OPENED", WAIT_OPEN_10_MS)
  BY <1>2, <1>6 DEF Polled
<1>7. CASE brake.step = WAIT_OPEN_10_MS /\ WaitStep(WRITE_OPEN_CLEAR_COMMAND)
  BY <1>7, WaitStepCourse
<1>8. CASE brake.step = WRITE_OPEN_CLEAR_COMMAND /\ WriteStep("CLEAR", WAIT_OPEN_FEEDBACK_CLEAR)
  BY <1>1, <1>8 DEF WriteOf
<1>9. CASE brake.step = WAIT_OPEN_FEEDBACK_CLEAR /\ ReadStep("NONE", WRITE_EXECUTE_COMMAND)
  BY <1>2, <1>9 DEF Polled
<1>10. CASE brake.step = WRITE_EXECUTE_COMMAND /\ WriteStep("EXECUTE", WAIT_EXECUTE_FEEDBACK)
  BY <1>1, <1>10 DEF WriteOf
<1>11. CASE brake.step = WAIT_EXECUTE_FEEDBACK /\ ReadStep("EXECUTED", WAIT_10_MS)
  BY <1>2, <1>11 DEF Polled
<1>12. CASE brake.step = WAIT_10_MS /\ WaitStep(WRITE_CLEAR_COMMAND)
  BY <1>12, WaitStepCourse
<1>13. CASE brake.step = WRITE_CLEAR_COMMAND /\ WriteStep("CLEAR", WAIT_FEEDBACK_CLEAR)
  BY <1>1, <1>13 DEF WriteOf
<1>14. CASE brake.step = WAIT_FEEDBACK_CLEAR /\ ReadStep("NONE", WRITE_COMMAND_ZERO)
  BY <1>2, <1>14 DEF Polled
<1>15. CASE brake.step = WRITE_COMMAND_ZERO /\ WriteStep("ZERO", RELATCH_TARGET_AND_SET_MODE_8)
  BY <1>1, <1>15 DEF WriteOf
<1>16. CASE brake.step = RELATCH_TARGET_AND_SET_MODE_8 /\ RelatchStep
  BY <1>16, RelatchStepCourse
<1>17. CASE brake.step = DONE /\ DoneStep
  BY <1>17, DoneStepCourse
<1> QED
  BY <1>3, <1>4, <1>5, <1>6, <1>7, <1>8, <1>9, <1>10, <1>11, <1>12, <1>13, <1>14,
     <1>15, <1>16, <1>17 DEF HandleBrakeStep

----------------------------------------------------------------------------
(* A rollback finds the axis at hand before its first command, or after    *)
(* the last one, and restores its mode.                                    *)
LEMMA GiveUpCourse ==
  ASSUME Inv, Shapes, Course, Releasing,
         NEW restore \in BOOLEAN, restore <=> brake.slave # 0, GiveUp(restore),
         UNCHANGED <<worker, device, sent>>
  PROVE  Shapes' /\ Course'
<1>1. CASE EnterError
  BY <1>1, ErrorCourse DEF EnterError
<1>2. CASE /\ ~Committed
           /\ Cancellable(brake.step \in {WRITE_OPEN_COMMAND, WRITE_EXECUTE_COMMAND})
           /\ job' = [job EXCEPT !.state = "IDLE"]
           /\ mode' = IF restore THEN [mode EXCEPT ![This] = 8] ELSE mode
           /\ brake' = NoBrake /\ drive' = "CW06_ROLLBACK_ZERO"
           /\ UNCHANGED ecat
  <2>1. job'.state = "IDLE" /\ brake'.first = "NONE" /\ brake'.waited = 0
    BY <1>2 DEF NoBrake, Inv, Typed, Jobs
  <2>2. worker.pc = "idle"
    BY <1>2, IdleWorker DEF Cancellable
  <2>3. mode \in [X -> {0, 8, 11}]
    BY DEF Shapes
  <2>4. mode' \in [X -> {0, 8, 11}]
    BY <1>2, <2>3
  <2>5. Shapes'
    <3>1. "NONE" \in Feedbacks /\ 0 \in 0..WaitCycles
      BY BrakeAssumption DEF BrakeAssumption, Feedbacks
    <3> QED
      BY <2>1, <2>2, <2>4, <3>1 DEF Shapes
  <2>6. ASSUME NEW x \in X
        PROVE  AtRest(x) /\ sent[x].OPEN = sent[x].EXECUTE /\ mode'[x] # 11
    <3>1. CASE brake.slave # 0 /\ x = This
      <4>1. brake.step \in {1, 2, 14}
        BY <1>2, <3>1, StepType DEF Committed
      <4>2. Undone
        BY <1>2, <2>2, <4>1, FreeSlot DEF Undone, Cancellable, Pending
      <4>3. Clean(x, 0) \/ Clean(x, 1)
        BY <3>1, <4>1, <4>2, RestHere
      <4>4. mode'[x] = 8
        BY <1>2, <2>3, <3>1
      <4> QED
        BY <4>3, <4>4 DEF Clean
    <3>2. CASE ~(brake.slave # 0 /\ x = This)
      <4>1. Ahead(x) \/ Behind(x)
        BY <3>2, Positions
      <4>2. (Clean(x, 0) \/ Clean(x, 1)) /\ mode[x] # 11
        BY <4>1 DEF Course, AheadAtRest, BehindAtRest
      <4>3. mode'[x] = mode[x]
        BY <1>2, <2>3, <3>2
      <4> QED
        BY <4>2, <4>3 DEF Clean
    <3> QED
      BY <3>1, <3>2
  <2>7. RollbackIsClean'
    BY <2>6 DEF RollbackIsClean, AtRest, X
  <2>8. AheadAtRest' /\ BehindAtRest' /\ HereOnCourse' /\ EndedFree' /\ DoneIsClean'
    BY <1>2, <2>1 DEF AheadAtRest, BehindAtRest, HereOnCourse, EndedFree, DoneIsClean, Releasing
  <2> QED
    BY <2>5, <2>7, <2>8 DEF Course
<1> QED
  BY <1>1, <1>2 DEF GiveUp

LEMMA TaskCourse == ASSUME Inv, Shapes, Course, Task PROVE Shapes' /\ Course'
<1>1. CASE GoodExchange
  BY <1>1, HandleBrakeStepCourse DEF GoodExchange
<1>2. brake \in Brakes /\ (brake.step = 0 <=> brake.slave = 0)
  BY DEF Inv, Typed
<1>3. CASE AxisNotDisabled
  <2>1. (brake.step >= 1) \in BOOLEAN /\ (brake.step >= 1 <=> brake.slave # 0)
    BY <1>2 DEF Brakes
  <2> QED
    BY <1>3, <2>1, GiveUpCourse DEF AxisNotDisabled
<1>4. CASE BadExchange
  <2>1. CASE Stay /\ UNCHANGED job
    BY <1>4, <2>1, StayCourse DEF BadExchange, Stay, ecat
  <2>2. CASE GiveUp(brake.slave > 0)
    <3>1. (brake.slave > 0) \in BOOLEAN /\ (brake.slave > 0 <=> brake.slave # 0)
      BY <1>2 DEF Brakes
    <3> QED
      BY <1>4, <2>2, <3>1, GiveUpCourse DEF BadExchange
  <2> QED
    BY <1>4, <2>1, <2>2 DEF BadExchange
<1>5. CASE KeepClosing
  BY <1>5, ErrorCourse DEF KeepClosing
<1> QED
  BY <1>1, <1>3, <1>4, <1>5 DEF Task

(* A drive shows what it was commanded; an axis at rest shows nothing new. *)
LEMMA FeedbackCourse ==
  ASSUME Inv, Shapes, Course, NEW x \in X, Feedback(x)
  PROVE  Shapes' /\ Course'
<1> DEFINE shown == Shown(device[x].command)
<1>1. /\ device[x].command # "ZERO" /\ (device[x].fb1 # shown \/ device[x].fb2 # shown)
      /\ \/ device' = [device EXCEPT ![x].fb1 = shown]
         \/ device' = [device EXCEPT ![x].fb2 = shown]
      /\ UNCHANGED <<op, drive, brake, mode, job, worker, sent>>
  BY DEF Feedback, ecat
<1>2. device \in [X -> [command : Commands, fb1 : Feedbacks, fb2 : Feedbacks]]
  BY DEF Shapes
<1>3. shown \in Feedbacks /\ (device[x].command \in {"CLEAR", "ZERO"} => shown = "NONE")
  BY DEF Shown, Feedbacks
<1> HIDE DEF shown
<1>4. /\ device' \in [X -> [command : Commands, fb1 : Feedbacks, fb2 : Feedbacks]]
      /\ device'[x].command = device[x].command
      /\ device'[x].fb1 \in {device[x].fb1, shown} /\ device'[x].fb2 \in {device[x].fb2, shown}
      /\ \A y \in X : y # x => device'[y] = device[y]
  BY <1>1, <1>2, <1>3
<1>5. Shapes'
  BY <1>1, <1>4 DEF Shapes, Asking
<1>6. ~AtRest(x)
  BY <1>1 DEF AtRest
<1>7. CASE ~Releasing
  <2>1. drive' \notin {"CW06_ROLLBACK_ZERO", "CW06_WAIT_DELAY"}
    BY <1>1, <1>6 DEF Course, RollbackIsClean, DoneIsClean, X
  <2>2. ~Releasing'
    BY <1>1, <1>7 DEF Releasing
  <2> QED
    BY <1>5, <2>1, <2>2, AsideKeeps
<1>8. CASE Releasing
  <2>1. ~Ahead(x) /\ ~Behind(x)
    BY <1>6, <1>8 DEF Course, AheadAtRest, BehindAtRest, Clean
  <2>2. brake.slave # 0 /\ x = This
    BY <1>8, <2>1, Positions
  <2>3. OnCourse
    BY <1>8, <2>2, AtHere
  <2>4. UNCHANGED <<This, Undone, Asking, Confirmed, Reply>>
    BY <1>1 DEF This, Axis, Undone, Asking, Confirmed, Reply
  <2>5. \A s : Reached(s)' = Reached(s)
    BY <1>1, <1>4, <2>2, <2>4 DEF Reached, CommandAt, SentAt
  <2>6. ~(brake.step <= 2 /\ Undone)
    <3>1. brake.step \in {1, 2} => CommandAt(brake.step) = "ZERO"
      BY CommandTable
    <3> QED
      BY <1>1, <1>8, <2>2, <2>3, <3>1, StepType DEF OnCourse, Reached
  <2>7. brake.step >= 11 => shown = "NONE" /\ device'[This].command \in {"CLEAR", "ZERO"}
    BY <1>3, <1>4, <2>2, <2>3 DEF OnCourse
  <2>8. brake.step > 11 => Cleared'
    <3>1. SUFFICES ASSUME brake.step > 11 PROVE Cleared'
      OBVIOUS
    <3>2. brake.step >= 11
      BY <1>8, <2>2, <3>1, StepType
    <3>3. Cleared
      BY <2>3, <3>1 DEF OnCourse
    <3>4. device'[This].fb1 = "NONE" /\ device'[This].fb2 = "NONE"
      BY <1>4, <2>2, <2>7, <3>2, <3>3 DEF Cleared
    <3> QED
      BY <2>4, <3>4 DEF Cleared
  <2>9. brake.step = 11 /\ brake.retry = 1 /\ brake.first = "NONE" => device'[This].fb1 = "NONE"
    BY <1>4, <2>2, <2>3, <2>7 DEF OnCourse
  <2>10. brake.step = 11 /\ Confirmed /\ Reply = "NONE" => device'[This][job.index[2]] = "NONE"
    <3>1. SUFFICES ASSUME brake.step = 11, Confirmed, Reply = "NONE"
                   PROVE  device'[This][job.index[2]] = "NONE"
      OBVIOUS
    <3>2. device[This][job.index[2]] = "NONE"
      BY <2>3, <3>1 DEF OnCourse
    <3>3. job.index[2] \in {"fb1", "fb2"}
      <4>1. job.state # "IDLE"
        BY <3>1 DEF Confirmed, Inv, Slot
      <4> QED
        BY <3>1, <4>1 DEF Inv, AskedFor
    <3>4. CASE job.index[2] = "fb1"
      BY <1>4, <2>2, <2>7, <3>1, <3>2, <3>4
    <3>5. CASE job.index[2] = "fb2"
      BY <1>4, <2>2, <2>7, <3>1, <3>2, <3>5
    <3> QED
      BY <3>3, <3>4, <3>5
  <2>11. UNCHANGED <<brake, job, mode>> /\ ModesAt(brake.step)' = ModesAt(brake.step)
    BY <1>1 DEF ModesAt
  <2>12. OnCourse'
    BY <2>3, <2>4, <2>5, <2>6, <2>7, <2>8, <2>9, <2>10, <2>11 DEF OnCourse
  <2> QED
    BY <1>1, <1>4, <1>5, <1>8, <2>2, <2>12, HereKeeps
<1> QED
  BY <1>7, <1>8

(* The worker, when the sequence has ended under it.                       *)
LEMMA WorkerAside ==
  ASSUME Course, ~Releasing, UNCHANGED <<op, drive>>, job.state # "IDLE"
  PROVE  Course'
<1>1. ~Releasing'
  BY DEF Releasing
<1>2. drive' \notin {"CW06_ROLLBACK_ZERO", "CW06_WAIT_DELAY"}
  BY DEF Course, EndedFree
<1> QED
  BY <1>1, <1>2, AsideKeeps

LEMMA ClaimCourse == ASSUME Inv, Shapes, Course, Claim PROVE Shapes' /\ Course'
<1>1. /\ job.state \in Pending /\ job.state # "IDLE"
      /\ job' = [job EXCEPT !.state = "RUNNING"] /\ worker'.pc = "transfer"
      /\ UNCHANGED <<op, drive, brake, mode, device, sent>>
  BY DEF Claim, ecat, Pending
<1>2. job'.state = "RUNNING"
  BY <1>1 DEF Inv, Typed, Jobs
<1>3. Shapes'
  BY <1>1, <1>2 DEF Shapes
<1>4. CASE ~Releasing
  BY <1>1, <1>3, <1>4, WorkerAside
<1>5. CASE Releasing
  <2>1. brake.slave # 0
    BY <1>1 DEF Inv, AskedFor
  <2>2. OnCourse /\ Undone
    BY <1>1, <1>5, <2>1, AtHere DEF Undone
  <2>3. ~Confirmed'
    BY <1>1, <1>2 DEF Confirmed
  <2>4. This' = This
    BY <1>1 DEF This, Axis
  <2>5. Reached(brake.step)' = Reached(brake.step) /\ Cleared' = Cleared
        /\ ModesAt(brake.step)' = ModesAt(brake.step)
    BY <1>1, <2>4 DEF Reached, Cleared, CommandAt, SentAt, ModesAt
  <2>6. OnCourse'
    BY <1>1, <2>2, <2>3, <2>4, <2>5 DEF OnCourse
  <2> QED
    BY <1>1, <1>3, <1>5, <2>1, <2>6, HereKeeps
<1> QED
  BY <1>4, <1>5

(* The answer in the slot is the worker's.                                 *)
LEMMA PublishCourse == ASSUME Inv, Shapes, Course, Publish PROVE Shapes' /\ Course'
<1>1. /\ worker.pc = "publish" /\ worker'.pc = "idle"
      /\ job' = [job EXCEPT !.state = "DONE", !.ok = worker.ok,
                   !.data = IF worker.write THEN job.data ELSE worker.data]
      /\ UNCHANGED <<op, drive, brake, mode, device, sent>>
  BY DEF Publish, ecat, NoWork
<1>2. job \in Jobs /\ worker \in Workers /\ worker.write \in BOOLEAN /\ worker.ok \in BOOLEAN
  BY DEF Inv, Typed, Workers
<1>3. /\ job'.state = "DONE" /\ job'.index = job.index /\ job'.ok = worker.ok
      /\ ~worker.write => job'.data = worker.data
  BY <1>1, <1>2 DEF Jobs
<1>4. /\ job.state = "RUNNING" /\ (worker.write <=> job.index[2] = "command")
  BY <1>1 DEF Inv, Slot, Copied
<1>5. Asking' = Asking /\ (~Asking => ~worker.write)
  BY <1>3, <1>4 DEF Asking
<1>6. Shapes'
  <2>1. job'.state = "DONE" /\ job'.ok /\ ~Asking' => job'.data \in Feedbacks
    BY <1>1, <1>3, <1>5 DEF Shapes
  <2> QED
    BY <1>1, <2>1 DEF Shapes
<1>7. CASE ~Releasing
  BY <1>1, <1>4, <1>6, <1>7, WorkerAside
<1>8. CASE Releasing
  <2>1. brake.slave # 0 /\ (~Asking => Polled)
    BY <1>4 DEF Inv, AskedFor, Asking
  <2>2. OnCourse
    BY <1>8, <2>1, AtHere
  <2>3. Undone' => ~Asking'
    BY <1>1, <1>3 DEF Undone, Pending
  <2>4. ~Asking => Undone
    BY DEF Undone
  <2>5. Confirmed' => Confirmed
    BY <1>1, <1>3 DEF Confirmed
  <2>6. ~Asking => Reply' = Reply
    BY <1>3, <1>4, <1>5 DEF Reply
  <2>7. brake.step = 11 => ~Asking
    BY <1>4 DEF Asking, Inv, AskedFor
  <2>8. This' = This
    BY <1>1 DEF This, Axis
  <2>9. /\ Reached(brake.step)' = Reached(brake.step)
        /\ Reached(brake.step + 1)' = Reached(brake.step + 1)
        /\ Cleared' = Cleared /\ ModesAt(brake.step)' = ModesAt(brake.step)
    BY <1>1, <2>8 DEF Reached, Cleared, CommandAt, SentAt, ModesAt
  <2>10. OnCourse'
    BY <1>1, <1>3, <1>5, <2>2, <2>3, <2>4, <2>5, <2>6, <2>7, <2>8, <2>9 DEF OnCourse
  <2> QED
    BY <1>1, <1>6, <1>8, <2>1, <2>10, HereKeeps
<1> QED
  BY <1>7, <1>8

(* A read shows the feedback as it is; a write that succeeds takes the     *)
(* axis to where the next step expects it.                                 *)
LEMMA TransferCourse == ASSUME Inv, Shapes, Course, Transfer PROVE Shapes' /\ Course'
<1>1. /\ worker.pc = "transfer" /\ (Write \/ Read)
      /\ UNCHANGED <<op, drive, brake, mode, job>>
  BY DEF Transfer, ecat
<1>2. worker \in Workers /\ job \in Jobs /\ job.state = "RUNNING" /\ brake \in Brakes
  BY <1>1 DEF Inv, Typed, Slot
<1>3. /\ worker.slave = job.slave /\ worker.index = job.index
      /\ worker.write => worker.data = job.data
      /\ worker.write <=> job.index[2] = "command"
  BY <1>1 DEF Inv, Copied
<1>4. /\ job.slave = brake.slave /\ brake.slave # 0
      /\ job.index \in Axes \X Objects /\ job.index[1] = Axis
  BY <1>2 DEF Inv, AskedFor
<1>5. Target = This /\ This \in X /\ This' = This
  <2>1. brake.slave \in Slaves
    BY <1>2, <1>4, BrakeAssumption DEF BrakeAssumption, Brakes, Slaves
  <2> QED
    BY <1>1, <1>3, <1>4, <2>1, AxisType DEF Target, This, X, Axis
<1>6. device \in [X -> [command : Commands, fb1 : Feedbacks, fb2 : Feedbacks]]
  BY DEF Shapes
<1>7. Asking' = Asking /\ (Asking <=> worker.write) /\ Undone
  BY <1>1, <1>2, <1>3 DEF Asking, Undone
<1>8. ModesAt(brake.step)' = ModesAt(brake.step)
  BY <1>1 DEF ModesAt
<1>9. CASE Read
  <2>1. ~worker.write /\ UNCHANGED <<device, sent>>
    BY <1>9 DEF Read
  <2>2. job.index[2] \in {"fb1", "fb2"} /\ Polled
    BY <1>2, <1>3, <2>1 DEF Inv, AskedFor
  <2>3. device[This][job.index[2]] \in Feedbacks /\ Feedbacks \subseteq Values
    BY <1>5, <1>6, <2>2 DEF Values
  <2>4. PICK done \in BOOLEAN :
          worker' = [worker EXCEPT !.pc = "publish", !.ok = done,
                       !.data = IF done THEN device[Target][worker.index[2]] ELSE worker.data]
    BY <1>9 DEF Read
  <2>5. /\ worker'.pc = "publish" /\ worker'.ok = done
        /\ done => worker'.data = device[This][job.index[2]]
    BY <1>2, <1>3, <1>5, <2>4 DEF Workers
  <2>6. Shapes'
    BY <1>1, <1>2, <2>1, <2>3, <2>5 DEF Shapes
  <2>7. CASE ~Releasing
    BY <1>1, <1>2, <2>6, <2>7, WorkerAside
  <2>8. CASE Releasing
    <3>1. OnCourse
      BY <1>4, <2>8, AtHere
    <3>2. Confirmed' => done
      BY <1>1, <1>2, <2>5 DEF Confirmed
    <3>3. done => Reply' = device[This][job.index[2]]
      BY <1>1, <1>2, <2>5 DEF Reply
    <3>4. Reached(brake.step)' = Reached(brake.step) /\ Cleared' = Cleared
      BY <1>1, <1>5, <2>1 DEF Reached, Cleared, CommandAt, SentAt
    <3>5. OnCourse'
      BY <1>1, <1>5, <1>7, <1>8, <2>1, <3>1, <3>2, <3>3, <3>4 DEF OnCourse
    <3> QED
      BY <1>1, <1>4, <2>1, <2>6, <2>8, <3>5, HereKeeps
  <2> QED
    BY <2>7, <2>8
<1>10. CASE Write
  <2>1. worker.write
    BY <1>10 DEF Write
  <2>2. WriteOf(job.data) /\ worker.data = job.data
    BY <1>2, <1>3, <2>1 DEF Inv, AskedFor, WriteOf
  <2>3. worker.data \in Commands
    BY <2>2 DEF WriteOf, Commands
  <2>4. PICK effect \in BOOLEAN, done \in BOOLEAN :
          /\ done => effect
          /\ worker' = [worker EXCEPT !.pc = "publish", !.ok = done]
          /\ IF effect
             THEN /\ device' = [device EXCEPT ![Target].command = worker.data]
                  /\ sent' = IF worker.data \in {"OPEN", "EXECUTE"}
                             THEN [sent EXCEPT ![Target][worker.data] = @ + 1] ELSE sent
             ELSE UNCHANGED <<device, sent>>
    BY <1>10 DEF Write
  <2>5. worker'.pc = "publish" /\ worker'.ok = done /\ worker'.write = worker.write
    BY <1>2, <2>4 DEF Workers
  <2>6. /\ device' \in [X -> [command : Commands, fb1 : Feedbacks, fb2 : Feedbacks]]
        /\ device'[This].fb1 = device[This].fb1 /\ device'[This].fb2 = device[This].fb2
        /\ device'[This].command = (IF effect THEN worker.data ELSE device[This].command)
        /\ \A x \in X : x # This => device'[x] = device[x]
    <3>1. CASE effect
      <4>1. device' = [device EXCEPT ![This].command = worker.data]
        BY <1>5, <2>4, <3>1
      <4> QED
        BY <1>5, <1>6, <2>3, <3>1, <4>1
    <3>2. CASE ~effect
      BY <1>6, <2>4, <3>2
    <3> QED
      BY <3>1, <3>2
  <2>7. sent \in [X -> [OPEN : Nat, EXECUTE : Nat]]
    BY DEF Inv, Typed
  <2>8. /\ effect /\ worker.data = "OPEN" => sent' = [sent EXCEPT ![This].OPEN = @ + 1]
        /\ effect /\ worker.data = "EXECUTE" => sent' = [sent EXCEPT ![This].EXECUTE = @ + 1]
        /\ effect /\ worker.data \notin {"OPEN", "EXECUTE"} => sent' = sent
        /\ ~effect => sent' = sent
    BY <1>5, <2>4, <2>7
  <2>9. \A x \in X : x # This => sent'[x] = sent[x]
    BY <1>5, <2>7, <2>8, <2>3 DEF Commands
  <2>10. Shapes'
    BY <1>1, <1>2, <2>1, <2>5, <2>6 DEF Shapes
  <2>11. CASE ~Releasing
    BY <1>1, <1>2, <2>10, <2>11, WorkerAside
  <2>12. CASE Releasing
    <3>1. OnCourse
      BY <1>4, <2>12, AtHere
    <3>2. Reached(brake.step)
      BY <1>7, <3>1 DEF OnCourse
    <3>3. ~Undone' /\ (Confirmed' => done)
      BY <1>1, <1>2, <1>7, <2>1, <2>5 DEF Undone, Confirmed, Pending
    <3>4. brake.step \in {2, 5, 7, 10, 12} /\ brake.step # 11
      BY <2>2 DEF WriteOf
    <3>5. ASSUME done PROVE Reached(brake.step + 1)'
      <4>1. device'[This].command = CommandAt(brake.step + 1)
        BY <2>2, <2>4, <2>6, <3>5, CommandTable DEF WriteOf
      <4>2. sent'[This] = SentAt(brake.step + 1)
        <5>1. sent[This] = SentAt(brake.step)
          BY <3>2 DEF Reached
        <5>2. CASE worker.data = "OPEN"
          <6>1. brake.step = 2 /\ sent' = [sent EXCEPT ![This].OPEN = @ + 1]
            BY <2>2, <2>4, <2>8, <3>5, <5>2 DEF WriteOf
          <6>2. sent[This] = [OPEN |-> 0, EXECUTE |-> 0]
            BY <5>1, <6>1, SentTable
          <6>3. sent'[This] = [OPEN |-> 1, EXECUTE |-> 0]
            BY <1>5, <2>7, <6>1, <6>2
          <6> QED
            BY <6>1, <6>3, SentTable
        <5>3. CASE worker.data = "EXECUTE"
          <6>1. brake.step = 7 /\ sent' = [sent EXCEPT ![This].EXECUTE = @ + 1]
            BY <2>2, <2>4, <2>8, <3>5, <5>3 DEF WriteOf
          <6>2. sent[This] = [OPEN |-> 1, EXECUTE |-> 0]
            BY <5>1, <6>1, SentTable
          <6>3. sent'[This] = [OPEN |-> 1, EXECUTE |-> 1]
            BY <1>5, <2>7, <6>1, <6>2
          <6> QED
            BY <6>1, <6>3, SentTable
        <5>4. CASE worker.data \notin {"OPEN", "EXECUTE"}
          <6>1. brake.step \in {5, 10, 12} /\ sent' = sent
            BY <2>2, <2>4, <2>8, <3>5, <5>4 DEF WriteOf
          <6>2. SentAt(brake.step + 1) = SentAt(brake.step)
            BY <6>1, SentTable
          <6> QED
            BY <5>1, <6>1, <6>2
        <5> QED
          BY <5>2, <5>3, <5>4
      <4>3. CommandAt(brake.step + 1)' = CommandAt(brake.step + 1)
            /\ SentAt(brake.step + 1)' = SentAt(brake.step + 1)
        BY <1>1 DEF CommandAt, SentAt
      <4> QED
        BY <1>5, <4>1, <4>2, <4>3 DEF Reached
    <3>6. brake.step > 11 => Cleared'
      BY <1>5, <2>6, <3>1 DEF OnCourse, Cleared
    <3>7. brake.step >= 11 => device'[This].command \in {"CLEAR", "ZERO"}
      BY <2>2, <2>6, <3>1 DEF OnCourse, WriteOf
    <3>8. OnCourse'
      BY <1>1, <1>5, <1>8, <3>1, <3>3, <3>4, <3>5, <3>6, <3>7 DEF OnCourse
    <3> QED
      BY <1>1, <1>4, <2>6, <2>9, <2>10, <2>12, <3>8, HereKeeps
  <2> QED
    BY <2>11, <2>12
<1> QED
  BY <1>1, <1>9, <1>10

----------------------------------------------------------------------------
LEMMA InitCourse == Init => Shapes /\ Course /\ BadCounted
<1> SUFFICES ASSUME Init PROVE Shapes /\ Course /\ BadCounted
  OBVIOUS
<1>1. brake = NoBrake /\ job.state = "IDLE" /\ worker.pc = "idle"
      /\ drive = "AXIS1_BRAKE_RELEASE" /\ bad = 0
  BY Empty DEF Init
<1>2. brake.first = "NONE" /\ brake.waited = 0 /\ brake.slave = 0
  BY <1>1 DEF NoBrake
<1>3. "NONE" \in Feedbacks /\ "ZERO" \in Commands /\ 0 \in 0..WaitCycles
      /\ 0 \in 0..RollbackLimit /\ 0 < RollbackLimit
  BY BrakeAssumption DEF BrakeAssumption, Feedbacks, Commands
<1>4. device = [x \in X |-> [command |-> "ZERO", fb1 |-> "NONE", fb2 |-> "NONE"]]
      /\ sent = [x \in X |-> [OPEN |-> 0, EXECUTE |-> 0]]
  BY DEF Init, X
<1>5. mode \in [X -> {0, 8}]
  BY DEF Init, X
<1>6. Shapes
  <2>1. device \in [X -> [command : Commands, fb1 : Feedbacks, fb2 : Feedbacks]]
    BY <1>3, <1>4
  <2>2. mode \in [X -> {0, 8, 11}]
    BY <1>5
  <2> QED
    BY <1>1, <1>2, <1>3, <2>1, <2>2 DEF Shapes
<1>7. AheadAtRest
  BY <1>4, <1>5 DEF AheadAtRest, Clean, AtRest
<1>8. BehindAtRest
  <2>1. \A x \in X : ~Behind(x)
    BY <1>1, <1>2 DEF Behind, X, Slaves, Axes, Axis
  <2> QED
    BY <2>1 DEF BehindAtRest
<1>9. HereOnCourse /\ EndedFree /\ RollbackIsClean /\ DoneIsClean
  BY <1>1, <1>2 DEF HereOnCourse, EndedFree, RollbackIsClean, DoneIsClean
<1> QED
  BY <1>1, <1>3, <1>6, <1>7, <1>8, <1>9 DEF Course, BadCounted

LEMMA NextCourse == Inv /\ Shapes /\ Course /\ [Next]_vars => Shapes' /\ Course'
<1> SUFFICES ASSUME Inv, Shapes, Course, [Next]_vars PROVE Shapes' /\ Course'
  OBVIOUS
<1>1. CASE Task
  BY <1>1, TaskCourse
<1>2. CASE ProcessRuntimeSdoWorker
  BY <1>2, ClaimCourse, TransferCourse, PublishCourse DEF ProcessRuntimeSdoWorker
<1>3. CASE Devices
  BY <1>3, FeedbackCourse DEF Devices, X
<1>4. CASE UNCHANGED vars
  BY <1>4, StayCourse DEF vars
<1> QED
  BY <1>1, <1>2, <1>3, <1>4 DEF Next

(* The release ends before the tolerated bad cycles are exceeded.          *)
LEMMA NextBad == BadCounted /\ [Next]_vars => BadCounted'
<1> SUFFICES ASSUME BadCounted, [Next]_vars PROVE BadCounted'
  OBVIOUS
<1>1. RollbackLimit \in Nat \ {0}
  BY BrakeAssumption DEF BrakeAssumption
<1>2. CASE GoodExchange \/ AxisNotDisabled
  BY <1>1, <1>2 DEF GoodExchange, AxisNotDisabled, BadCounted
<1>3. CASE BadExchange
  <2>1. bad' = bad + 1 /\ bad \in 0..RollbackLimit /\ bad < RollbackLimit
    BY <1>3 DEF BadExchange, BadCounted
  <2>2. CASE bad' < RollbackLimit
    BY <1>1, <2>1, <2>2 DEF BadCounted
  <2>3. CASE GiveUp(brake.slave > 0)
    <3>1. op' = "ERROR" \/ drive' = "CW06_ROLLBACK_ZERO"
      BY <2>3 DEF GiveUp, EnterError
    <3>2. ~Releasing'
      BY <3>1 DEF Releasing
    <3> QED
      BY <1>1, <2>1, <3>2 DEF BadCounted
  <2> QED
    BY <1>3, <2>2, <2>3 DEF BadExchange
<1>4. CASE KeepClosing
  <2>1. op' = op /\ op = "ERROR" /\ bad' = bad
    BY <1>4 DEF KeepClosing
  <2> QED
    BY <2>1 DEF BadCounted, Releasing
<1>5. CASE ProcessRuntimeSdoWorker \/ Devices \/ UNCHANGED vars
  <2>1. UNCHANGED <<op, drive, bad>>
    BY <1>5 DEF ProcessRuntimeSdoWorker, Claim, Transfer, Publish, Devices, Feedback, vars, ecat
  <2> QED
    BY <2>1 DEF BadCounted, Releasing
<1> QED
  BY <1>2, <1>3, <1>4, <1>5 DEF Next, Task

(* The service is stopped once, with the first error.                      *)
LEMMA NextReady == ready \in BOOLEAN /\ [Next]_vars => ready' \in BOOLEAN
<1> SUFFICES ASSUME ready \in BOOLEAN, [Next]_vars PROVE ready' \in BOOLEAN
  OBVIOUS
<1>1. CASE HandleBrakeStep
  <2>1. Stay \/ EnterError \/ UNCHANGED ecat
    BY <1>1 DEF HandleBrakeStep, IdleStep, SetModeStep, WriteStep, ReadStep, WaitStep,
       RelatchStep, DoneStep, Advance
  <2> QED
    BY <2>1 DEF Stay, EnterError, ecat
<1>2. ASSUME NEW restore, GiveUp(restore) PROVE ready' \in BOOLEAN
  BY <1>2 DEF GiveUp, EnterError, ecat
<1>3. CASE Task
  BY <1>1, <1>2, <1>3 DEF Task, GoodExchange, AxisNotDisabled, BadExchange, Stay,
     KeepClosing, ecat
<1>4. CASE ProcessRuntimeSdoWorker \/ Devices \/ UNCHANGED vars
  BY <1>4 DEF ProcessRuntimeSdoWorker, Claim, Transfer, Publish, Devices, Feedback, vars, ecat
<1> QED
  BY <1>3, <1>4 DEF Next

(* What the steps of ECAT_runtime.c rely on, together: an answer is that   *)
(* of the request it is taken for; a rollback, or the end of the sequence, *)
(* leaves no job in the slot, no brake half way and no axis in mode 11;    *)
(* the context outlives the transfer that uses it.                         *)
THEOREM BrakesAreSafe == Spec => []BrakesSafe
<1> DEFINE All == Inv /\ Shapes /\ Course /\ BadCounted /\ ready \in BOOLEAN
<1>1. Init => All
  <2>1. Init => ready \in BOOLEAN
    BY DEF Init
  <2> QED
    BY <2>1, InitInv, InitCourse
<1>2. All /\ [Next]_vars => All'
  BY NextInv, NextCourse, NextBad, NextReady
<1>3. ASSUME Inv, Shapes, Course, BadCounted, ready \in BOOLEAN
      PROVE  TypeOK /\ RollbackIsClean /\ DoneIsClean
  <2>1. brake \in [step : IDLE..DONE, slave : 0..LastSlave, retry : {0, 1},
                   first : Feedbacks, waited : 0..WaitCycles]
    BY <1>3 DEF Inv, Typed, Brakes, Shapes
  <2>2. /\ op \in {"OPERATIONAL", "ERROR"} /\ {closing, open, ready} \subseteq BOOLEAN
        /\ drive \in {"AXIS1_BRAKE_RELEASE", "AXIS2_BRAKE_RELEASE", "CW06_WAIT_DELAY",
                      "CW06_ROLLBACK_ZERO", "CW06_DISABLED"}
    BY <1>3 DEF Inv, Typed
  <2>3. job \in Jobs /\ worker \in Workers
    BY <1>3 DEF Inv, Typed
  <2>4. TypeOK
    BY <1>3, <2>1, <2>2, <2>3 DEF TypeOK, Jobs, Workers, Shapes, BadCounted, X
  <2> QED
    BY <1>3, <2>4 DEF Course
<1>4. Spec => []All
  BY <1>1, <1>2, PTL DEF Spec
<1>5. All /\ JobIsAsked /\ ContextOutlivesTransfer => BrakesSafe
  BY <1>3 DEF BrakesSafe
<1> QED
  BY <1>4, <1>5, JobsAreAsked, TransfersEndFirst, PTL

----------------------------------------------------------------------------
(* The start of the bus.  What the master knows of its slaves in every     *)
(* state of the start: where a call of it may wait, that its counters are  *)
(* below their limits, what it has open, how far the slaves may have come  *)
(* and what may still be asked of them, and which inputs are real.         *)
Waits ==
  pc # "top" =>
    \/ state = "DISCOVER" /\ pc \in {"configure", "mismatch"}
    \/ state = "PREOP" /\ pc = "check"
    \/ state = "SAFEOP" /\ pc \in {"check", "exchange"}
    \/ state = "OP_REQUEST" /\ pc \in {"wait", "fallback"}
Counted ==
  /\ probes \in 0..ProbeCount /\ cycle \in 0..OpWaitCycles
  /\ stable \in 0..OpStableCycles /\ badCycles \in 0..BusFaultLimit
  /\ state \in {"WAIT_LINK", "SOEM_INIT"} => probes = 0
  /\ state = "PROBE" => probes < ProbeCount
  /\ state = "OPERATIONAL" => badCycles < BusFaultLimit
Known ==
  /\ state \in Bus!MasterStates
  /\ pc \in {"top", "configure", "mismatch", "check", "exchange", "wait", "fallback"}
  /\ context \in BOOLEAN /\ mailbox \in BOOLEAN
  /\ seen \in [BusSlaves -> Bus!AlStates \cup {"none"}]
  /\ input \in [BusSlaves -> {"zero", "actual"}]
  /\ output \in [BusSlaves -> {"none", "safe", "safe at zero"}]
  /\ al \in [BusSlaves -> Bus!AlStates] /\ ctl \in [BusSlaves -> Bus!AlStates \cup {"none"}]
  /\ present \subseteq BusSlaves /\ asked \in Bus!AlStates \cup {"none"}
  /\ told \subseteq BusSlaves
Opened ==
  /\ state \notin {"WAIT_LINK", "SOEM_INIT", "ERROR"} => context
  /\ state \in {"SAFEOP", "OP_REQUEST", "OPERATIONAL"} => mailbox
(* A slave that no request has reached yet, and that was found in PRE-OP,  *)
(* can only follow the one request from before, if there was one.          *)
Deaf(s) ==
  s \notin told => al[s] = "PREOP" \/ (ctl[s] = "none" /\ al[s] \in {"INIT", "SAFEOP"})
Preparing ==
  \/ state \in {"WAIT_LINK", "SOEM_INIT", "PROBE", "DISCOVER", "PREOP"}
  \/ Bus!Configuring
InStep ==
  /\ Preparing => \A s \in told : ctl[s] \in {"none", "INIT", "PREOP"}
  /\ Bus!Configuring =>
       \A s \in BusSlaves : (s \in told => al[s] \in {"INIT", "PREOP"}) /\ Deaf(s)
  /\ state = "SAFEOP" =>
       \A s \in BusSlaves : (s \in told => al[s] # "OP" /\ ctl[s] # "OP") /\ Deaf(s)
  /\ state \in {"OP_REQUEST", "OPERATIONAL"} => \A s \in BusSlaves : output[s] # "none"
InputsReal ==
  \/ state = "OP_REQUEST" /\ pc = "wait" /\ stable > 0
  \/ state = "OPERATIONAL" /\ badCycles = 0
SafeAsked ==
  \/ state = "SAFEOP" /\ pc # "top"
  \/ state = "OP_REQUEST" /\ pc = "top"
Followed ==
  /\ Known /\ Waits /\ Opened /\ InStep
  /\ InputsReal => \A s \in BusSlaves : input[s] = "actual"
  /\ SafeAsked => asked = "SAFEOP"
BusInv == Counted /\ Followed

(* The rows of the transition table, one for each event.                   *)
Moves(to) == state' = to /\ pc' = "top" /\ UNCHANGED <<context, mailbox>>

LEMMA TableRows ==
  /\ state = "WAIT_LINK" /\ Bus!Transition("LINK_UP") => Moves("SOEM_INIT")
  /\ state = "PROBE" /\ Bus!Transition("PROBE_OK") => Moves("DISCOVER")
  /\ state = "DISCOVER" /\ Bus!Transition("DISCOVER_OK") => Moves("PREOP")
  /\ state = "PREOP" /\ Bus!Transition("PREOP_OK") => Moves("SDO")
  /\ state = "SDO" /\ Bus!Transition("SDO_DONE") => Moves("PDO_ASSIGN")
  /\ state = "PDO_ASSIGN" /\ Bus!Transition("PDO_ASSIGN_OK") => Moves("MAP")
  /\ state = "SAFEOP" /\ Bus!Transition("SAFEOP_OK") => Moves("OP_REQUEST")
  /\ state = "OP_REQUEST" /\ Bus!Transition("OP_STABLE") => Moves("OPERATIONAL")
<1>1. ASSUME NEW event, NEW to \in Bus!MasterStates,
             \A t \in Bus!MasterStates : <<state, event, t>> \in Bus!Transitions <=> t = to,
             Bus!Transition(event)
      PROVE  Moves(to)
  BY <1>1 DEF Bus!Transition, Moves
<1>2. \A t \in Bus!MasterStates :
        /\ state = "WAIT_LINK" =>
             (<<state, "LINK_UP", t>> \in Bus!Transitions <=> t = "SOEM_INIT")
        /\ state = "PROBE" =>
             (<<state, "PROBE_OK", t>> \in Bus!Transitions <=> t = "DISCOVER")
        /\ state = "DISCOVER" =>
             (<<state, "DISCOVER_OK", t>> \in Bus!Transitions <=> t = "PREOP")
        /\ state = "PREOP" =>
             (<<state, "PREOP_OK", t>> \in Bus!Transitions <=> t = "SDO")
        /\ state = "SDO" =>
             (<<state, "SDO_DONE", t>> \in Bus!Transitions <=> t = "PDO_ASSIGN")
        /\ state = "PDO_ASSIGN" =>
             (<<state, "PDO_ASSIGN_OK", t>> \in Bus!Transitions <=> t = "MAP")
        /\ state = "SAFEOP" =>
             (<<state, "SAFEOP_OK", t>> \in Bus!Transitions <=> t = "OP_REQUEST")
        /\ state = "OP_REQUEST" =>
             (<<state, "OP_STABLE", t>> \in Bus!Transitions <=> t = "OPERATIONAL")
  BY DEF Bus!Transitions
<1>3. {"SOEM_INIT", "DISCOVER", "PREOP", "SDO", "PDO_ASSIGN", "MAP", "OP_REQUEST",
       "OPERATIONAL"} \subseteq Bus!MasterStates
  BY DEF Bus!MasterStates
<1> HIDE DEF Moves
<1> QED
  BY <1>1, <1>2, <1>3

LEMMA BusStarts == Bus!Init => BusInv
<1> SUFFICES ASSUME Bus!Init PROVE BusInv
  OBVIOUS
<1>c. /\ ProbeCount \in Nat \ {0} /\ BusFaultLimit \in Nat \ {0}
      /\ OpStableCycles \in Nat \ {0} /\ OpWaitCycles \in Nat
  BY EtherCATBus DEF Bus!MasterAssumption
<1>1. Known
  <2>1. /\ seen \in [BusSlaves -> Bus!AlStates \cup {"none"}]
        /\ input \in [BusSlaves -> {"zero", "actual"}]
        /\ output \in [BusSlaves -> {"none", "safe", "safe at zero"}]
    BY DEF Bus!Init
  <2> QED
    BY <2>1 DEF Bus!Init, Known, Bus!MasterStates
<1>2. Counted
  BY <1>c DEF Bus!Init, Counted
<1>3. /\ Waits /\ Opened /\ InStep /\ ~InputsReal /\ ~SafeAsked
  BY DEF Bus!Init, Waits, Opened, InStep, InputsReal, SafeAsked, Bus!Configuring, Bus!In
<1> QED
  BY <1>1, <1>2, <1>3 DEF BusInv, Followed

(* What the frames of the master do to what it knows and has asked for.    *)
Told(target) ==
  /\ ctl' \in [BusSlaves -> Bus!AlStates \cup {"none"}] /\ told' \subseteq BusSlaves
  /\ \A s \in BusSlaves :
       \/ ctl'[s] = target /\ s \in told'
       \/ ctl'[s] = ctl[s] /\ (s \in told' <=> s \in told)

LEMMA FramesTyped ==
  ASSUME Known
  PROVE  /\ \A target \in Bus!AlStates : Bus!Broadcast(target) => asked' = target /\ Told(target)
         /\ Bus!ConfigInit => asked' = asked /\ Told("PREOP")
         /\ \A answering : Bus!ReadStates(answering) =>
              /\ seen' \in [BusSlaves -> Bus!AlStates \cup {"none"}]
              /\ \A s \in BusSlaves : seen'[s] # "none" => s \in answering /\ al[s] = seen'[s]
         /\ Bus!Received \/ UNCHANGED input =>
              /\ input' \in [BusSlaves -> {"zero", "actual"}]
              /\ \A s \in BusSlaves : input[s] = "actual" => input'[s] = "actual"
         /\ Bus!Received /\ Bus!Complete => \A s \in BusSlaves : input'[s] = "actual"
<1> USE DEF Known
<1>0. ASSUME NEW target \in Bus!AlStates, NEW reached \in SUBSET present,
             Bus!Reach(reached, target)
      PROVE  Told(target)
  BY <1>0 DEF Bus!Reach, Told
<1>1. ASSUME NEW target \in Bus!AlStates, Bus!Broadcast(target)
      PROVE  asked' = target /\ Told(target)
  BY <1>0, <1>1 DEF Bus!Broadcast
<1>5. ASSUME Bus!ConfigInit PROVE asked' = asked /\ Told("PREOP")
  BY <1>0, <1>5 DEF Bus!ConfigInit, Bus!AlStates
<1>2. ASSUME NEW answering, Bus!ReadStates(answering)
      PROVE  /\ seen' \in [BusSlaves -> Bus!AlStates \cup {"none"}]
             /\ \A s \in BusSlaves : seen'[s] # "none" => s \in answering /\ al[s] = seen'[s]
  BY <1>2 DEF Bus!ReadStates
<1>3. ASSUME Bus!Received \/ UNCHANGED input
      PROVE  /\ input' \in [BusSlaves -> {"zero", "actual"}]
             /\ \A s \in BusSlaves : input[s] = "actual" => input'[s] = "actual"
  BY <1>3 DEF Bus!Received
<1>4. ASSUME Bus!Received, Bus!Complete
      PROVE  \A s \in BusSlaves : input'[s] = "actual"
  BY <1>4 DEF Bus!Received, Bus!Complete
<1> HIDE DEF Known, Told
<1> QED
  BY <1>1, <1>2, <1>3, <1>4, <1>5

LEMMA ConfiguringKept ==
  ASSUME BusInv, \/ Bus!WaitLink \/ Bus!StepSoemInit \/ Bus!StepProbe \/ Bus!DetectSlaves
                 \/ Bus!StepDiscover \/ Bus!PreOpRequest \/ Bus!PreOpCheck
                 \/ Bus!ReadBasicSdoInfo \/ Bus!StepPdoAssignment \/ Bus!StepPdoConfig
  PROVE  BusInv' /\ state' \notin {"OP_REQUEST", "OPERATIONAL"} /\ state # "OP_REQUEST"
<1> USE DEF Bus!In, Bus!master, Bus!bus, Bus!MasterStates, Bus!Configuring, Moves, Known,
           Waits, Opened, InStep, Preparing, Deaf, InputsReal, SafeAsked
<1> DEFINE Kept == BusInv' /\ state' \notin {"OP_REQUEST", "OPERATIONAL"} /\ state # "OP_REQUEST"
<1>c. /\ ProbeCount \in Nat \ {0} /\ BusFaultLimit \in Nat \ {0}
      /\ OpStableCycles \in Nat \ {0} /\ OpWaitCycles \in Nat
  BY EtherCATBus DEF Bus!MasterAssumption
<1>0. Counted /\ Followed
  BY DEF BusInv
<1>k. /\ Known /\ Waits /\ Opened /\ InStep
      /\ InputsReal => \A s \in BusSlaves : input[s] = "actual"
      /\ SafeAsked => asked = "SAFEOP"
  BY <1>0 DEF Followed
<1>1. CASE Bus!WaitLink
  <2>1. Moves("SOEM_INIT") /\ state = "WAIT_LINK"
        /\ UNCHANGED <<probes, cycle, stable, badCycles, seen, input, output, Bus!bus>>
    BY <1>1, TableRows DEF Bus!WaitLink
  <2>2. Counted'
    BY <1>0, <2>1 DEF Counted
  <2>3. Followed'
    BY <1>k, <2>1 DEF Followed
  <2> QED
    BY <2>1, <2>2, <2>3 DEF BusInv
<1>2. CASE Bus!StepSoemInit
  <2>1. /\ state = "SOEM_INIT" /\ input' \in [BusSlaves -> {"zero", "actual"}]
        /\ \/ Bus!EnterError
           \/ state' = "PROBE" /\ pc' = "top" /\ context' = TRUE /\ UNCHANGED mailbox
        /\ UNCHANGED <<probes, cycle, stable, badCycles, seen, output, Bus!bus>>
    BY <1>2 DEF Bus!StepSoemInit
  <2>2. Counted'
    BY <1>c, <1>0, <2>1 DEF Counted, Bus!EnterError
  <2>3. Followed'
    BY <1>k, <2>1 DEF Followed, Bus!EnterError
  <2> QED
    BY <2>1, <2>2, <2>3 DEF BusInv, Bus!EnterError
<1>3. CASE Bus!StepProbe
  <2>1. /\ state = "PROBE" /\ probes' = probes + 1
        /\ \/ Moves("DISCOVER") \/ Bus!EnterError
           \/ probes' < ProbeCount /\ Bus!Stay
        /\ UNCHANGED <<cycle, stable, badCycles, seen, input, output, Bus!bus>>
    <3>1. \/ Bus!Transition("PROBE_OK")
          \/ probes' < ProbeCount /\ Bus!Stay
          \/ Bus!EnterError
      BY <1>3 DEF Bus!StepProbe
    <3>2. /\ state = "PROBE" /\ probes' = probes + 1
          /\ UNCHANGED <<cycle, stable, badCycles, seen, input, output, Bus!bus>>
      BY <1>3 DEF Bus!StepProbe
    <3> HIDE DEF Moves
    <3> QED
      BY <3>1, <3>2, TableRows
  <2>2. state' \in {"DISCOVER", "PROBE", "ERROR"} /\ (state' = "PROBE" => probes' < ProbeCount)
    BY <2>1 DEF Bus!EnterError, Bus!Stay
  <2>3. Counted'
    BY <1>c, <1>0, <2>1, <2>2 DEF Counted
  <2>4. Followed'
    BY <1>k, <2>1 DEF Followed, Bus!EnterError, Bus!Stay
  <2> QED
    BY <2>1, <2>2, <2>3, <2>4 DEF BusInv
<1>a. {"INIT", "PREOP", "SAFEOP", "OP"} = Bus!AlStates
  BY DEF Bus!AlStates
<1>9. CASE Bus!DetectSlaves
  <2>1. /\ state = "DISCOVER" /\ pc = "top" /\ asked' = "INIT" /\ Told("INIT")
        /\ Bus!EnterError \/ Bus!Wait("configure") \/ Bus!Wait("mismatch")
        /\ UNCHANGED <<probes, cycle, stable, badCycles, seen, input, output, al, present>>
    <3>1. Bus!Broadcast("INIT")
      BY <1>9 DEF Bus!DetectSlaves
    <3>2. asked' = "INIT" /\ Told("INIT")
      BY <1>k, <1>a, <3>1, FramesTyped
    <3> QED
      BY <1>9, <3>2 DEF Bus!DetectSlaves
  <2>2. Counted'
    BY <1>0, <2>1 DEF Counted, Bus!EnterError, Bus!Wait
  <2>3. Followed'
    <3>1. CASE Bus!EnterError
      BY <1>k, <1>a, <2>1, <3>1 DEF Followed, Bus!EnterError, Told
    <3>2. CASE Bus!Wait("configure") \/ Bus!Wait("mismatch")
      <4>1. /\ state' = "DISCOVER" /\ pc' \in {"configure", "mismatch"}
            /\ UNCHANGED <<context, mailbox>>
        BY <2>1, <3>2 DEF Bus!Wait
      <4>5. /\ ctl' \in [BusSlaves -> Bus!AlStates \cup {"none"}] /\ told' \subseteq BusSlaves
            /\ asked' \in Bus!AlStates
        BY <1>a, <2>1 DEF Told
      <4>2. Known'
        BY <1>k, <2>1, <4>1, <4>5
      <4>3. Waits' /\ Opened' /\ ~InputsReal' /\ ~SafeAsked'
        BY <1>k, <2>1, <4>1
      <4>4. InStep'
        BY <1>k, <2>1, <4>1 DEF Told
      <4> QED
        BY <4>2, <4>3, <4>4 DEF Followed
    <3> QED
      BY <2>1, <3>1, <3>2
  <2> QED
    BY <2>1, <2>2, <2>3 DEF BusInv, Bus!EnterError, Bus!Wait
<1>4. CASE Bus!StepDiscover
  <2>1. /\ state = "DISCOVER" /\ asked' = asked /\ Told("PREOP")
        /\ UNCHANGED <<probes, cycle, stable, badCycles, seen, input, output, al, present>>
    BY <1>k, <1>4, FramesTyped DEF Bus!StepDiscover
  <2>2. Moves("PREOP") \/ Bus!EnterError
    BY <1>4, <2>1, TableRows DEF Bus!StepDiscover
  <2>3. Counted'
    BY <1>0, <2>1, <2>2 DEF Counted, Bus!EnterError
  <2>4. Followed'
    BY <1>k, <1>a, <2>1, <2>2 DEF Followed, Bus!EnterError, Told
  <2> QED
    BY <2>1, <2>2, <2>3, <2>4 DEF BusInv, Bus!EnterError
<1>5. CASE Bus!PreOpRequest
  <2>1. /\ state = "PREOP" /\ asked' = "PREOP" /\ Told("PREOP")
        /\ Bus!Wait("check")
        /\ UNCHANGED <<probes, cycle, stable, badCycles, seen, input, output, al, present>>
    BY <1>k, <1>5, <1>a, FramesTyped DEF Bus!PreOpRequest
  <2>2. Counted'
    BY <1>0, <2>1 DEF Counted, Bus!Wait
  <2>3. Followed'
    BY <1>k, <1>a, <2>1 DEF Followed, Bus!Wait, Told
  <2> QED
    BY <2>1, <2>2, <2>3 DEF BusInv, Bus!Wait
<1>6. CASE Bus!PreOpCheck
  <2>1. /\ seen' \in [BusSlaves -> Bus!AlStates \cup {"none"}]
        /\ Bus!AllSeen("PREOP") => \A s \in BusSlaves : al[s] = "PREOP"
    <3>1. PICK answering \in Bus!Answers : Bus!ReadStates(answering)
      BY <1>6 DEF Bus!PreOpCheck
    <3>2. /\ seen' \in [BusSlaves -> Bus!AlStates \cup {"none"}]
          /\ \A s \in BusSlaves : seen'[s] # "none" => al[s] = seen'[s]
      BY <1>k, <3>1, FramesTyped
    <3> QED
      BY <3>2 DEF Bus!AllSeen
  <2>2. /\ state = "PREOP"
        /\ \/ Moves("SDO") /\ \A s \in BusSlaves : al[s] = "PREOP"
           \/ Bus!EnterError
        /\ UNCHANGED <<probes, cycle, stable, badCycles, input, output, Bus!bus>>
    <3>1. /\ state = "PREOP" /\ pc = "check"
          /\ UNCHANGED <<probes, cycle, stable, badCycles, input, output, Bus!bus>>
          /\ (Bus!AllSeen("PREOP") /\ Bus!Transition("PREOP_OK")) \/ Bus!EnterError
      BY <1>6 DEF Bus!PreOpCheck
    <3> HIDE DEF Moves
    <3> QED
      BY <2>1, <3>1, TableRows
  <2>3. Counted'
    BY <1>0, <2>2 DEF Counted, Bus!EnterError
  <2>4. Followed'
    <3>1. CASE Moves("SDO") /\ \A s \in BusSlaves : al[s] = "PREOP"
      BY <1>k, <2>1, <2>2, <3>1 DEF Followed
    <3>2. CASE Bus!EnterError
      BY <1>k, <2>1, <2>2, <3>2 DEF Followed, Bus!EnterError
    <3> QED
      BY <2>2, <3>1, <3>2
  <2> QED
    BY <2>2, <2>3, <2>4 DEF BusInv, Bus!EnterError
<1>7. CASE Bus!ReadBasicSdoInfo \/ Bus!StepPdoAssignment
  <2>1. /\ UNCHANGED <<probes, cycle, stable, badCycles, seen, input, output, Bus!bus>>
        /\ \/ state = "SDO" /\ Bus!Transition("SDO_DONE")
           \/ state = "PDO_ASSIGN" /\ Bus!Transition("PDO_ASSIGN_OK")
           \/ state \in {"SDO", "PDO_ASSIGN"} /\ Bus!EnterError
    BY <1>7 DEF Bus!ReadBasicSdoInfo, Bus!StepPdoAssignment, Bus!ReadSdo
  <2>2. \/ state = "SDO" /\ Moves("PDO_ASSIGN")
        \/ state = "PDO_ASSIGN" /\ Moves("MAP")
        \/ state \in {"SDO", "PDO_ASSIGN"} /\ Bus!EnterError
    <3> HIDE DEF Moves
    <3> QED
      BY <2>1, TableRows
  <2>3. Counted'
    BY <1>0, <2>1, <2>2 DEF Counted, Bus!EnterError
  <2>4. Followed'
    BY <1>k, <2>1, <2>2 DEF Followed, Bus!EnterError
  <2> QED
    BY <2>2, <2>3, <2>4 DEF BusInv, Bus!EnterError
<1>8. CASE Bus!StepPdoConfig
  <2>1. /\ state = "MAP" /\ input' \in [BusSlaves -> {"zero", "actual"}]
        /\ \/ state' = "SAFEOP" /\ pc' = "top" /\ mailbox' = TRUE /\ UNCHANGED context
           \/ Bus!EnterError
        /\ UNCHANGED <<probes, cycle, stable, badCycles, seen, output, Bus!bus>>
    BY <1>8 DEF Bus!StepPdoConfig
  <2>2. Counted'
    BY <1>0, <2>1 DEF Counted, Bus!EnterError
  <2>3. Followed'
    <3>1. CASE state' = "SAFEOP" /\ pc' = "top" /\ mailbox' = TRUE /\ UNCHANGED context
      BY <1>k, <2>1, <3>1 DEF Followed
    <3>2. CASE Bus!EnterError
      BY <1>k, <2>1, <3>2 DEF Followed, Bus!EnterError
    <3> QED
      BY <2>1, <3>1, <3>2
  <2> QED
    BY <2>1, <2>2, <2>3 DEF BusInv, Bus!EnterError
<1> QED
  BY <1>1, <1>2, <1>3, <1>4, <1>5, <1>6, <1>7, <1>8, <1>9

LEMMA StartKept ==
  ASSUME BusInv, \/ Bus!SafeOpRequest \/ Bus!SafeOpCheck \/ Bus!SafeOpExchange
                 \/ Bus!PreloadSafeOutputs \/ Bus!OpWaitCycle \/ Bus!OpWaited
                 \/ Bus!OpTimedOut \/ Bus!FallbackSafeOp \/ Bus!StepOperational
  PROVE  /\ BusInv'
         /\ state' = "OPERATIONAL" /\ state # "OPERATIONAL" =>
              \A s \in BusSlaves : s \in present /\ al[s] = "OP"
         /\ state = "OP_REQUEST" /\ state' = "ERROR" => asked' # "OP"
<1> USE DEF Bus!In, Bus!master, Bus!bus, Bus!MasterStates, Bus!Configuring, Moves, Known,
           Waits, Opened, InStep, Preparing, Deaf, InputsReal, SafeAsked
<1>c. /\ ProbeCount \in Nat \ {0} /\ BusFaultLimit \in Nat \ {0}
      /\ OpStableCycles \in Nat \ {0} /\ OpWaitCycles \in Nat
  BY EtherCATBus DEF Bus!MasterAssumption
<1>0. Counted /\ Followed
  BY DEF BusInv
<1>k. /\ Known /\ Waits /\ Opened /\ InStep
      /\ InputsReal => \A s \in BusSlaves : input[s] = "actual"
      /\ SafeAsked => asked = "SAFEOP"
  BY <1>0 DEF Followed
<1>a. {"SAFEOP", "OP"} \subseteq Bus!AlStates
  BY DEF Bus!AlStates
<1>1. CASE Bus!SafeOpRequest
  <2>1. /\ seen' \in [BusSlaves -> Bus!AlStates \cup {"none"}]
        /\ state = "SAFEOP" /\ pc = "top"
        /\ UNCHANGED <<probes, cycle, stable, badCycles, input, output, al, present>>
    BY <1>k, <1>1, FramesTyped DEF Bus!SafeOpRequest
  <2>2. \/ /\ Bus!Wait("check") /\ asked' = "SAFEOP" /\ Told("SAFEOP")
           /\ \A s \in BusSlaves : al[s] = "PREOP"
        \/ Bus!EnterError /\ UNCHANGED <<ctl, asked, told>>
    <3>1. PICK answering \in Bus!Answers : Bus!ReadStates(answering)
      BY <1>1 DEF Bus!SafeOpRequest
    <3>2. \A s \in BusSlaves : seen'[s] # "none" => al[s] = seen'[s]
      BY <1>k, <3>1, FramesTyped
    <3>3. Bus!AllSeen("PREOP") => \A s \in BusSlaves : al[s] = "PREOP"
      BY <3>2 DEF Bus!AllSeen
    <3>4. Bus!Broadcast("SAFEOP") => asked' = "SAFEOP" /\ Told("SAFEOP")
      BY <1>k, <1>a, FramesTyped
    <3> QED
      BY <1>1, <3>3, <3>4 DEF Bus!SafeOpRequest
  <2>3. Counted'
    BY <1>0, <2>1, <2>2 DEF Counted, Bus!EnterError, Bus!Wait
  <2>4. Followed'
    <3>1. CASE Bus!Wait("check") /\ asked' = "SAFEOP" /\ Told("SAFEOP")
               /\ \A s \in BusSlaves : al[s] = "PREOP"
      <4>1. state' = "SAFEOP" /\ pc' = "check" /\ UNCHANGED <<context, mailbox>>
        BY <2>1, <3>1 DEF Bus!Wait
      <4>2. Known' /\ Waits' /\ Opened' /\ ~InputsReal'
        BY <1>k, <1>a, <2>1, <3>1, <4>1 DEF Told
      <4>3. InStep'
        BY <1>k, <1>a, <2>1, <3>1, <4>1 DEF Told
      <4> QED
        BY <3>1, <4>2, <4>3 DEF Followed
    <3>2. CASE Bus!EnterError /\ UNCHANGED <<ctl, asked, told>>
      BY <1>k, <2>1, <3>2 DEF Followed, Bus!EnterError
    <3> QED
      BY <2>2, <3>1, <3>2
  <2> QED
    BY <2>1, <2>2, <2>3, <2>4 DEF BusInv, Bus!EnterError, Bus!Wait
<1>2. CASE Bus!SafeOpCheck
  <2>1. /\ seen' \in [BusSlaves -> Bus!AlStates \cup {"none"}]
        /\ state = "SAFEOP" /\ pc = "check"
        /\ Bus!Wait("exchange") \/ Bus!EnterError
        /\ UNCHANGED <<probes, cycle, stable, badCycles, input, output, Bus!bus>>
    BY <1>k, <1>2, FramesTyped DEF Bus!SafeOpCheck
  <2>2. Counted'
    BY <1>0, <2>1 DEF Counted, Bus!EnterError, Bus!Wait
  <2>3. Followed'
    <3>1. CASE Bus!Wait("exchange")
      BY <1>k, <2>1, <3>1 DEF Followed, Bus!Wait
    <3>2. CASE Bus!EnterError
      BY <1>k, <2>1, <3>2 DEF Followed, Bus!EnterError
    <3> QED
      BY <2>1, <3>1, <3>2
  <2> QED
    BY <2>1, <2>2, <2>3 DEF BusInv, Bus!EnterError, Bus!Wait
<1>3. CASE Bus!SafeOpExchange
  <2>1. /\ input' \in [BusSlaves -> {"zero", "actual"}]
        /\ state = "SAFEOP" /\ pc = "exchange"
        /\ UNCHANGED <<probes, cycle, stable, badCycles, seen, Bus!bus>>
    BY <1>k, <1>3, FramesTyped DEF Bus!SafeOpExchange
  <2>2. /\ output' \in [BusSlaves -> {"none", "safe", "safe at zero"}]
        /\ \A s \in BusSlaves : output'[s] # "none"
    BY <1>3 DEF Bus!SafeOpExchange
  <2>3. Moves("OP_REQUEST") \/ Bus!EnterError
    BY <1>3, <2>1, TableRows DEF Bus!SafeOpExchange
  <2>4. Counted'
    BY <1>0, <2>1, <2>3 DEF Counted, Bus!EnterError
  <2>5. Followed'
    BY <1>k, <2>1, <2>2, <2>3 DEF Followed, Bus!EnterError
  <2> QED
    BY <2>1, <2>3, <2>4, <2>5 DEF BusInv, Bus!EnterError
<1>4. CASE Bus!PreloadSafeOutputs
  <2>1. /\ input' \in [BusSlaves -> {"zero", "actual"}]
        /\ state = "OP_REQUEST" /\ pc = "top" /\ cycle' = 0 /\ stable' = 0
        /\ UNCHANGED <<probes, badCycles, seen, output, al, present>>
    BY <1>k, <1>4, FramesTyped DEF Bus!PreloadSafeOutputs
  <2>2. \/ /\ Bus!Wait("wait") /\ asked' = "OP"
           /\ ctl' \in [BusSlaves -> Bus!AlStates \cup {"none"}] /\ told' \subseteq BusSlaves
        \/ Bus!EnterError /\ UNCHANGED <<ctl, asked, told>>
    BY <1>k, <1>4, <1>a, FramesTyped DEF Bus!PreloadSafeOutputs, Told
  <2>3. Counted'
    BY <1>c, <1>0, <2>1, <2>2 DEF Counted, Bus!EnterError, Bus!Wait
  <2>4. Followed'
    <3>1. CASE /\ Bus!Wait("wait") /\ asked' = "OP"
               /\ ctl' \in [BusSlaves -> Bus!AlStates \cup {"none"}] /\ told' \subseteq BusSlaves
      <4>1. state' = "OP_REQUEST" /\ pc' = "wait" /\ UNCHANGED <<context, mailbox>>
        BY <2>1, <3>1 DEF Bus!Wait
      <4>2. Known'
        BY <1>k, <1>a, <2>1, <3>1, <4>1
      <4>3. Waits' /\ Opened' /\ ~SafeAsked'
        BY <1>k, <2>1, <4>1
      <4>5. ~InputsReal'
        BY <2>1, <4>1
      <4>4. InStep'
        BY <1>k, <2>1, <4>1
      <4> QED
        BY <4>2, <4>3, <4>4, <4>5 DEF Followed
    <3>2. CASE Bus!EnterError /\ UNCHANGED <<ctl, asked, told>>
      BY <1>k, <2>1, <3>2 DEF Followed, Bus!EnterError
    <3> QED
      BY <2>2, <3>1, <3>2
  <2> QED
    BY <1>k, <2>1, <2>2, <2>3, <2>4 DEF BusInv, Bus!EnterError, Bus!Wait
<1>5. CASE Bus!OpWaitCycle
  <2>1. /\ state = "OP_REQUEST" /\ pc = "wait" /\ stable < OpStableCycles /\ cycle < OpWaitCycles
        /\ cycle' = cycle + 1 /\ Bus!Stay
        /\ UNCHANGED <<probes, badCycles, seen, output, Bus!bus>>
        /\ stable' = 0 \/ stable' = stable + 1
    BY <1>5 DEF Bus!OpWaitCycle
  <2>2. /\ input' \in [BusSlaves -> {"zero", "actual"}]
        /\ stable' = 0 \/ \A s \in BusSlaves : input'[s] = "actual"
    <3>1. CASE Bus!Complete /\ Bus!Received
      BY <1>k, <3>1, FramesTyped
    <3>2. CASE stable' = 0 /\ (Bus!Received \/ UNCHANGED input)
      BY <1>k, <3>2, FramesTyped
    <3> QED
      BY <1>5, <3>1, <3>2 DEF Bus!OpWaitCycle
  <2>3. Counted'
    BY <1>c, <1>0, <2>1 DEF Counted, Bus!Stay
  <2>4. InputsReal' => stable' > 0
    BY <2>1 DEF Bus!Stay
  <2>5. UNCHANGED <<state, pc, context, mailbox, seen, output, al, ctl, present, asked, told>>
    BY <2>1 DEF Bus!Stay
  <2>6. Known' /\ Waits' /\ Opened' /\ InStep' /\ (SafeAsked' => asked' = "SAFEOP")
    BY <1>k, <2>2, <2>5
  <2>7. Followed'
    <3> HIDE DEF InputsReal, Known, Waits, Opened, InStep, SafeAsked
    <3> QED
      BY <2>2, <2>4, <2>6 DEF Followed
  <2> QED
    BY <2>1, <2>3, <2>7 DEF BusInv, Bus!Stay
<1>6. CASE Bus!OpWaited
  <2>1. /\ seen' \in [BusSlaves -> Bus!AlStates \cup {"none"}]
        /\ Bus!AllSeen("OP") => \A s \in BusSlaves : s \in present /\ al[s] = "OP"
    <3>1. PICK answering \in Bus!Answers : Bus!ReadStates(answering)
      BY <1>6 DEF Bus!OpWaited
    <3>2. /\ seen' \in [BusSlaves -> Bus!AlStates \cup {"none"}]
          /\ \A s \in BusSlaves : seen'[s] # "none" => s \in answering /\ al[s] = seen'[s]
      BY <1>k, <3>1, FramesTyped
    <3>3. answering \subseteq present
      BY <3>1 DEF Bus!Answers
    <3> QED
      BY <3>2, <3>3 DEF Bus!AllSeen
  <2>2. /\ state = "OP_REQUEST" /\ pc = "wait" /\ stable >= OpStableCycles
        /\ UNCHANGED <<probes, cycle, stable, input, output, Bus!bus>>
        /\ \/ Moves("OPERATIONAL") /\ Bus!AllSeen("OP") /\ badCycles' = 0
           \/ Bus!Wait("fallback") /\ UNCHANGED badCycles
    BY <1>6, TableRows DEF Bus!OpWaited
  <2>3. stable > 0
    BY <1>c, <1>0, <2>2 DEF Counted
  <2>4. \A s \in BusSlaves : input[s] = "actual"
    BY <1>k, <2>2, <2>3
  <2>5. Counted'
    BY <1>c, <1>0, <2>2 DEF Counted, Bus!Wait
  <2>6. Followed'
    <3>1. CASE Moves("OPERATIONAL") /\ badCycles' = 0
      BY <1>k, <2>1, <2>2, <2>4, <3>1 DEF Followed
    <3>2. CASE Bus!Wait("fallback")
      BY <1>k, <2>1, <2>2, <3>2 DEF Followed, Bus!Wait
    <3> QED
      BY <2>2, <3>1, <3>2
  <2> QED
    BY <2>1, <2>2, <2>5, <2>6 DEF BusInv, Bus!Wait
<1>7. CASE Bus!OpTimedOut
  <2>1. /\ state = "OP_REQUEST" /\ pc = "wait" /\ Bus!Wait("fallback")
        /\ UNCHANGED <<probes, cycle, stable, badCycles, seen, input, output, Bus!bus>>
    BY <1>7 DEF Bus!OpTimedOut
  <2>2. Counted'
    BY <1>0, <2>1 DEF Counted, Bus!Wait
  <2>3. Followed'
    BY <1>k, <2>1 DEF Followed, Bus!Wait
  <2> QED
    BY <2>1, <2>2, <2>3 DEF BusInv, Bus!Wait
<1>8. CASE Bus!FallbackSafeOp
  <2>1. /\ seen' \in [BusSlaves -> Bus!AlStates \cup {"none"}]
        /\ asked' = "SAFEOP" /\ ctl' \in [BusSlaves -> Bus!AlStates \cup {"none"}]
        /\ told' \subseteq BusSlaves
        /\ state = "OP_REQUEST" /\ Bus!EnterError
        /\ UNCHANGED <<probes, cycle, stable, badCycles, input, output, al, present>>
    BY <1>k, <1>8, <1>a, FramesTyped DEF Bus!FallbackSafeOp, Told
  <2>2. Counted'
    BY <1>0, <2>1 DEF Counted, Bus!EnterError
  <2>3. Followed'
    BY <1>k, <1>a, <2>1 DEF Followed, Bus!EnterError
  <2> QED
    BY <2>1, <2>2, <2>3 DEF BusInv, Bus!EnterError
<1>9. CASE Bus!StepOperational
  <2>1. /\ state = "OPERATIONAL" /\ pc = "top"
        /\ badCycles' = 0 \/ badCycles' = badCycles + 1
        /\ \/ (badCycles' = 0 \/ badCycles' < BusFaultLimit) /\ Bus!Stay
           \/ Bus!EnterError
        /\ UNCHANGED <<probes, cycle, stable, seen, output, Bus!bus>>
    BY <1>9 DEF Bus!StepOperational
  <2>2. badCycles < BusFaultLimit
    BY <1>0, <2>1 DEF Counted
  <2>3. state' \in {"OPERATIONAL", "ERROR"} /\ (state' = "OPERATIONAL" => badCycles' < BusFaultLimit)
    BY <1>c, <2>1 DEF Bus!Stay, Bus!EnterError
  <2>4. Counted'
    BY <1>c, <1>0, <2>1, <2>2, <2>3 DEF Counted
  <2>5. /\ input' \in [BusSlaves -> {"zero", "actual"}]
        /\ badCycles' = 0 => \A s \in BusSlaves : input'[s] = "actual"
    <3>1. CASE Bus!Complete /\ Bus!Received
      BY <1>k, <3>1, FramesTyped
    <3>2. CASE badCycles' = badCycles + 1 /\ (Bus!Received \/ UNCHANGED input)
      <4>1. badCycles' # 0
        BY <1>0, <3>2 DEF Counted
      <4> QED
        BY <1>k, <3>2, <4>1, FramesTyped
    <3> QED
      BY <1>9, <3>1, <3>2 DEF Bus!StepOperational
  <2>6. InputsReal' => badCycles' = 0
    BY <2>3
  <2>7. Followed'
    <3>1. CASE Bus!Stay
      <4>1. Known' /\ Waits' /\ Opened' /\ InStep' /\ (SafeAsked' => asked' = "SAFEOP")
        BY <1>k, <2>1, <2>5, <3>1 DEF Bus!Stay
      <4> QED
        BY <2>5, <2>6, <4>1 DEF Followed
    <3>2. CASE Bus!EnterError
      BY <1>k, <2>1, <2>5, <3>2 DEF Followed, Bus!EnterError
    <3> QED
      BY <2>1, <3>1, <3>2
  <2> QED
    BY <2>1, <2>4, <2>7 DEF BusInv
<1> QED
  BY <1>1, <1>2, <1>3, <1>4, <1>5, <1>6, <1>7, <1>8, <1>9

LEMMA SlavesKept ==
  ASSUME BusInv, NEW s \in BusSlaves, Bus!Slave(s)
  PROVE  BusInv' /\ UNCHANGED <<state, asked>>
<1> USE DEF Bus!In, Bus!master, Bus!Configuring, Known, Waits, Opened, InStep, Preparing, Deaf,
           InputsReal, SafeAsked
<1>0. Counted /\ Followed
  BY DEF BusInv
<1>k. /\ Known /\ Waits /\ Opened /\ InStep
      /\ InputsReal => \A t \in BusSlaves : input[t] = "actual"
      /\ SafeAsked => asked = "SAFEOP"
  BY <1>0 DEF Followed
<1>t. al \in [BusSlaves -> Bus!AlStates] /\ ctl \in [BusSlaves -> Bus!AlStates \cup {"none"}]
  BY <1>k
<1>1. UNCHANGED <<Bus!master, asked, told>>
  BY DEF Bus!Slave, Bus!Obey, Bus!Fall, Bus!Vanish, Bus!Return
<1>2. Counted'
  BY <1>0, <1>1 DEF Counted
(* Each slave stays, or follows what was asked of it, or falls.           *)
<1> DEFINE Near(t) ==
      \/ al'[t] = al[t] /\ ctl'[t] \in {ctl[t], "none"}
      \/ /\ ctl'[t] = "none"
         /\ \/ al'[t] = "INIT"
            \/ al'[t] = ctl[t] /\ ctl[t] # "none" /\ ctl[t] \in Bus!Follows[al[t]]
            \/ al[t] = "OP" /\ al'[t] = "SAFEOP"
<1>3. /\ al' \in [BusSlaves -> Bus!AlStates] /\ ctl' \in [BusSlaves -> Bus!AlStates \cup {"none"}]
      /\ \A t \in BusSlaves : Near(t)
  <2>1. ASSUME UNCHANGED al, ctl' \in {ctl, [ctl EXCEPT ![s] = "none"]}
        PROVE  /\ al' \in [BusSlaves -> Bus!AlStates]
               /\ ctl' \in [BusSlaves -> Bus!AlStates \cup {"none"}]
               /\ \A t \in BusSlaves : Near(t)
    BY <1>t, <2>1
  <2>2. ASSUME NEW to \in Bus!AlStates, al' = [al EXCEPT ![s] = to],
               ctl' = [ctl EXCEPT ![s] = "none"],
               \/ to = "INIT"
               \/ to = ctl[s] /\ ctl[s] # "none" /\ ctl[s] \in Bus!Follows[al[s]]
               \/ al[s] = "OP" /\ to = "SAFEOP"
        PROVE  /\ al' \in [BusSlaves -> Bus!AlStates]
               /\ ctl' \in [BusSlaves -> Bus!AlStates \cup {"none"}]
               /\ \A t \in BusSlaves : Near(t)
    <3>1. ASSUME NEW t \in BusSlaves PROVE Near(t)
      <4>1. CASE t = s
        BY <1>t, <2>2, <4>1
      <4>2. CASE t # s
        BY <1>t, <2>2, <4>2
      <4> QED
        BY <4>1, <4>2
    <3> HIDE DEF Near
    <3> QED
      BY <1>t, <2>2, <3>1
  <2>3. {"INIT", "SAFEOP"} \subseteq Bus!AlStates
    BY DEF Bus!AlStates
  <2> HIDE DEF Near
  <2>4. CASE Bus!Obey(s)
    <3>1. CASE UNCHANGED al
      BY <2>1, <2>4, <3>1 DEF Bus!Obey
    <3>2. CASE ctl[s] \in Bus!Follows[al[s]] /\ al' = [al EXCEPT ![s] = ctl[s]]
      <4>1. ctl[s] \in Bus!AlStates /\ ctl[s] # "none" /\ ctl' = [ctl EXCEPT ![s] = "none"]
        BY <1>t, <2>4 DEF Bus!Obey
      <4> QED
        BY <2>2, <3>2, <4>1
    <3> QED
      BY <2>4, <3>1, <3>2 DEF Bus!Obey
  <2>5. CASE Bus!Fall(s)
    BY <2>2, <2>3, <2>5 DEF Bus!Fall
  <2>6. CASE Bus!Vanish(s) \/ Bus!Return(s)
    BY <2>1, <2>6 DEF Bus!Vanish, Bus!Return
  <2> QED
    BY <2>4, <2>5, <2>6 DEF Bus!Slave
<1>6. present' \subseteq BusSlaves
  <2>1. present \subseteq BusSlaves
    BY <1>k
  <2>2. \/ present' = present \/ present' = present \cup {s}
        \/ present' \subseteq present
    BY DEF Bus!Slave, Bus!Obey, Bus!Fall, Bus!Vanish, Bus!Return
  <2> QED
    BY <2>1, <2>2
<1>4. Followed'
  <2>1. Known' /\ Waits' /\ Opened' /\ (SafeAsked' => asked' = "SAFEOP")
    BY <1>k, <1>1, <1>3, <1>6
  <2>2. InStep'
    <3>1. UNCHANGED <<state, pc, badCycles, stable, told>> /\ output' = output
      BY <1>1
    <3>2. ASSUME NEW t \in BusSlaves, al[t] \in Bus!AlStates, Near(t), Deaf(t) PROVE Deaf(t)'
      BY <3>1, <3>2 DEF Bus!Follows
    <3>3. ASSUME Preparing', NEW t \in told PROVE ctl'[t] \in {"none", "INIT", "PREOP"}
      <4>1. ctl[t] \in {"none", "INIT", "PREOP"} /\ t \in BusSlaves
        BY <1>k, <3>1, <3>3
      <4> QED
        BY <1>3, <4>1
    <3>4. ASSUME Bus!Configuring', NEW t \in BusSlaves
          PROVE  (t \in told => al'[t] \in {"INIT", "PREOP"}) /\ Deaf(t)'
      <4>1. (t \in told => al[t] \in {"INIT", "PREOP"} /\ ctl[t] \in {"none", "INIT", "PREOP"})
            /\ Deaf(t)
        BY <1>k, <3>1, <3>4
      <4>2. Near(t) /\ al[t] \in Bus!AlStates
        BY <1>3, <1>t
      <4>3. Deaf(t)'
        BY <3>2, <4>1, <4>2
      <4> HIDE DEF Deaf
      <4> QED
        BY <4>1, <4>2, <4>3
    <3>5. ASSUME state' = "SAFEOP", NEW t \in BusSlaves
          PROVE  (t \in told => al'[t] # "OP" /\ ctl'[t] # "OP") /\ Deaf(t)'
      <4>1. (t \in told => al[t] # "OP" /\ ctl[t] # "OP") /\ Deaf(t)
        BY <1>k, <3>1, <3>5
      <4>2. Near(t) /\ al[t] \in Bus!AlStates
        BY <1>3, <1>t
      <4>3. Deaf(t)'
        BY <3>2, <4>1, <4>2
      <4> HIDE DEF Deaf
      <4> QED
        BY <4>1, <4>2, <4>3
    <3>6. state' \in {"OP_REQUEST", "OPERATIONAL"} => \A t \in BusSlaves : output'[t] # "none"
      BY <1>k, <3>1
    <3> HIDE DEF Deaf, Preparing, Near
    <3> QED
      BY <3>1, <3>3, <3>4, <3>5, <3>6
  <2>3. InputsReal' => \A t \in BusSlaves : input'[t] = "actual"
    BY <1>k, <1>1
  <2> QED
    BY <2>1, <2>2, <2>3 DEF Followed
<1> QED
  BY <1>1, <1>2, <1>4 DEF BusInv

LEMMA BusIsSafe == Bus!Spec => []Bus!MasterSafe /\ Bus!StartIsProven
<1>1. Bus!Init => BusInv
  BY BusStarts
<1>2. ASSUME BusInv, [Bus!Next]_(Bus!vars)
      PROVE  /\ BusInv'
             /\ state' = "OPERATIONAL" /\ state # "OPERATIONAL" =>
                  \A s \in BusSlaves : s \in present /\ al[s] = "OP"
             /\ state = "OP_REQUEST" /\ state' = "ERROR" => asked' # "OP"
  <2>1. CASE UNCHANGED Bus!vars
    <3>1. UNCHANGED <<state, pc, context, mailbox, probes, cycle, stable, badCycles, seen, input,
                      output, al, ctl, present, asked, told>>
      BY <2>1 DEF Bus!vars, Bus!master, Bus!bus
    <3>2. Counted'
      BY <1>2, <3>1 DEF BusInv, Counted
    <3>3. Followed'
      BY <1>2, <3>1 DEF BusInv, Followed, Known, Waits, Opened, InStep, Preparing, Deaf, InputsReal, SafeAsked,
         Bus!Configuring, Bus!In
    <3> QED
      BY <3>1, <3>2, <3>3 DEF BusInv
  <2>2. CASE Bus!Process
    BY <1>2, <2>2, ConfiguringKept, StartKept DEF Bus!Process
  <2>3. CASE \E s \in BusSlaves : Bus!Slave(s)
    BY <1>2, <2>3, SlavesKept
  <2> QED
    BY <1>2, <2>1, <2>2, <2>3 DEF Bus!Next
<1>3. BusInv => Bus!MasterSafe
  BY DEF BusInv, Counted, Followed, Known, Opened, InStep, Preparing, Deaf, InputsReal, Waits, Bus!MasterSafe, Bus!TypeOK,
     Bus!SlavesFollow, Bus!SnapshotIsReal, Bus!SnapshotAvailable, Bus!Configuring, Bus!In
<1>4. BusInv' => (state' = "OPERATIONAL" => Bus!MailboxServiced')
  BY DEF BusInv, Followed, Opened, Bus!MailboxServiced
<1> DEFINE Proven == state' = "OPERATIONAL" =>
             /\ Bus!MailboxServiced'
             /\ state # "OPERATIONAL" => \A s \in BusSlaves : s \in present /\ al[s] = "OP"
           Falls == state = "OP_REQUEST" /\ state' = "ERROR" => asked' # "OP"
<1>5. BusInv /\ [Bus!Next]_(Bus!vars) => BusInv' /\ [Proven]_(Bus!vars) /\ [Falls]_(Bus!vars)
  BY <1>2, <1>4
<1> QED
  BY <1>1, <1>3, <1>5, PTL DEF Bus!Spec, Bus!StartIsProven, Bus!OperationalProven,
     Bus!FailureFallsBack

----------------------------------------------------------------------------
(* The Ethernet port.  An answer that is not awaited belongs to a slot that *)
(* was given back; how many slots were given out since decides when that   *)
(* slot comes round again, and the frame must be gone by then.             *)
Up(s) == IF s = Slots - 1 THEN 0 ELSE s + 1
Gap(s, t) == IF t >= s THEN t - s ELSE t + Slots - s
Due == IF pending = <<>> THEN Up(port.last) ELSE Head(pending)
Own(f) == f.age >= since \/ (f.age = 0 /\ f.slot \in port.busy)
Away(f, most) == Own(f) \/ Gap(f.slot, Due) \in 1 .. most
AwayNext(f, most) ==
  \/ f.age >= since' \/ (f.age = 0 /\ f.slot \in port'.busy)
  \/ Gap(f.slot, Due') \in 1 .. most
Begun == IF polled \/ held # Port!None THEN 1 ELSE 0
Slack == IF pending # <<>> /\ Begun = 0 THEN 1 ELSE 0

PortTyped ==
  /\ port \in [last : 0 .. Slots - 1, busy : SUBSET (0 .. Slots - 1)]
  /\ resends \in 0 .. Attempts - 1 /\ polled \in BOOLEAN
  /\ frames \in Seq(Port!Frames) /\ ring \in Seq(Port!Frames)
  /\ held \in Port!Frames \cup {Port!None}
  /\ answer \in 0 .. Port!NoAnswer /\ since \in 0 .. Port!MaxAge
Awaited ==
  \/ pending = <<>> /\ port.busy = {} /\ held = Port!None /\ ~polled
  \/ pending = <<port.last>> /\ port.busy = {port.last}
  \/ \E s \in 0 .. Slots - 1 :
       /\ pending = <<s, port.last>> /\ port.last = Up(s) /\ port.busy = {s, port.last}
OnTheWire ==
  \A i \in 1 .. Len(frames) :
    frames[i].age <= Late /\ Away(frames[i], 2 * frames[i].age + 2 - Len(pending))
InTheRing ==
  /\ Len(ring) <= Descriptors
  /\ \A i \in 1 .. Len(ring) :
       /\ ring[i].age + i <= Late + Descriptors + Slack
       /\ Away(ring[i], 2 * Late + Descriptors + 2 - i - Begun)
InHand ==
  held # Port!None => held.age <= Late + Descriptors /\ Away(held, 2 * Late + Descriptors + 1)
PortInv == PortTyped /\ Awaited /\ OnTheWire /\ InTheRing /\ InHand /\ Port!AnswerIsOwn

LEMMA PortSizes ==
  /\ Late \in Nat \ {0} /\ Attempts \in Nat \ {0}
  /\ Descriptors \in Nat \ {0} /\ Slots \in Nat \ {0}
  /\ 2 * Late + Descriptors + 1 \in Nat /\ 2 * Late + Descriptors + 1 < Slots /\ Slots > 2
  /\ Port!MaxAge = Late + Descriptors + 1 /\ Port!NoAnswer = Late + Descriptors + 2
<1>1. /\ Late \in Nat \ {0} /\ Attempts \in Nat \ {0}
      /\ Descriptors \in Nat /\ Descriptors >= 2
      /\ Slots \in Nat /\ Slots > 2 * Late + Descriptors + 1
  BY EtherCATPort DEF Port!PortAssumption
<1> QED
  BY <1>1 DEF Port!MaxAge, Port!NoAnswer

(* The slots are a circle.                                                 *)
LEMMA Circle ==
  ASSUME NEW s \in 0 .. Slots - 1, NEW t \in 0 .. Slots - 1
  PROVE  /\ Up(s) \in 0 .. Slots - 1 /\ Up(s) # s /\ Up(s) = (s + 1) % Slots
         /\ Gap(s, t) \in 0 .. Slots - 1
         /\ Gap(s, t) = 0 <=> s = t
         /\ Gap(s, t) < Slots - 1 => Gap(s, Up(t)) = Gap(s, t) + 1
         /\ Gap(s, Up(s)) = 1
<1>1. Slots \in Nat \ {0} /\ Slots > 2
  BY PortSizes
<1>2. Up(s) \in 0 .. Slots - 1 /\ Up(s) # s
  BY <1>1 DEF Up
<1>3. Up(s) = (s + 1) % Slots
  <2>1. CASE s = Slots - 1
    BY <1>1, <2>1 DEF Up
  <2>2. CASE s # Slots - 1
    <3>1. s + 1 \in 0 .. Slots - 1
      BY <1>1, <2>2
    <3>2. (s + 1) % Slots = s + 1
      BY <1>1, <3>1
    <3> QED
      BY <2>2, <3>2 DEF Up
  <2> QED
    BY <2>1, <2>2
<1>4. Gap(s, t) \in 0 .. Slots - 1 /\ (Gap(s, t) = 0 <=> s = t)
  BY <1>1 DEF Gap
<1>5. Gap(s, t) < Slots - 1 => Gap(s, Up(t)) = Gap(s, t) + 1
  BY <1>1 DEF Gap, Up
<1>6. Gap(s, Up(s)) = 1
  BY <1>1 DEF Gap, Up
<1> QED
  BY <1>2, <1>3, <1>4, <1>5, <1>6

(* The search finds the slot after the last one, if it is free.            *)
LEMMA NextSlot ==
  ASSUME NEW p \in [last : 0 .. Slots - 1, busy : SUBSET (0 .. Slots - 1)],
         Up(p.last) \notin p.busy
  PROVE  Port!getindex(p) = [last |-> Up(p.last), busy |-> p.busy \cup {Up(p.last)}]
<1> DEFINE steps == {k \in 1 .. Slots : (p.last + k) % Slots \notin p.busy}
<1>1. Slots \in Nat \ {0} /\ (p.last + 1) % Slots = Up(p.last)
  BY PortSizes, Circle
<1>2. 1 \in steps /\ \A k \in steps : k \in Nat /\ 1 <= k
  BY <1>1
<1>3. Port!Min(steps) = 1
  <2> HIDE DEF steps
  <2> QED
    BY <1>2 DEF Port!Min
<1>4. steps # {}
  BY <1>2
<1> QED
  BY <1>1, <1>3, <1>4 DEF Port!getindex

LEMMA FrameParts ==
  ASSUME NEW f \in Port!Frames
  PROVE  /\ f.slot \in 0 .. Slots - 1 /\ f.age \in 0 .. Port!MaxAge /\ f.age \in Nat
         /\ f # Port!None
BY PortSizes DEF Port!Frames, Port!None

LEMMA OlderFrames ==
  ASSUME NEW q \in Seq(Port!Frames), \A i \in 1 .. Len(q) : q[i].age < Port!MaxAge
  PROVE  /\ Port!Older(q) \in Seq(Port!Frames) /\ Len(Port!Older(q)) = Len(q)
         /\ \A i \in 1 .. Len(q) : /\ Port!Older(q)[i].slot = q[i].slot
                                   /\ Port!Older(q)[i].age = q[i].age + 1
<1> DEFINE o == [i \in 1 .. Len(q) |-> [q[i] EXCEPT !.age = @ + 1]]
<1>1. /\ Len(q) \in Nat /\ DOMAIN q = 1 .. Len(q)
      /\ \A i \in 1 .. Len(q) : q[i] \in Port!Frames
  BY LenProperties, ElementOfSeq
<1>2. \A i \in 1 .. Len(q) : /\ o[i] \in Port!Frames
                             /\ o[i].slot = q[i].slot /\ o[i].age = q[i].age + 1
  <2> SUFFICES ASSUME NEW i \in 1 .. Len(q)
               PROVE  o[i] \in Port!Frames /\ o[i].slot = q[i].slot /\ o[i].age = q[i].age + 1
    OBVIOUS
  <2>1. q[i].age + 1 \in 0 .. Port!MaxAge
    BY <1>1, FrameParts, PortSizes
  <2> QED
    BY <1>1, <2>1 DEF Port!Frames
<1>3. Port!Older(q) = o
  BY <1>1 DEF Port!Older
<1>4. DOMAIN o = 1 .. Len(q)
  OBVIOUS
<1>5. o \in [1 .. Len(q) -> Port!Frames]
  BY <1>2
<1> HIDE DEF o
<1>6. o \in Seq(Port!Frames) /\ Len(o) = Len(q)
  BY <1>1, <1>4, <1>5
<1> QED
  BY <1>2, <1>3, <1>6

LEMMA SentFrames ==
  ASSUME NEW q \in Seq(0 .. Slots - 1)
  PROVE  /\ Port!Sent(q) \in Seq(Port!Frames) /\ Len(Port!Sent(q)) = Len(q)
         /\ \A i \in 1 .. Len(q) : Port!Sent(q)[i] = [slot |-> q[i], age |-> 0]
<1> DEFINE o == [i \in 1 .. Len(q) |-> [slot |-> q[i], age |-> 0]]
<1>1. /\ Len(q) \in Nat /\ DOMAIN q = 1 .. Len(q)
      /\ \A i \in 1 .. Len(q) : q[i] \in 0 .. Slots - 1
  BY LenProperties, ElementOfSeq
<1>2. \A i \in 1 .. Len(q) : o[i] \in Port!Frames /\ o[i] = [slot |-> q[i], age |-> 0]
  BY <1>1, PortSizes DEF Port!Frames
<1>3. Port!Sent(q) = o
  BY <1>1 DEF Port!Sent
<1>4. o \in [1 .. Len(q) -> Port!Frames] /\ DOMAIN o = 1 .. Len(q)
  BY <1>2
<1> HIDE DEF o
<1>5. o \in Seq(Port!Frames) /\ Len(o) = Len(q)
  BY <1>1, <1>4
<1> QED
  BY <1>2, <1>3, <1>5

LEMMA PortStarts == Port!Init => PortInv
<1> SUFFICES ASSUME Port!Init PROVE PortInv
  OBVIOUS
<1>1. PortTyped
  <2>1. /\ 0 \in 0 .. Slots - 1 /\ 0 \in 0 .. Attempts - 1
        /\ Port!NoAnswer \in 0 .. Port!NoAnswer /\ 0 \in 0 .. Port!MaxAge
    BY PortSizes
  <2>2. <<>> \in Seq(Port!Frames)
    OBVIOUS
  <2> QED
    BY <2>1, <2>2 DEF Port!Init, Port!SetUp, PortTyped
<1>2. Len(<<>>) = 0
  OBVIOUS
<1>3. OnTheWire /\ InTheRing /\ InHand
  BY <1>2, PortSizes DEF Port!Init, OnTheWire, InTheRing, InHand
<1>4. Awaited /\ Port!AnswerIsOwn
  BY DEF Port!Init, Port!SetUp, Awaited, Port!AnswerIsOwn
<1> QED
  BY <1>1, <1>3, <1>4 DEF PortInv

(* An exchange begins: every frame is an exchange older, none is any nearer. *)
LEMMA PortBegins ==
  ASSUME PortInv, NEW slots \in Seq(0 .. Slots - 1), Len(slots) \in 1 .. 2,
         NEW again \in 0 .. Attempts - 1, Port!Begin(slots, again),
         port' \in [last : 0 .. Slots - 1, busy : SUBSET (0 .. Slots - 1)],
         Awaited', Head(slots) = Up(port.last),
         \A i \in 1 .. Len(slots) : slots[i] \in port'.busy
  PROVE  PortInv'
<1>1. /\ pending = <<>> /\ held = Port!None /\ ~polled /\ port.busy = {}
      /\ pending' = slots /\ resends' = again /\ polled' = FALSE
      /\ frames' = Port!Older(frames) \o Port!Sent(slots) /\ ring' = Port!Older(ring)
      /\ answer' = Port!NoAnswer /\ since' = Port!Min({since + 1, Port!MaxAge})
      /\ held' = held /\ slots # <<>>
      /\ \A i \in 1 .. Len(frames) : frames[i].age < Late
  <2>1. DOMAIN frames = 1 .. Len(frames)
    BY LenProperties DEF PortInv, PortTyped
  <2>2. pending = <<>> /\ slots # <<>>
    BY DEF Port!Begin, Port!Idle
  <2>3. held = Port!None /\ ~polled /\ port.busy = {}
    BY <2>2 DEF PortInv, Awaited
  <2> QED
    BY <2>1, <2>2, <2>3 DEF Port!Begin
<1>2. /\ frames \in Seq(Port!Frames) /\ ring \in Seq(Port!Frames) /\ since \in 0 .. Port!MaxAge
      /\ Len(frames) \in Nat /\ Len(ring) \in Nat
      /\ \A i \in 1 .. Len(frames) : frames[i] \in Port!Frames
      /\ \A i \in 1 .. Len(ring) : ring[i] \in Port!Frames
  BY LenProperties, ElementOfSeq DEF PortInv, PortTyped
<1>3. since' \in 0 .. Port!MaxAge /\ since' <= since + 1
  <2> DEFINE S == {since + 1, Port!MaxAge}
  <2>1. /\ Port!MaxAge \in Nat /\ since + 1 \in Nat
    BY <1>2, PortSizes
  <2>2. Port!Min(S) \in S /\ \A n \in S : Port!Min(S) <= n
    <3>1. \E n \in S : \A m \in S : n <= m
      BY <2>1
    <3> QED
      BY <3>1 DEF Port!Min
  <2> QED
    BY <1>1, <2>1, <2>2
<1>4. Due' = Due /\ Len(pending) = 0 /\ Len(pending') = Len(slots) /\ Begun = 0 /\ Begun' = 0
  BY <1>1 DEF Due, Begun
<1>5. ASSUME NEW f \in Port!Frames, NEW g \in Port!Frames, g.slot = f.slot, g.age = f.age + 1,
             NEW m \in Int, NEW n \in Int, m <= n, Away(f, m)
      PROVE  AwayNext(g, n)
  <2>1. f.age \in Nat /\ f.slot \in 0 .. Slots - 1
    BY FrameParts
  <2>2. CASE f.age >= since
    BY <1>2, <1>3, <1>5, <2>1, <2>2 DEF AwayNext
  <2>3. CASE Gap(f.slot, Due) \in 1 .. m
    BY <1>4, <1>5, <2>3 DEF AwayNext
  <2> QED
    BY <1>1, <1>5, <2>2, <2>3 DEF Away, Own
<1>6. /\ Port!Older(frames) \in Seq(Port!Frames) /\ Len(Port!Older(frames)) = Len(frames)
      /\ \A i \in 1 .. Len(frames) : /\ Port!Older(frames)[i] \in Port!Frames
                                     /\ Port!Older(frames)[i].slot = frames[i].slot
                                     /\ Port!Older(frames)[i].age = frames[i].age + 1
  <2>1. \A i \in 1 .. Len(frames) : frames[i].age < Port!MaxAge
    BY <1>1, <1>2, FrameParts, PortSizes
  <2> QED
    BY <1>2, <2>1, OlderFrames, ElementOfSeq
<1>7. /\ Port!Sent(slots) \in Seq(Port!Frames) /\ Len(Port!Sent(slots)) = Len(slots)
      /\ \A i \in 1 .. Len(slots) : Port!Sent(slots)[i] = [slot |-> slots[i], age |-> 0]
  BY SentFrames
<1>8. /\ frames' \in Seq(Port!Frames) /\ Len(frames') = Len(frames) + Len(slots)
      /\ \A i \in 1 .. Len(frames) : frames'[i] = Port!Older(frames)[i]
      /\ \A i \in 1 .. Len(slots) : frames'[Len(frames) + i] = Port!Sent(slots)[i]
  <2> DEFINE o == Port!Older(frames)
             z == Port!Sent(slots)
  <2>1. o \in Seq(Port!Frames) /\ z \in Seq(Port!Frames) /\ frames' = o \o z
    BY <1>1, <1>6, <1>7
  <2>2. Len(o) = Len(frames) /\ Len(z) = Len(slots)
    BY <1>6, <1>7
  <2> HIDE DEF o, z
  <2>3. /\ o \o z \in Seq(Port!Frames) /\ Len(o \o z) = Len(o) + Len(z)
        /\ \A i \in 1 .. Len(o) + Len(z) :
             (o \o z)[i] = IF i <= Len(o) THEN o[i] ELSE z[i - Len(o)]
    BY <2>1, ConcatProperties
  <2>4. \A i \in 1 .. Len(frames) : frames'[i] = o[i]
    BY <1>2, <2>1, <2>2, <2>3
  <2>5. ASSUME NEW i \in 1 .. Len(slots) PROVE frames'[Len(frames) + i] = z[i]
    <3>1. /\ Len(frames) + i \in 1 .. Len(o) + Len(z) /\ ~(Len(frames) + i <= Len(o))
          /\ (Len(frames) + i) - Len(o) = i
      BY <1>2, <2>2
    <3> QED
      BY <2>1, <2>3, <3>1
  <2> QED
    BY <2>1, <2>2, <2>3, <2>4, <2>5 DEF o, z
<1>9. OnTheWire'
  <2>1. ASSUME NEW i \in 1 .. Len(frames)
        PROVE  frames'[i].age <= Late /\ AwayNext(frames'[i], 2 * frames'[i].age + 2 - Len(pending'))
    <3> DEFINE f == frames[i]
               g == Port!Older(frames)[i]
    <3>1. frames'[i] = g
      BY <1>8
    <3>2. /\ f \in Port!Frames /\ g \in Port!Frames /\ g.slot = f.slot /\ g.age = f.age + 1
          /\ f.age < Late /\ f.age \in Nat
      BY <1>1, <1>2, <1>6, FrameParts
    <3>3. Away(f, 2 * f.age + 2 - Len(pending))
      BY DEF PortInv, OnTheWire
    <3> HIDE DEF f, g
    <3>4. /\ g.age <= Late /\ 2 * f.age + 2 - Len(pending) <= 2 * g.age + 2 - Len(slots)
          /\ 2 * f.age + 2 - Len(pending) \in Int /\ 2 * g.age + 2 - Len(slots) \in Int
      <4>1. Late \in Nat /\ g.age \in Nat
        BY <3>2, PortSizes
      <4>4. Len(slots) \in Int /\ Len(slots) <= 2
        OBVIOUS
      <4>2. 2 * g.age = 2 * f.age + 2
        BY <3>2
      <4>3. 2 * f.age \in Nat
        BY <3>2
      <4> QED
        <5>1. Len(pending) = 0 /\ f.age < Late /\ f.age \in Nat /\ g.age = f.age + 1
          BY <1>4, <3>2
        <5>2. \A x \in Nat : \A l \in 1 .. 2 :
                /\ 2 * x + 2 - 0 <= 2 * (x + 1) + 2 - l
                /\ 2 * x + 2 - 0 \in Int /\ 2 * (x + 1) + 2 - l \in Int
          OBVIOUS
        <5>3. g.age <= Late
          BY <4>1, <5>1
        <5> QED
          BY <5>1, <5>2, <5>3
    <3>5. AwayNext(g, 2 * g.age + 2 - Len(slots))
      BY <1>5, <3>2, <3>3, <3>4
    <3> QED
      BY <1>4, <3>1, <3>4, <3>5
  <2>2. ASSUME NEW i \in 1 .. Len(slots)
        PROVE  LET g == frames'[Len(frames) + i]
               IN  g.age <= Late /\ AwayNext(g, 2 * g.age + 2 - Len(pending'))
    <3>1. frames'[Len(frames) + i] = [slot |-> slots[i], age |-> 0]
      BY <1>7, <1>8
    <3> QED
      BY <3>1, PortSizes DEF AwayNext
  <2>3. ASSUME NEW i \in 1 .. Len(frames')
        PROVE  frames'[i].age <= Late /\ AwayNext(frames'[i], 2 * frames'[i].age + 2 - Len(pending'))
    <3>1. CASE i <= Len(frames)
      BY <1>2, <2>1, <3>1
    <3>2. CASE i > Len(frames)
      <4>1. i - Len(frames) \in 1 .. Len(slots) /\ Len(frames) + (i - Len(frames)) = i
        BY <1>2, <1>8, <3>2
      <4> QED
        BY <2>2, <4>1
    <3> QED
      BY <1>2, <1>8, <3>1, <3>2
  <2> QED
    BY <2>3 DEF OnTheWire, AwayNext, Away, Own
<1>10. /\ ring' \in Seq(Port!Frames) /\ Len(ring') = Len(ring)
       /\ \A i \in 1 .. Len(ring) : /\ ring'[i] \in Port!Frames
                                    /\ ring'[i].slot = ring[i].slot
                                    /\ ring'[i].age = ring[i].age + 1
  <2>1. \A i \in 1 .. Len(ring) : ring[i].age < Port!MaxAge
    <3> SUFFICES ASSUME NEW i \in 1 .. Len(ring) PROVE ring[i].age < Port!MaxAge
      OBVIOUS
    <3>1. ring[i].age + i <= Late + Descriptors + Slack
      BY DEF PortInv, InTheRing
    <3>2. Slack = 0
      BY <1>1 DEF Slack
    <3>3. ring[i].age \in Nat
      BY <1>2, FrameParts
    <3> QED
      BY <1>2, <3>1, <3>2, <3>3, PortSizes
  <2> QED
    BY <1>1, <1>2, <2>1, OlderFrames, ElementOfSeq
<1>11. InTheRing'
  <2>1. ASSUME NEW i \in 1 .. Len(ring)
        PROVE  /\ ring'[i].age + i <= Late + Descriptors + 1
               /\ AwayNext(ring'[i], 2 * Late + Descriptors + 2 - i)
    <3>1. /\ ring[i] \in Port!Frames /\ ring'[i] \in Port!Frames
          /\ ring'[i].slot = ring[i].slot /\ ring'[i].age = ring[i].age + 1
          /\ ring[i].age \in Nat /\ i \in Nat
      BY <1>2, <1>10, FrameParts
    <3>2. /\ ring[i].age + i <= Late + Descriptors + Slack
          /\ Away(ring[i], 2 * Late + Descriptors + 2 - i - Begun)
      BY <1>2, PortSizes DEF PortInv, InTheRing
    <3>3. Slack = 0 /\ Begun = 0
      BY <1>1, <1>4 DEF Slack
    <3>4. ring'[i].age + i <= Late + Descriptors + 1
      <4>1. \A x, y, l, d \in Nat : x + y <= l + d + 0 => x + 1 + y <= l + d + 1
        OBVIOUS
      <4>2. ring[i].age + i <= Late + Descriptors + 0 /\ Late \in Nat /\ Descriptors \in Nat
        BY <3>2, <3>3, PortSizes
      <4> QED
        BY <3>1, <4>1, <4>2
    <3>z. PICK k \in Int : /\ k = 2 * Late + Descriptors + 2 - i - Begun
                            /\ Away(ring[i], k)
      BY <3>1, <3>2, <3>3, PortSizes
    <3> DEFINE f == ring[i]
               g == ring'[i]
               n == 2 * Late + Descriptors + 2 - i
    <3>5. n \in Int /\ k <= n
      BY <3>1, <3>3, <3>z, PortSizes
    <3>6. Away(f, k)
      BY <3>z
    <3>7. /\ f \in Port!Frames /\ g \in Port!Frames
          /\ g.slot = f.slot /\ g.age = f.age + 1
      BY <3>1
    <3> HIDE DEF f, g, n
    <3>8. AwayNext(g, n)
      BY <1>5, <3>5, <3>6, <3>7
    <3>9. AwayNext(ring'[i], 2 * Late + Descriptors + 2 - i)
      BY <3>8 DEF g, n
    <3> QED
      BY <3>4, <3>9
  <2>4. Slack' = 1
    BY <1>1, <1>4 DEF Slack
  <2>2. \A i \in 1 .. Len(ring) : 2 * Late + Descriptors + 2 - i - 0 = 2 * Late + Descriptors + 2 - i
    BY <1>2, PortSizes
  <2>3. Len(ring) <= Descriptors /\ pending' # <<>>
    BY <1>1 DEF PortInv, InTheRing
  <2> QED
    BY <1>4, <1>10, <2>1, <2>2, <2>3, <2>4 DEF InTheRing, AwayNext, Away, Own
<1>12. PortTyped'
  <2>1. answer' \in 0 .. Port!NoAnswer /\ resends' \in 0 .. Attempts - 1 /\ polled' \in BOOLEAN
    <3>1. Port!NoAnswer \in Nat
      BY PortSizes
    <3>2. answer' \in 0 .. Port!NoAnswer
      BY <1>1, <3>1
    <3> QED
      BY <1>1, <3>2
  <2> QED
    BY <1>1, <1>3, <1>8, <1>10, <2>1 DEF PortInv, PortTyped
<1> QED
  BY <1>1, <1>9, <1>11, <1>12 DEF PortInv, InHand, Port!AnswerIsOwn

LEMMA PortSends ==
  ASSUME PortInv, Port!SendProcessData \/ Port!Access
  PROVE  PortInv'
<1> DEFINE a == Up(port.last)
           b == Up(a)
           one == [last |-> a, busy |-> {a}]
           two == [last |-> b, busy |-> {a, b}]
<1>1. /\ port \in [last : 0 .. Slots - 1, busy : SUBSET (0 .. Slots - 1)]
      /\ Attempts - 1 \in 0 .. Attempts - 1 /\ 0 \in 0 .. Attempts - 1
  BY PortSizes DEF PortInv, PortTyped
<1>2. pending = <<>> /\ port.busy = {}
  <2>1. pending = <<>>
    BY DEF Port!SendProcessData, Port!Access, Port!Begin, Port!Idle
  <2> QED
    BY <2>1 DEF PortInv, Awaited
<1>3. a \in 0 .. Slots - 1 /\ b \in 0 .. Slots - 1 /\ a # b
  BY <1>1, Circle
<1>4. Port!getindex(port) = one
  BY <1>1, <1>2, NextSlot
<1>5. Port!getindex(one) = two
  <2>1. one \in [last : 0 .. Slots - 1, busy : SUBSET (0 .. Slots - 1)]
        /\ Up(one.last) = b /\ b \notin one.busy
    BY <1>3
  <2> HIDE DEF b
  <2>2. Port!getindex(one) = [last |-> b, busy |-> {a} \cup {b}]
    BY <2>1, NextSlot
  <2> QED
    BY <2>2
<1>6. ASSUME NEW again \in 0 .. Attempts - 1, port' = one, Port!Begin(<<a>>, again)
      PROVE  PortInv'
  <2>1. /\ <<a>> \in Seq(0 .. Slots - 1) /\ Len(<<a>>) \in 1 .. 2 /\ Head(<<a>>) = a
        /\ \A i \in 1 .. Len(<<a>>) : <<a>>[i] \in port'.busy
    BY <1>3, <1>6
  <2>2. Awaited'
    <3>1. pending' = <<a>> /\ port'.last = a /\ port'.busy = {a}
      BY <1>6 DEF Port!Begin
    <3> QED
      BY <3>1 DEF Awaited
  <2>3. port' \in [last : 0 .. Slots - 1, busy : SUBSET (0 .. Slots - 1)]
    BY <1>3, <1>6
  <2> QED
    BY <1>6, <2>1, <2>2, <2>3, PortBegins
<1>7. ASSUME port' = two, Port!Begin(<<a, b>>, 0)
      PROVE  PortInv'
  <2>1. /\ <<a, b>> \in Seq(0 .. Slots - 1) /\ Len(<<a, b>>) \in 1 .. 2 /\ Head(<<a, b>>) = a
        /\ \A i \in 1 .. Len(<<a, b>>) : <<a, b>>[i] \in port'.busy
    BY <1>3, <1>7
  <2>2. Awaited'
    <3>1. pending' = <<a, b>> /\ port'.last = b /\ port'.busy = {a, b}
      BY <1>7 DEF Port!Begin
    <3> QED
      BY <1>3, <3>1 DEF Awaited
  <2>3. port' \in [last : 0 .. Slots - 1, busy : SUBSET (0 .. Slots - 1)]
    BY <1>3, <1>7
  <2> QED
    BY <1>1, <1>7, <2>1, <2>2, <2>3, PortBegins
<1>8. one.last = a /\ two.last = b
  OBVIOUS
<1> HIDE DEF a, b, one, two
<1> QED
  BY <1>1, <1>4, <1>5, <1>6, <1>7, <1>8 DEF Port!SendProcessData, Port!Access

(* A wait is over: the slot is given back, the next one is due.            *)
LEMMA WaitEnds ==
  ASSUME PortTyped, Awaited, pending # <<>>, NEW found, Port!EndWait(found),
         UNCHANGED since, held' = Port!None
  PROVE  /\ port' \in [last : 0 .. Slots - 1, busy : SUBSET (0 .. Slots - 1)]
         /\ Awaited' /\ Begun' = 0 /\ resends' \in 0 .. Attempts - 1 /\ polled' = FALSE
         /\ Len(pending) \in 1 .. 2 /\ Len(pending') = Len(pending) - 1
         /\ answer' = (IF found = Port!NoAnswer THEN answer ELSE found)
         /\ \A f \in Port!Frames : \A m \in 0 .. 2 * Late + Descriptors :
              Away(f, m) => AwayNext(f, m + 1)
<1>1. /\ port' = [port EXCEPT !.busy = @ \ {Head(pending)}]
      /\ pending' = Tail(pending) /\ polled' = FALSE /\ resends' = 0
      /\ port \in [last : 0 .. Slots - 1, busy : SUBSET (0 .. Slots - 1)]
  BY DEF Port!EndWait, PortTyped
<1>2. port'.last = port.last /\ port'.busy = port.busy \ {Head(pending)}
      /\ port' \in [last : 0 .. Slots - 1, busy : SUBSET (0 .. Slots - 1)]
  BY <1>1
<1>3. /\ Awaited' /\ Len(pending) \in 1 .. 2 /\ Len(pending') = Len(pending) - 1
      /\ Due \in 0 .. Slots - 1 /\ Due' = Up(Due)
      /\ port.busy \subseteq port'.busy \cup {Due}
  <2>1. CASE pending = <<port.last>> /\ port.busy = {port.last}
    <3>1. pending' = <<>> /\ port'.busy = {} /\ Head(pending) = port.last
      BY <1>1, <1>2, <2>1
    <3>2. Len(pending) = 1 /\ Len(pending') = 0
      BY <2>1, <3>1
    <3> QED
      BY <1>1, <1>2, <2>1, <3>1, <3>2 DEF Awaited, Due
  <2>2. ASSUME NEW s \in 0 .. Slots - 1, pending = <<s, port.last>>, port.last = Up(s),
               port.busy = {s, port.last}
        PROVE  <1>3
    <3>1. pending' = <<port.last>> /\ Head(pending) = s /\ Head(pending') = port.last
      BY <1>1, <2>2
    <3>2. Len(pending) = 2 /\ Len(pending') = 1
      BY <2>2, <3>1
    <3>3. port'.busy = {port.last}
      <4>1. port.last # s
        BY <2>2, Circle
      <4> QED
        BY <1>2, <2>2, <3>1, <4>1
    <3> QED
      BY <1>2, <2>2, <3>1, <3>2, <3>3 DEF Awaited, Due
  <2> QED
    BY <2>1, <2>2 DEF Awaited
<1>4. Begun' = 0 /\ 0 \in 0 .. Attempts - 1
  BY <1>1, PortSizes DEF Begun
<1>5. ASSUME NEW f \in Port!Frames, NEW m \in 0 .. 2 * Late + Descriptors, Away(f, m)
      PROVE  AwayNext(f, m + 1)
  <2>1. f.slot \in 0 .. Slots - 1 /\ f.age \in Nat
    BY FrameParts
  <2>2. CASE f.age >= since
    BY <2>2 DEF AwayNext
  <2>3. CASE f.age = 0 /\ f.slot \in port.busy
    <3>1. CASE f.slot \in port'.busy
      BY <2>3, <3>1 DEF AwayNext
    <3>2. CASE f.slot = Due
      <4>1. Gap(f.slot, Due') = 1
        BY <1>3, <2>1, <3>2, Circle
      <4>2. 1 \in 1 .. m + 1
        BY PortSizes
      <4> QED
        BY <4>1, <4>2 DEF AwayNext
    <3> QED
      BY <1>3, <2>3, <3>1, <3>2
  <2>4. CASE Gap(f.slot, Due) \in 1 .. m
    <3>1. Gap(f.slot, Due) < Slots - 1
      BY <2>4, PortSizes
    <3>2. Gap(f.slot, Due') = Gap(f.slot, Due) + 1
      BY <1>3, <2>1, <3>1, Circle
    <3>3. Gap(f.slot, Due) + 1 \in 1 .. m + 1
      <4>1. m \in Nat
        BY PortSizes
      <4> QED
        BY <2>4, <4>1
    <3> QED
      BY <3>2, <3>3 DEF AwayNext
  <2> QED
    BY <1>5, <2>2, <2>3, <2>4 DEF Away, Own
<1> QED
  BY <1>1, <1>2, <1>3, <1>4, <1>5 DEF Port!EndWait

LEMMA AwayKept ==
  ASSUME NEW f, NEW m \in Int, NEW n \in Int, m <= n, Away(f, m),
         UNCHANGED <<since, port, pending>>
  PROVE  AwayNext(f, n)
<1>1. Due' = Due /\ since' = since /\ port' = port
  BY DEF Due
<1>2. CASE Gap(f.slot, Due) \in 1 .. m
  BY <1>1, <1>2 DEF AwayNext
<1> QED
  BY <1>1, <1>2 DEF AwayNext, Away, Own

LEMMA Frontmost ==
  ASSUME NEW q \in Seq(Port!Frames), q # <<>>
  PROVE  /\ Len(q) \in Nat \ {0} /\ Head(q) = q[1] /\ Head(q) \in Port!Frames
         /\ Tail(q) \in Seq(Port!Frames) /\ Len(Tail(q)) = Len(q) - 1
         /\ \A i \in 1 .. Len(Tail(q)) : i + 1 \in 1 .. Len(q) /\ Tail(q)[i] = q[i + 1]
<1>1. /\ Len(q) \in Nat \ {0} /\ Head(q) \in Port!Frames /\ Tail(q) \in Seq(Port!Frames)
      /\ Len(Tail(q)) = Len(q) - 1 /\ \A i \in 1 .. Len(Tail(q)) : Tail(q)[i] = q[i + 1]
  BY HeadTailProperties, EmptySeq
<1>2. Head(q) = q[1]
  OBVIOUS
<1>3. \A i \in 1 .. Len(Tail(q)) : i + 1 \in 1 .. Len(q)
  BY <1>1
<1> QED
  BY <1>1, <1>2, <1>3

LEMMA PortKnown ==
  ASSUME PortInv
  PROVE  /\ frames \in Seq(Port!Frames) /\ ring \in Seq(Port!Frames)
         /\ Len(frames) \in Nat /\ Len(ring) \in Nat /\ Len(ring) <= Descriptors
         /\ \A i \in 1 .. Len(frames) : frames[i] \in Port!Frames /\ frames[i].age \in 0 .. Late
         /\ \A i \in 1 .. Len(ring) : ring[i] \in Port!Frames /\ ring[i].age \in Nat
         /\ Len(pending) \in 0 .. 2 /\ Begun \in 0 .. 1 /\ Slack \in 0 .. 1
         /\ Begun <= Len(pending)
<1>1. /\ frames \in Seq(Port!Frames) /\ ring \in Seq(Port!Frames)
      /\ Len(frames) \in Nat /\ Len(ring) \in Nat /\ Len(ring) <= Descriptors
      /\ \A i \in 1 .. Len(frames) : frames[i] \in Port!Frames /\ frames[i].age <= Late
      /\ \A i \in 1 .. Len(ring) : ring[i] \in Port!Frames
  BY LenProperties, ElementOfSeq DEF PortInv, PortTyped, OnTheWire, InTheRing
<1>2. /\ \A i \in 1 .. Len(frames) : frames[i].age \in 0 .. Late
      /\ \A i \in 1 .. Len(ring) : ring[i].age \in Nat
  BY <1>1, FrameParts, PortSizes
<1>5. Len(pending) \in 0 .. 2 /\ Begun \in 0 .. 1 /\ Begun <= Len(pending)
  <2>1. CASE pending = <<>> /\ held = Port!None /\ ~polled
    BY <2>1 DEF Begun
  <2>2. CASE pending = <<port.last>> \/ \E s \in 0 .. Slots - 1 : pending = <<s, port.last>>
    <3>1. Len(pending) \in 1 .. 2
      BY <2>2
    <3> QED
      BY <3>1 DEF Begun
  <2> QED
    BY <2>1, <2>2 DEF PortInv, Awaited
<1>6. Slack \in 0 .. 1
  BY DEF Slack
<1> QED
  BY <1>1, <1>2, <1>5, <1>6

(* A frame is read: those behind it move up by one descriptor.             *)
LEMMA PortReads == PortInv /\ Port!ReadData => PortInv'
<1> SUFFICES ASSUME PortInv, Port!ReadData PROVE PortInv'
  OBVIOUS
<1>1. /\ pending # <<>> /\ held = Port!None
      /\ UNCHANGED <<port, pending, resends, frames, answer, since>>
  BY DEF Port!ReadData, Port!Idle
<1>2. Awaited' /\ Port!AnswerIsOwn'
  BY <1>1 DEF PortInv, Awaited, Port!AnswerIsOwn
<1>3. OnTheWire'
  <2>1. Due' = Due
    BY <1>1 DEF Due
  <2> QED
    BY <1>1, <2>1 DEF PortInv, OnTheWire, Away, Own
<1>4. CASE ring = <<>> /\ polled' = TRUE /\ UNCHANGED <<ring, held>>
  <2>1. PortTyped'
    BY <1>1, <1>4 DEF PortInv, PortTyped
  <2>2. InTheRing'
    <3>1. Len(ring') = 0 /\ ring' = ring
      BY <1>4
    <3> QED
      BY <3>1 DEF PortInv, InTheRing
  <2>3. InHand'
    BY <1>1, <1>4 DEF InHand
  <2> QED
    BY <1>2, <1>3, <2>1, <2>2, <2>3 DEF PortInv
<1>5. CASE ring # <<>> /\ held' = Head(ring) /\ ring' = Tail(ring) /\ UNCHANGED polled
  <2>1. /\ Len(ring) \in Nat \ {0} /\ held' = ring[1] /\ held' \in Port!Frames
        /\ ring' \in Seq(Port!Frames) /\ Len(ring') = Len(ring) - 1
        /\ \A i \in 1 .. Len(ring') : i + 1 \in 1 .. Len(ring) /\ ring'[i] = ring[i + 1]
    BY <1>5, Frontmost, PortKnown
  <2>2. Begun' = 1 /\ Slack' = 0 /\ held' # Port!None
    BY <2>1, FrameParts DEF Begun, Slack
  <2>3. /\ Begun \in 0 .. 1 /\ Slack \in 0 .. 1 /\ Len(ring) <= Descriptors
        /\ \A i \in 1 .. Len(ring) : ring[i] \in Port!Frames /\ ring[i].age \in Nat
        /\ Late \in Nat /\ Descriptors \in Nat
    BY PortKnown, PortSizes
  <2>4. PortTyped'
    BY <1>1, <1>5, <2>1 DEF PortInv, PortTyped
  <2>5. \A i \in 1 .. Len(ring) :
          /\ ring[i].age + i <= Late + Descriptors + Slack
          /\ Away(ring[i], 2 * Late + Descriptors + 2 - i - Begun)
    BY DEF PortInv, InTheRing
  <2>6. held'.age <= Late + Descriptors
    <3>1. ring[1].age + 1 <= Late + Descriptors + Slack /\ ring[1].age \in Nat
      BY <2>1, <2>3, <2>5
    <3> QED
      BY <2>1, <2>3, <3>1
  <2>7. AwayNext(held', 2 * Late + Descriptors + 1)
    <3> DEFINE m == 2 * Late + Descriptors + 2 - 1 - Begun
               n == 2 * Late + Descriptors + 1
    <3>1. m \in Int /\ n \in Int /\ m <= n
      BY <2>3
    <3>2. Away(ring[1], m)
      BY <2>1, <2>5
    <3> HIDE DEF m, n
    <3>3. AwayNext(ring[1], n)
      BY <1>1, <3>1, <3>2, AwayKept
    <3> QED
      BY <2>1, <3>3 DEF n
  <2>8. ASSUME NEW i \in 1 .. Len(ring')
        PROVE  /\ ring'[i].age + i <= Late + Descriptors
               /\ AwayNext(ring'[i], 2 * Late + Descriptors + 2 - i - 1)
    <3> DEFINE j == i + 1
               m == 2 * Late + Descriptors + 2 - j - Begun
               n == 2 * Late + Descriptors + 2 - i - 1
    <3>1. j \in 1 .. Len(ring) /\ ring'[i] = ring[j] /\ i \in Nat
      BY <2>1
    <3>2. m \in Int /\ n \in Int /\ m <= n
      BY <2>3, <3>1
    <3>3. ring[j].age + j <= Late + Descriptors + Slack /\ Away(ring[j], m) /\ ring[j].age \in Nat
      BY <2>3, <2>5, <3>1
    <3>4. ring[j].age + i <= Late + Descriptors
      <4>1. \A x, y, c \in Nat : \A k \in 0 .. 1 : x + (y + 1) <= c + k => x + y <= c
        OBVIOUS
      <4>2. Late + Descriptors \in Nat /\ ring[j].age + (i + 1) <= (Late + Descriptors) + Slack
        BY <2>3, <3>3
      <4> QED
        BY <2>3, <3>1, <3>3, <4>1, <4>2
    <3> HIDE DEF m, n, j
    <3>5. AwayNext(ring[j], n)
      BY <1>1, <3>2, <3>3, AwayKept
    <3> QED
      BY <3>1, <3>4, <3>5 DEF n
  <2>9. InTheRing'
    <3>1. Len(ring') <= Descriptors
      BY <2>1, <2>3
    <3>2. \A i \in 1 .. Len(ring') : ring'[i].age + i <= Late + Descriptors + Slack'
      <4>1. Late + Descriptors + Slack' = Late + Descriptors
        BY <2>2, <2>3
      <4> QED
        BY <2>8, <4>1
    <3> QED
      BY <2>2, <2>8, <3>1, <3>2 DEF InTheRing, AwayNext, Away, Own
  <2>10. InHand'
    BY <2>6, <2>7 DEF InHand, AwayNext, Away, Own
  <2> QED
    BY <1>2, <1>3, <2>4, <2>9, <2>10 DEF PortInv
<1> QED
  BY <1>4, <1>5 DEF Port!ReadData

(* The end of a wait keeps the rest: what is behind the slot that is given *)
(* back is behind the next one by one more.                                *)
LEMMA WaitIsOver ==
  ASSUME PortInv, pending # <<>>, Begun = 1, NEW found \in 0 .. Port!NoAnswer,
         found \in {0, Port!NoAnswer} \/ found >= since,
         Port!EndWait(found), UNCHANGED <<since, frames, ring>>, held' = Port!None
  PROVE  PortInv'
<1>1. /\ port' \in [last : 0 .. Slots - 1, busy : SUBSET (0 .. Slots - 1)]
      /\ Awaited' /\ Begun' = 0 /\ resends' \in 0 .. Attempts - 1 /\ polled' = FALSE
      /\ Len(pending) \in 1 .. 2 /\ Len(pending') = Len(pending) - 1
      /\ answer' = (IF found = Port!NoAnswer THEN answer ELSE found)
      /\ \A f \in Port!Frames : \A m \in 0 .. 2 * Late + Descriptors :
           Away(f, m) => AwayNext(f, m + 1)
  BY WaitEnds DEF PortInv
<1>2. /\ \A i \in 1 .. Len(frames) : frames[i] \in Port!Frames /\ frames[i].age \in 0 .. Late
      /\ \A i \in 1 .. Len(ring) : ring[i] \in Port!Frames /\ ring[i].age \in Nat
      /\ Len(ring) \in Nat /\ Len(ring) <= Descriptors
  BY PortKnown
<1>3. Late \in Nat /\ Descriptors \in Nat \ {0}
  BY PortSizes
<1>4. PortTyped'
  <2>1. answer' \in 0 .. Port!NoAnswer
    BY <1>1 DEF PortInv, PortTyped
  <2> QED
    BY <1>1, <2>1 DEF PortInv, PortTyped
<1>5. OnTheWire'
  <2>1. ASSUME NEW i \in 1 .. Len(frames)
        PROVE  frames[i].age <= Late /\ AwayNext(frames[i], 2 * frames[i].age + 2 - Len(pending'))
    <3> DEFINE f == frames[i]
               m == 2 * f.age + 2 - Len(pending)
               n == 2 * f.age + 2 - Len(pending')
    <3>1. f \in Port!Frames /\ f.age \in 0 .. Late
      BY <1>2
    <3>2. f.age <= Late /\ Away(f, m)
      BY DEF PortInv, OnTheWire
    <3>3. m \in 0 .. 2 * Late + Descriptors /\ n = m + 1
      <4>1. \A x, l, c \in Nat : \A p \in 1 .. 2 : x <= l /\ c >= 1 =>
              /\ 2 * x + 2 - p \in 0 .. 2 * l + c
              /\ 2 * x + 2 - (p - 1) = (2 * x + 2 - p) + 1
        OBVIOUS
      <4>2. f.age \in Nat /\ f.age <= Late /\ Descriptors \in Nat /\ Descriptors >= 1
        BY <1>3, <3>1
      <4> HIDE DEF f
      <4>3. PICK p \in 1 .. 2 : p = Len(pending) /\ p - 1 = Len(pending')
        BY <1>1
      <4>4. 2 * f.age + 2 - p \in 0 .. 2 * Late + Descriptors
        BY <1>3, <4>1, <4>2
      <4>5. 2 * f.age + 2 - (p - 1) = (2 * f.age + 2 - p) + 1
        BY <1>3, <4>1, <4>2
      <4> QED
        BY <4>3, <4>4, <4>5
    <3> HIDE DEF f, m, n
    <3>4. AwayNext(f, n)
      BY <1>1, <3>1, <3>2, <3>3
    <3> QED
      BY <3>2, <3>4 DEF f, n
  <2> QED
    BY <2>1 DEF OnTheWire, AwayNext, Away, Own
<1>6. InTheRing'
  <2>1. ASSUME NEW i \in 1 .. Len(ring)
        PROVE  /\ ring[i].age + i <= Late + Descriptors
               /\ AwayNext(ring[i], 2 * Late + Descriptors + 2 - i)
    <3> DEFINE f == ring[i]
               m == 2 * Late + Descriptors + 2 - i - Begun
               n == 2 * Late + Descriptors + 2 - i
    <3>1. f \in Port!Frames /\ i \in Nat \ {0} /\ i <= Descriptors /\ f.age \in Nat
      BY <1>2, <1>3
    <3>2. f.age + i <= Late + Descriptors + Slack /\ Away(f, m)
      BY DEF PortInv, InTheRing
    <3>3. Slack = 0
      BY DEF Slack
    <3>4. f.age + i <= Late + Descriptors
      <4>1. Late + Descriptors + Slack = Late + Descriptors
        BY <1>3, <3>3
      <4> QED
        BY <3>2, <4>1
    <3>5. m \in 0 .. 2 * Late + Descriptors /\ n = m + 1
      <4>1. \A l, c \in Nat : \A x \in Nat \ {0} : x <= c =>
              /\ 2 * l + c + 2 - x - 1 \in 0 .. 2 * l + c
              /\ 2 * l + c + 2 - x = (2 * l + c + 2 - x - 1) + 1
        OBVIOUS
      <4> QED
        BY <1>3, <3>1, <4>1
    <3> HIDE DEF f, m, n
    <3>6. AwayNext(f, n)
      BY <1>1, <3>1, <3>2, <3>5
    <3> QED
      BY <3>4, <3>6 DEF f, n
  <2>2. \A i \in 1 .. Len(ring) :
          /\ ring[i].age + i <= Late + Descriptors + Slack'
          /\ 2 * Late + Descriptors + 2 - i - 0 = 2 * Late + Descriptors + 2 - i
    <3>1. Slack' \in 0 .. 1
      BY <1>1 DEF Slack
    <3>2. \A x, y, c \in Nat : \A k \in 0 .. 1 : x + y <= c => x + y <= c + k
      OBVIOUS
    <3>3. Late + Descriptors \in Nat /\ \A i \in 1 .. Len(ring) : i \in Nat
      BY <1>3
    <3>4. \A i \in 1 .. Len(ring) : ring[i].age + i <= Late + Descriptors
      BY <2>1
    <3> QED
      BY <1>2, <1>3, <3>1, <3>2, <3>3, <3>4
  <2> QED
    BY <1>1, <1>2, <2>1, <2>2 DEF InTheRing, AwayNext, Away, Own
<1>7. InHand' /\ Port!AnswerIsOwn'
  BY <1>1 DEF PortInv, InHand, Port!AnswerIsOwn
<1> QED
  BY <1>1, <1>4, <1>5, <1>6, <1>7 DEF PortInv

(* The frame that is copied may be a newer one than the frame read, and is *)
(* as far from its slot.                                                   *)
LEMMA PortTakes == PortInv /\ Port!TakeFrame => PortInv'
<1> SUFFICES ASSUME PortInv, Port!TakeFrame PROVE PortInv'
  OBVIOUS
<1> DEFINE c == Port!Copied
<1>1. /\ held # Port!None /\ held' = Port!None /\ UNCHANGED <<frames, ring, since>>
      /\ Begun = 1 /\ pending # <<>>
  <2>1. held # Port!None
    BY DEF Port!TakeFrame
  <2>2. pending # <<>>
    BY <2>1 DEF PortInv, Awaited
  <2> QED
    BY <2>1, <2>2 DEF Port!TakeFrame, Begun
<1>2. c \in Port!Frames /\ c.age <= Late + Descriptors /\ Away(c, 2 * Late + Descriptors + 1)
  <2>1. CASE Len(ring) = Descriptors
    <3>1. c = ring[Descriptors] /\ Descriptors \in 1 .. Len(ring)
      BY <2>1, PortSizes DEF Port!Copied
    <3>2. /\ c \in Port!Frames /\ c.age \in Nat /\ c.age + Descriptors <= Late + Descriptors + Slack
          /\ Away(c, 2 * Late + Descriptors + 2 - Descriptors - Begun)
      BY <3>1, PortKnown DEF PortInv, InTheRing
    <3>3. Slack = 0
      BY <1>1 DEF Slack
    <3>4. c.age <= Late + Descriptors
      BY <3>2, <3>3, PortSizes
    <3> DEFINE m == 2 * Late + Descriptors + 2 - Descriptors - Begun
               n == 2 * Late + Descriptors + 1
    <3>5. m \in Int /\ n \in Int /\ m <= n
      BY <1>1, PortSizes
    <3>6. Away(c, m)
      BY <3>2
    <3> HIDE DEF m, n, c
    <3>7. Away(c, n)
      BY <3>5, <3>6 DEF Away
    <3> QED
      BY <3>2, <3>4, <3>7 DEF n
  <2>2. CASE Len(ring) # Descriptors
    BY <1>1, <2>2 DEF Port!Copied, PortInv, PortTyped, InHand
  <2> QED
    BY <2>1, <2>2
<1>3. CASE Port!Matches(c)
  <2>1. Port!EndWait(c.age) /\ c.slot = Due
    BY <1>1, <1>3 DEF Port!TakeFrame, Port!Matches, Due
  <2>2. c.age \in 0 .. Port!NoAnswer /\ c.slot \in 0 .. Slots - 1
    BY <1>2, FrameParts, PortSizes
  <2>3. c.age = 0 \/ c.age >= since
    <3>1. Gap(c.slot, Due) = 0
      BY <2>1, <2>2, Circle
    <3>2. 0 \notin 1 .. 2 * Late + Descriptors + 1
      OBVIOUS
    <3> QED
      BY <1>2, <3>1, <3>2 DEF Away, Own
  <2> HIDE DEF c
  <2> QED
    BY <1>1, <2>1, <2>2, <2>3, WaitIsOver
<1>4. CASE ~Port!Matches(c)
  <2>1. polled' = TRUE /\ UNCHANGED <<port, pending, resends, answer>>
    BY <1>4 DEF Port!TakeFrame
  <2>2. PortTyped' /\ Awaited' /\ Port!AnswerIsOwn' /\ InHand'
    BY <1>1, <2>1 DEF PortInv, PortTyped, Awaited, Port!AnswerIsOwn, InHand
  <2>3. Due' = Due /\ Begun' = Begun /\ Slack' = Slack
    BY <1>1, <2>1 DEF Due, Begun, Slack
  <2>4. OnTheWire' /\ InTheRing'
    BY <1>1, <2>1, <2>3 DEF PortInv, OnTheWire, InTheRing, Away, Own
  <2> QED
    BY <2>2, <2>4 DEF PortInv
<1> QED
  BY <1>3, <1>4

(* The timer has run out: the request is sent again, or the wait is over.  *)
LEMMA PortExpires == PortInv /\ Port!Expire => PortInv'
<1> SUFFICES ASSUME PortInv, Port!Expire PROVE PortInv'
  OBVIOUS
<1>1. /\ pending # <<>> /\ held = Port!None /\ held' = Port!None /\ Begun = 1
      /\ UNCHANGED <<ring, since>> /\ Slack = 0
  BY DEF Port!Expire, Port!Idle, Begun, Slack
<1>2. CASE Port!EndWait(Port!NoAnswer) /\ UNCHANGED frames
  <2>1. Port!NoAnswer \in 0 .. Port!NoAnswer
    BY PortSizes
  <2> QED
    BY <1>1, <1>2, <2>1, WaitIsOver
<1>3. CASE /\ resends > 0 /\ resends' = resends - 1
           /\ frames' = frames \o Port!Sent(<<Head(pending)>>) /\ polled' = FALSE
           /\ UNCHANGED <<port, pending, answer>>
  <2> DEFINE h == Head(pending)
             z == Port!Sent(<<h>>)
             e == [slot |-> h, age |-> 0]
  <2>1. h \in 0 .. Slots - 1 /\ h \in port.busy
    <3>1. port.last \in 0 .. Slots - 1
      BY DEF PortInv, PortTyped
    <3> QED
      BY <1>1, <3>1 DEF PortInv, Awaited
  <2>2. z \in Seq(Port!Frames) /\ Len(z) = 1 /\ z[1] = e
    <3> HIDE DEF h
    <3> DEFINE q == <<h>>
    <3>1. q \in Seq(0 .. Slots - 1) /\ Len(q) = 1 /\ q[1] = h
      BY <2>1
    <3>2. z = Port!Sent(q)
      OBVIOUS
    <3> HIDE DEF q, z
    <3>3. /\ Port!Sent(q) \in Seq(Port!Frames) /\ Len(Port!Sent(q)) = Len(q)
          /\ \A i \in 1 .. Len(q) : Port!Sent(q)[i] = [slot |-> q[i], age |-> 0]
      BY <3>1, SentFrames
    <3>4. 1 \in 1 .. Len(q)
      BY <3>1
    <3> QED
      BY <3>1, <3>2, <3>3, <3>4
  <2> HIDE DEF z
  <2>3. /\ frames \in Seq(Port!Frames) /\ Len(frames) \in Nat
        /\ \A i \in 1 .. Len(frames) : frames[i] \in Port!Frames /\ frames[i].age \in 0 .. Late
    BY PortKnown
  <2>4. frames' \in Seq(Port!Frames) /\ Len(frames') = Len(frames) + 1
        /\ \A i \in 1 .. Len(frames') :
             frames'[i] = IF i <= Len(frames) THEN frames[i] ELSE z[i - Len(frames)]
    <3>1. frames' = frames \o z
      BY <1>3 DEF z
    <3>2. /\ frames \o z \in Seq(Port!Frames) /\ Len(frames \o z) = Len(frames) + Len(z)
          /\ \A i \in 1 .. Len(frames) + Len(z) :
               (frames \o z)[i] = IF i <= Len(frames) THEN frames[i] ELSE z[i - Len(frames)]
      BY <2>2, <2>3, ConcatProperties
    <3> QED
      BY <2>2, <3>1, <3>2
  <2>5. OnTheWire'
    <3>1. ASSUME NEW i \in 1 .. Len(frames')
          PROVE  frames'[i].age <= Late /\ AwayNext(frames'[i], 2 * frames'[i].age + 2 - Len(pending'))
      <4>1. CASE i <= Len(frames)
        <5>1. i \in 1 .. Len(frames) /\ frames'[i] = frames[i]
          BY <2>3, <2>4, <4>1
        <5> QED
          BY <1>1, <1>3, <5>1 DEF PortInv, OnTheWire, Away, AwayNext, Own, Due
      <4>2. CASE i = Len(frames) + 1
        <5>1. frames'[i] = e
          BY <2>2, <2>3, <2>4, <4>2
        <5> QED
          BY <1>3, <2>1, <5>1, PortSizes DEF AwayNext
      <4> QED
        BY <2>3, <2>4, <4>1, <4>2
    <3> QED
      BY <3>1 DEF OnTheWire, AwayNext, Away, Own
  <2>6. InTheRing'
    <3>1. Begun' = 0 /\ Slack' = 1
      BY <1>1, <1>3 DEF Begun, Slack
    <3>2. ASSUME NEW i \in 1 .. Len(ring)
          PROVE  /\ ring[i].age + i <= Late + Descriptors + 1
                 /\ AwayNext(ring[i], 2 * Late + Descriptors + 2 - i - 0)
      <4> DEFINE m == 2 * Late + Descriptors + 2 - i - Begun
                 n == 2 * Late + Descriptors + 2 - i - 0
      <4>1. ring[i].age + i <= Late + Descriptors + 0 /\ Away(ring[i], m)
        BY <1>1 DEF PortInv, InTheRing
      <4>2. m \in Int /\ n \in Int /\ m <= n /\ Late + Descriptors \in Nat
        BY <1>1, PortKnown, PortSizes
      <4>3. ring[i].age \in Nat /\ i \in Nat
        BY PortKnown
      <4>4. ring[i].age + i <= Late + Descriptors + 1
        BY <4>1, <4>2, <4>3
      <4> HIDE DEF m, n
      <4>5. AwayNext(ring[i], n)
        BY <1>1, <1>3, <4>1, <4>2, AwayKept
      <4> QED
        BY <4>4, <4>5 DEF n
    <3> QED
      BY <1>1, <3>1, <3>2 DEF PortInv, InTheRing, AwayNext, Away, Own
  <2>7. PortTyped'
    <3>1. resends' \in 0 .. Attempts - 1
      BY <1>3, PortSizes DEF PortInv, PortTyped
    <3> QED
      BY <1>1, <1>3, <2>4, <3>1 DEF PortInv, PortTyped
  <2> QED
    BY <1>1, <1>3, <2>5, <2>6, <2>7 DEF PortInv, Awaited, InHand, Port!AnswerIsOwn
<1> QED
  BY <1>2, <1>3 DEF Port!Expire

(* Frames from before the port was set up again are nobody's to refuse.    *)
LEMMA PortRestarts == PortInv /\ Port!Restart => PortInv'
<1> SUFFICES ASSUME PortInv, Port!Restart PROVE PortInv'
  OBVIOUS
<1>1. /\ pending = <<>> /\ port' = [last |-> 0, busy |-> {}] /\ since' = 0
      /\ UNCHANGED <<pending, resends, polled, frames, ring, held, answer>>
  BY DEF Port!Restart, Port!Idle, Port!SetUp
<1>2. PortTyped'
  <2>1. 0 \in 0 .. Slots - 1 /\ 0 \in 0 .. Port!MaxAge
    BY PortSizes
  <2> QED
    BY <1>1, <2>1 DEF PortInv, PortTyped
<1>3. Awaited' /\ held = Port!None /\ ~polled
  BY <1>1 DEF PortInv, Awaited
<1>4. /\ \A i \in 1 .. Len(frames) : frames[i].age >= since'
      /\ \A i \in 1 .. Len(ring) : ring[i].age >= since'
  BY <1>1, PortKnown
<1>5. OnTheWire' /\ InTheRing'
  <2>1. Slack' = Slack
    BY <1>1 DEF Slack, Begun
  <2> QED
    BY <1>1, <1>4, <2>1 DEF PortInv, OnTheWire, InTheRing, Away, Own
<1>6. InHand' /\ Port!AnswerIsOwn'
  BY <1>1, <1>3 DEF PortInv, PortTyped, InHand, Port!AnswerIsOwn
<1> QED
  BY <1>2, <1>3, <1>5, <1>6 DEF PortInv

(* The oldest answer comes in behind the frames of the ring, or is lost.   *)
LEMMA PortArrives == PortInv /\ Port!Arrive => PortInv'
<1> SUFFICES ASSUME PortInv, Port!Arrive PROVE PortInv'
  OBVIOUS
<1>1. /\ frames # <<>> /\ frames' = Tail(frames)
      /\ UNCHANGED <<port, pending, resends, polled, held, answer, since>>
  BY DEF Port!Arrive
<1>2. Due' = Due /\ Begun' = Begun /\ Slack' = Slack
  BY <1>1 DEF Due, Begun, Slack
<1>3. /\ Len(frames) \in Nat \ {0} /\ Head(frames) = frames[1] /\ Head(frames) \in Port!Frames
      /\ frames' \in Seq(Port!Frames)
      /\ \A i \in 1 .. Len(frames') : i + 1 \in 1 .. Len(frames) /\ frames'[i] = frames[i + 1]
  BY <1>1, PortKnown, Frontmost
<1>4. OnTheWire'
  BY <1>1, <1>2, <1>3 DEF PortInv, OnTheWire, Away, Own
<1>5. Awaited' /\ InHand' /\ Port!AnswerIsOwn'
  BY <1>1, <1>2 DEF PortInv, Awaited, InHand, Away, Own, Port!AnswerIsOwn
<1>6. CASE UNCHANGED ring
  <2>1. InTheRing'
    BY <1>1, <1>2, <1>6 DEF PortInv, InTheRing, Away, Own
  <2>2. PortTyped'
    BY <1>1, <1>3, <1>6 DEF PortInv, PortTyped
  <2> QED
    BY <1>4, <1>5, <2>1, <2>2 DEF PortInv
<1>7. CASE Len(ring) < Descriptors /\ ring' = Append(ring, Head(frames))
  <2> DEFINE f == Head(frames)
             k == Len(ring) + 1
             m == 2 * f.age + 2 - Len(pending)
             n == 2 * Late + Descriptors + 2 - k - Begun
  <2>1. /\ ring' \in Seq(Port!Frames) /\ Len(ring') = k /\ ring'[k] = f
        /\ \A i \in 1 .. Len(ring) : ring'[i] = ring[i]
    BY <1>3, <1>7, PortKnown, AppendProperties
  <2>2. /\ f.age \in 0 .. Late /\ Late \in Nat /\ Descriptors \in Nat /\ Len(ring) \in Nat
        /\ Len(pending) \in 0 .. 2 /\ Begun \in 0 .. 1 /\ Slack \in 0 .. 1 /\ Begun <= Len(pending)
    BY <1>3, PortKnown, PortSizes
  <2>3. k <= Descriptors /\ k \in Nat
    BY <1>7, <2>2
  <2>4. m \in Int /\ n \in Int /\ m <= n
    <3>1. \A x, l, c, y \in Nat : \A p \in 0 .. 2 : \A b \in 0 .. 1 :
            x <= l /\ y <= c /\ b <= p => 2 * x + 2 - p <= 2 * l + c + 2 - y - b
      OBVIOUS
    <3>2. f.age \in Nat /\ f.age <= Late
      BY <2>2
    <3> QED
      BY <2>2, <2>3, <3>1, <3>2
  <2>5. f.age + k <= Late + Descriptors + Slack
    BY <2>2, <2>3
  <2>6. Away(f, m)
    BY <1>3 DEF PortInv, OnTheWire
  <2> HIDE DEF f, k, m, n
  <2>7. AwayNext(f, n)
    BY <1>1, <2>4, <2>6, AwayKept
  <2>8. ASSUME NEW i \in 1 .. Len(ring')
        PROVE  /\ ring'[i].age + i <= Late + Descriptors + Slack
               /\ AwayNext(ring'[i], 2 * Late + Descriptors + 2 - i - Begun)
    <3>1. CASE i = k
      BY <2>1, <2>5, <2>7, <3>1 DEF n
    <3>2. CASE i \in 1 .. Len(ring)
      <4>1. ring'[i] = ring[i]
        BY <2>1, <3>2
      <4> QED
        BY <1>1, <1>2, <3>2, <4>1 DEF PortInv, InTheRing, Away, AwayNext, Own
    <3> QED
      BY <2>1, <2>2, <3>1, <3>2 DEF k
  <2>9. InTheRing'
    BY <1>2, <2>1, <2>3, <2>8 DEF InTheRing, AwayNext, Away, Own
  <2>10. PortTyped'
    BY <1>1, <1>3, <2>1 DEF PortInv, PortTyped
  <2> QED
    BY <1>4, <1>5, <2>9, <2>10 DEF PortInv
<1> QED
  BY <1>6, <1>7 DEF Port!Arrive

(* What the port promises of a state the invariant holds in.               *)
LEMMA PortKeepsFaith == PortInv => Port!PortSafe
<1> SUFFICES ASSUME PortInv PROVE Port!PortSafe
  OBVIOUS
<1>1. port.last \in 0 .. Slots - 1
  BY DEF PortInv, PortTyped
<1>2. /\ pending \in Seq(0 .. Slots - 1) /\ Len(pending) <= 2 /\ port.busy = Port!Range(pending)
      /\ Cardinality(port.busy) = Len(pending)
  <2>1. CASE pending = <<>> /\ port.busy = {}
    <3>1. Len(pending) = 0 /\ pending \in Seq(0 .. Slots - 1) /\ Port!Range(pending) = {}
      BY <2>1 DEF Port!Range
    <3> QED
      BY <2>1, <3>1, FS_EmptySet
  <2>2. CASE pending = <<port.last>> /\ port.busy = {port.last}
    <3>1. /\ Len(pending) = 1 /\ pending \in Seq(0 .. Slots - 1) /\ DOMAIN pending = 1 .. 1
          /\ pending[1] = port.last
      BY <1>1, <2>2
    <3>2. Port!Range(pending) = {port.last}
      BY <3>1 DEF Port!Range
    <3> QED
      BY <2>2, <3>1, <3>2, FS_Singleton
  <2>3. ASSUME NEW s \in 0 .. Slots - 1, pending = <<s, port.last>>, port.last = Up(s),
               port.busy = {s, port.last}
        PROVE  <1>2
    <3>1. /\ Len(pending) = 2 /\ pending \in Seq(0 .. Slots - 1) /\ DOMAIN pending = 1 .. 2
          /\ pending[1] = s /\ pending[2] = port.last
      BY <1>1, <2>3
    <3>2. Port!Range(pending) = {s, port.last}
      <4>1. Port!Range(pending) = {pending[i] : i \in 1 .. 2}
        BY <3>1 DEF Port!Range
      <4> QED
        BY <3>1, <4>1
    <3>3. s # port.last
      BY <2>3, Circle
    <3>4. Cardinality({s, port.last}) = 2
      <4>1. IsFiniteSet({s}) /\ Cardinality({s}) = 1
        BY FS_Singleton
      <4>2. Cardinality({s} \cup {port.last}) = Cardinality({s}) + 1
        BY <3>3, <4>1, FS_AddElement
      <4>3. {s, port.last} = {s} \cup {port.last}
        OBVIOUS
      <4> QED
        BY <4>1, <4>2, <4>3
    <3> QED
      BY <2>3, <3>1, <3>2, <3>4
  <2> QED
    BY <2>1, <2>2, <2>3 DEF PortInv, Awaited
<1>3. Port!SlotsReturned
  <2>1. Port!Cardinality(port.busy) = Cardinality(port.busy)
    BY DEF Port!Cardinality, Cardinality
  <2> QED
    BY <1>2, <2>1 DEF Port!SlotsReturned
<1>5. Port!AnswerIsOwn
  BY DEF PortInv
<1>4. Port!TypeOK
  BY <1>2 DEF PortInv, PortTyped, Port!TypeOK
<1> QED
  BY <1>3, <1>4, <1>5 DEF Port!PortSafe

LEMMA PortIsSafe == Port!Init /\ [][Port!Next]_(Port!vars) => []Port!PortSafe
<1>1. PortInv /\ [Port!Next]_(Port!vars) => PortInv'
  <2>1. PortInv /\ UNCHANGED Port!vars => PortInv'
    <3> SUFFICES ASSUME PortInv, UNCHANGED Port!vars PROVE PortInv'
      OBVIOUS
    <3>1. Due' = Due /\ Begun' = Begun /\ Slack' = Slack
      BY DEF Port!vars, Due, Begun, Slack
    <3>2. PortTyped' /\ Awaited' /\ Port!AnswerIsOwn'
      BY DEF Port!vars, PortInv, PortTyped, Awaited, Port!AnswerIsOwn
    <3>3. OnTheWire' /\ InTheRing' /\ InHand'
      BY <3>1 DEF Port!vars, PortInv, OnTheWire, InTheRing, InHand, Away, Own
    <3> QED
      BY <3>2, <3>3 DEF PortInv
  <2> QED
    BY <2>1, PortSends, PortReads, PortTakes, PortExpires, PortRestarts, PortArrives
    DEF Port!Next, Port!Task
<1> QED
  BY <1>1, PortStarts, PortKeepsFaith, PTL

----------------------------------------------------------------------------
(* The words of the enable sequence.  Every state of the sequence stages   *)
(* one word, an axis holds that word or the one before it, and a request   *)
(* is granted once: the states behind it are only reached with it.         *)
Staging(d) ==
  CASE d \in {"CW06_WAIT_DELAY", "CW06_ROLLBACK_ZERO", "CW06_FAILED"} -> {0}
    [] d \in {"CW06_WAIT_READY", "CW06_DONE"} -> {6}
    [] d \in {"CW07_WAIT_SWITCHED_ON", "CW07_DONE", "CW0F_WAIT_TARGET_STABLE",
              "CW0F_ROLLBACK_CW07"} -> {7}
    [] d \in {"CW0F_WAIT_OPERATION_ENABLED", "CW0F_DONE"} -> {15}
    [] d = "TEST" -> {15, 31, 11}
    [] OTHER -> Enable!Words
Granted == {"CW0F_WAIT_TARGET_STABLE", "CW0F_WAIT_OPERATION_ENABLED", "CW0F_DONE", "TEST",
            "CW0F_ROLLBACK_CW07"}

DriveRecord ==
  [drive : Enable!DriveStates, cycles : Nat, stable : Nat, request : BOOLEAN]
DriveTyped ==
  /\ axesOp \in {"OPERATIONAL", "ERROR"}
  /\ runtime \in DriveRecord
  /\ accepted \in BOOLEAN /\ quick \in BOOLEAN
  /\ controlword \in Enable!Words /\ wire \in [DriveAxes -> Enable!Words]
Staged ==
  /\ controlword \in Staging(runtime.drive)
  /\ controlword = 11 => quick
  /\ runtime.drive = "CW06_DISABLED" <=> axesOp = "ERROR"
OneGrant ==
  /\ runtime.drive \in Granted => accepted /\ ~runtime.request
  /\ runtime.request => accepted /\ runtime.drive # "CW06_DISABLED"
Lagging ==
  \A a \in DriveAxes :
    wire[a] = controlword \/ wire[a] \in Enable!Predecessors(controlword)
WordsInv == DriveTyped /\ Staged /\ OneGrant /\ Lagging

USE DEF Enable!Words, Enable!DriveStates, DriveRecord

LEMMA EnableStarts == Enable!Init => WordsInv
<1> SUFFICES ASSUME Enable!Init PROVE WordsInv
  OBVIOUS
<1>1. DriveTyped
  <2>1. wire = [a \in DriveAxes |-> 0] /\ 0 \in Enable!Words
    BY DEF Enable!Init
  <2>2. runtime \in DriveRecord
    BY DEF Enable!Init
  <2> QED
    BY <2>1, <2>2 DEF Enable!Init, DriveTyped
<1>2. Staged /\ OneGrant
  BY DEF Enable!Init, Staged, OneGrant, Staging, Granted
<1>3. Lagging
  BY DEF Enable!Init, Lagging
<1> QED
  BY <1>1, <1>2, <1>3 DEF WordsInv

(* What a cycle of the drive sequence may do to the words and to the       *)
(* request, whatever it found.                                             *)
Dispatched ==
  /\ runtime' \in DriveRecord
  /\ controlword' \in Enable!Words
  /\ controlword' \in Staging(runtime'.drive)
  /\ controlword' = 11 => quick
  /\ axesOp' \in {"OPERATIONAL", "ERROR"}
  /\ runtime'.drive = "CW06_DISABLED" <=> axesOp' = "ERROR"
  /\ runtime'.drive \in Granted => accepted /\ ~runtime'.request
  /\ runtime'.request => runtime.request /\ runtime'.drive # "CW06_DISABLED"
  /\ controlword' = controlword \/ controlword \in Enable!Predecessors(controlword')

LEMMA ZeroDispatched ==
  ASSUME WordsInv, NEW r \in DriveRecord,
         r.request => runtime.request, axesOp = "OPERATIONAL",
         Enable!RollbackToZero(r)
  PROVE  Dispatched
BY DEF Dispatched, Enable!RollbackToZero, Enable!Command, Staging, Granted, WordsInv, DriveTyped,
       Enable!Predecessors

(* What the helpers of the handlers change of it.                          *)
LEMMA DriveRecords ==
  ASSUME runtime \in DriveRecord
  PROVE  /\ Enable!OneMore \in DriveRecord /\ Enable!OneMore.drive = runtime.drive
         /\ Enable!OneMore.request = runtime.request
         /\ Enable!Fresh(runtime) \in DriveRecord
         /\ Enable!Fresh(runtime).drive = runtime.drive
         /\ Enable!Fresh(runtime).request = runtime.request
         /\ Enable!FreshTarget(runtime) \in DriveRecord
         /\ Enable!FreshTarget(runtime).drive = runtime.drive
         /\ Enable!FreshTarget(runtime).request = runtime.request
         /\ Enable!FreshRequest(runtime) \in DriveRecord
         /\ Enable!FreshRequest(runtime).drive = runtime.drive
         /\ ~Enable!FreshRequest(runtime).request
<1> USE DEF DriveRecord
<1>1. /\ Enable!OneMore \in DriveRecord /\ Enable!OneMore.drive = runtime.drive
      /\ Enable!OneMore.request = runtime.request
  BY DEF Enable!OneMore
<1>2. /\ Enable!Fresh(runtime) \in DriveRecord /\ Enable!Fresh(runtime).drive = runtime.drive
      /\ Enable!Fresh(runtime).request = runtime.request
  BY DEF Enable!Fresh
<1>3. /\ Enable!FreshTarget(runtime) \in DriveRecord
      /\ Enable!FreshTarget(runtime).drive = runtime.drive
      /\ Enable!FreshTarget(runtime).request = runtime.request
  BY DEF Enable!FreshTarget
<1>4. /\ Enable!FreshRequest(runtime) \in DriveRecord
      /\ Enable!FreshRequest(runtime).drive = runtime.drive
      /\ ~Enable!FreshRequest(runtime).request
  BY DEF Enable!FreshRequest
<1> QED
  BY <1>1, <1>2, <1>3, <1>4

LEMMA WordsDispatched ==
  ASSUME WordsInv, axesOp = "OPERATIONAL", Enable!DispatchDriveState
  PROVE  Dispatched
<1>1. /\ runtime \in DriveRecord /\ controlword \in Staging(runtime.drive)
      /\ controlword \in Enable!Words
      /\ controlword = 11 => quick
      /\ runtime.drive \in Granted => accepted /\ ~runtime.request
      /\ runtime.request => accepted
      /\ runtime.drive # "CW06_DISABLED" /\ axesOp = "OPERATIONAL"
  BY DEF WordsInv, DriveTyped, Staged, OneGrant
<1>2. /\ Enable!OneMore \in DriveRecord /\ Enable!OneMore.drive = runtime.drive
      /\ Enable!OneMore.request = runtime.request
      /\ Enable!Fresh(runtime) \in DriveRecord /\ Enable!FreshTarget(runtime) \in DriveRecord
      /\ Enable!FreshRequest(runtime) \in DriveRecord
      /\ Enable!Fresh(runtime).request = runtime.request
      /\ Enable!FreshTarget(runtime).request = runtime.request
      /\ ~Enable!FreshRequest(runtime).request
      /\ Enable!Fresh(runtime).drive = runtime.drive
      /\ Enable!FreshTarget(runtime).drive = runtime.drive
      /\ Enable!FreshRequest(runtime).drive = runtime.drive
  BY <1>1, DriveRecords
<1>3. ASSUME NEW r \in DriveRecord, r.drive = runtime.drive, r.request => runtime.request, Enable!Keep(r)
      PROVE  Dispatched
  BY <1>1, <1>3 DEF Enable!Keep, Dispatched, Staging
<1>4. ASSUME NEW r \in DriveRecord, r.request => runtime.request, Enable!RollbackToZero(r)
      PROVE  Dispatched
  BY <1>4, <1>1, ZeroDispatched
<1>5. ASSUME NEW r \in DriveRecord, r.request => runtime.request,
             NEW d \in Enable!DriveStates, NEW v \in Enable!Words,
             v \in Staging(d), v = 11 => quick, d # "CW06_DISABLED",
             d \in Granted => accepted /\ ~r.request,
             controlword = v \/ controlword \in Enable!Predecessors(v), Enable!Command(r, d, v)
      PROVE  Dispatched
  BY <1>1, <1>5 DEF Enable!Command, Dispatched
<1>6. ASSUME NEW r \in DriveRecord, r.request => runtime.request, NEW d \in Enable!DriveStates,
             Staging(d) = Staging(runtime.drive), d # "CW06_DISABLED",
             d \in Granted => accepted /\ ~r.request, Enable!Enter(r, d)
      PROVE  Dispatched
  BY <1>1, <1>6 DEF Enable!Enter, Enable!Keep, Dispatched
<1>7. ASSUME Enable!EnterError PROVE Dispatched
  BY <1>1, <1>7 DEF Enable!EnterError, Dispatched, Staging, Granted
<1>8. ASSUME runtime.drive \in {"CW0F_DONE", "TEST"}, controlword # 11, Enable!FallBack
      PROVE  Dispatched
  <2>1. CASE Enable!RollbackToZero(Enable!FreshRequest(runtime))
    BY <1>2, <1>4, <2>1
  <2>2. CASE Enable!Command(Enable!FreshRequest(runtime), "CW0F_ROLLBACK_CW07", 7)
    <3>1. controlword \in {15, 31}
      BY <1>1, <1>8 DEF Staging
    <3> QED
      BY <1>1, <1>2, <1>5, <1>8, <2>2, <3>1 DEF Staging, Granted, Enable!Predecessors
  <2> QED
    BY <1>8, <2>1, <2>2 DEF Enable!FallBack, Enable!RollbackToSwitchedOn
<1>10. CASE runtime.drive = "CW06_WAIT_DELAY" /\ Enable!HandleWaitDelay
  BY <1>1, <1>2, <1>3, <1>5, <1>10 DEF Enable!HandleWaitDelay, Staging, Granted, Enable!Predecessors
<1>11. CASE runtime.drive = "CW06_WAIT_READY" /\ Enable!HandleWaitReady
  BY <1>1, <1>2, <1>3, <1>4, <1>6, <1>11 DEF Enable!HandleWaitReady, Staging, Granted
<1>12. CASE runtime.drive = "CW06_DONE" /\ Enable!HandleReadyToSwitchOn
  BY <1>1, <1>2, <1>3, <1>4, <1>5, <1>12
     DEF Enable!HandleReadyToSwitchOn, Staging, Granted, Enable!Predecessors
<1>13. CASE runtime.drive = "CW07_WAIT_SWITCHED_ON" /\ Enable!HandleWaitSwitchedOn
  BY <1>1, <1>2, <1>3, <1>4, <1>6, <1>13 DEF Enable!HandleWaitSwitchedOn, Staging, Granted
<1>14. CASE runtime.drive = "CW07_DONE" /\ Enable!HandleSwitchedOn
  <2>1. CASE Enable!Keep(Enable!Fresh(runtime))
    BY <1>1, <1>2, <1>3, <2>1
  <2>2. CASE runtime.request /\ Enable!Enter(Enable!FreshRequest(runtime), "CW0F_WAIT_TARGET_STABLE")
    BY <1>1, <1>2, <1>6, <1>14, <2>2 DEF Staging, Granted
  <2>3. CASE Enable!RollbackToZero(Enable!FreshRequest(runtime))
    BY <1>1, <1>2, <1>4, <2>3
  <2> DEFINE r == [Enable!OneMore EXCEPT !.request = FALSE]
  <2>4. /\ r \in DriveRecord /\ ~r.request /\ r.drive = runtime.drive
        /\ Enable!Fresh(r) \in DriveRecord /\ ~Enable!Fresh(r).request
    BY <1>1, <1>2 DEF DriveRecord, Enable!Fresh
  <2> HIDE DEF r
  <2>5. CASE Enable!RollbackToZero(Enable!Fresh(r))
    BY <1>4, <2>4, <2>5
  <2>6. CASE Enable!Keep(r)
    BY <1>3, <2>4, <2>6
  <2> QED
    BY <1>14, <2>1, <2>2, <2>3, <2>5, <2>6 DEF Enable!HandleSwitchedOn, r
<1>15. CASE runtime.drive = "CW0F_WAIT_TARGET_STABLE" /\ Enable!HandleWaitTargetStable
  <2> DEFINE r == [Enable!OneMore EXCEPT !.stable =
                     IF Enable!Matches("SwitchedOn") /\ csp /\ settled THEN @ + 1 ELSE 0]
  <2>1. /\ r \in DriveRecord /\ ~r.request /\ r.drive = runtime.drive
        /\ Enable!FreshTarget(r) \in DriveRecord /\ ~Enable!FreshTarget(r).request
    <3> DEFINE n == IF Enable!Matches("SwitchedOn") /\ csp /\ settled
                    THEN Enable!OneMore.stable + 1 ELSE 0
    <3>1. n \in Nat
      BY <1>2 DEF DriveRecord
    <3>2. r = [Enable!OneMore EXCEPT !.stable = n]
      OBVIOUS
    <3> HIDE DEF n, r
    <3>3. r \in DriveRecord /\ ~r.request /\ r.drive = runtime.drive
      BY <1>1, <1>2, <1>15, <3>1, <3>2 DEF DriveRecord, Granted
    <3> QED
      BY <3>3 DEF DriveRecord, Enable!FreshTarget
  <2> HIDE DEF r
  <2>2. CASE Enable!Command(Enable!FreshTarget(r), "CW0F_WAIT_OPERATION_ENABLED", 15)
    BY <1>1, <1>5, <1>15, <2>1, <2>2 DEF Staging, Granted, Enable!Predecessors
  <2>3. CASE Enable!RollbackToZero(Enable!FreshTarget(r))
    BY <1>4, <2>1, <2>3
  <2>4. CASE Enable!Keep(r)
    BY <1>3, <2>1, <2>4
  <2> QED
    BY <1>15, <2>2, <2>3, <2>4 DEF Enable!HandleWaitTargetStable, r
<1>16. CASE runtime.drive = "CW0F_WAIT_OPERATION_ENABLED" /\ Enable!HandleWaitOperationEnabled
  BY <1>1, <1>2, <1>3, <1>4, <1>5, <1>6, <1>16
     DEF Enable!HandleWaitOperationEnabled, Enable!RollbackToSwitchedOn, Staging, Granted,
         Enable!Predecessors
<1>17. CASE runtime.drive = "CW0F_DONE" /\ Enable!HandleOperationEnabled
  <2>1. CASE Enable!Enter(Enable!FreshTarget(runtime), "TEST")
    BY <1>1, <1>2, <1>17, <2>1 DEF Enable!Enter, Enable!Keep, Dispatched, Staging, Granted, DriveRecord
  <2> QED
    BY <1>1, <1>8, <1>17, <2>1 DEF Enable!HandleOperationEnabled, Staging
<1>18. CASE runtime.drive = "TEST" /\ Enable!HandleTest
  <2>1. CASE quick /\ Enable!Command(runtime, "TEST", 11)
    BY <1>1, <1>5, <1>18, <2>1 DEF Staging, Granted, Enable!Predecessors
  <2>2. CASE ~quick /\ Enable!FallBack
    BY <1>1, <1>8, <1>18, <2>2
  <2>3. CASE Enable!Keep(runtime)
    BY <1>1, <1>3, <2>3
  <2>4. CASE Enable!Command(runtime, "TEST", 31)
    BY <1>1, <1>5, <1>18, <2>4 DEF Staging, Granted, Enable!Predecessors
  <2> QED
    BY <1>7, <1>18, <2>1, <2>2, <2>3, <2>4 DEF Enable!HandleTest
<1>19. CASE runtime.drive = "CW0F_ROLLBACK_CW07" /\ Enable!HandleRollbackToSwitchedOn
  BY <1>1, <1>2, <1>3, <1>4, <1>6, <1>19 DEF Enable!HandleRollbackToSwitchedOn, Staging, Granted
<1>20. CASE /\ runtime.drive \in {"CW06_ROLLBACK_ZERO", "CW06_FAILED"}
            /\ Enable!Command(runtime, "CW06_FAILED", 0)
  BY <1>1, <1>5, <1>20 DEF Staging, Granted
<1> QED
  BY <1>10, <1>11, <1>12, <1>13, <1>14, <1>15, <1>16, <1>17, <1>18, <1>19, <1>20
     DEF Enable!DispatchDriveState

LEMMA WordsKept ==
  ASSUME WordsInv, [Enable!Next]_(Enable!vars)
  PROVE  /\ WordsInv'
         /\ \A a \in DriveAxes : wire'[a] # wire[a] =>
              wire'[a] = controlword /\ wire[a] \in Enable!Predecessors(controlword)
<1> DEFINE Sent == \A a \in DriveAxes : wire'[a] # wire[a] =>
              wire'[a] = controlword /\ wire[a] \in Enable!Predecessors(controlword)
<1>0. /\ controlword \in Enable!Words /\ wire \in [DriveAxes -> Enable!Words]
      /\ \A a \in DriveAxes : wire[a] = controlword \/ wire[a] \in Enable!Predecessors(controlword)
  BY DEF WordsInv, DriveTyped, Lagging
<1>1. CASE /\ UNCHANGED <<axesOp, runtime, accepted, controlword, wire>>
           /\ quick' = quick \/ quick' = TRUE
  BY <1>1 DEF WordsInv, DriveTyped, Staged, OneGrant, Lagging
<1>2. CASE Enable!GoodExchange
  <2>1. Dispatched /\ UNCHANGED <<accepted, quick>> /\ wire' = [a \in DriveAxes |-> controlword]
    BY <1>2, WordsDispatched DEF Enable!GoodExchange, Enable!Process
  <2>2. DriveTyped' /\ Staged' /\ OneGrant'
    BY <1>0, <2>1 DEF WordsInv, DriveTyped, Staged, OneGrant, Dispatched
  <2>3. Lagging'
    BY <2>1 DEF Lagging, Dispatched
  <2>4. Sent
    BY <1>0, <2>1
  <2> QED
    BY <2>2, <2>3, <2>4 DEF WordsInv
<1>3. CASE Enable!BadExchange
  <2>1. /\ axesOp = "OPERATIONAL" /\ UNCHANGED <<accepted, quick>>
        /\ \E reached \in SUBSET DriveAxes :
             wire' = [a \in DriveAxes |-> IF a \in reached THEN controlword ELSE wire[a]]
        /\ Enable!HandlePdoExchangeFailure
    BY <1>3 DEF Enable!BadExchange, Enable!Process
  <2>2. Sent /\ wire' \in [DriveAxes -> Enable!Words]
        /\ \A a \in DriveAxes : wire'[a] = controlword \/ wire'[a] = wire[a]
    BY <1>0, <2>1
  <2>3. Dispatched /\ (controlword' = controlword \/ controlword' = 0)
    <3>1. CASE Enable!Keep(runtime)
      BY <2>1, <3>1 DEF Enable!Keep, Dispatched, WordsInv, DriveTyped, Staged, OneGrant
    <3>2. CASE Enable!EnterError
      BY <2>1, <3>2 DEF Enable!EnterError, Dispatched, WordsInv, DriveTyped, Staged, OneGrant,
         Staging, Granted
    <3>3. CASE Enable!RollbackToZero(Enable!FreshRequest(runtime))
      <4> DEFINE r == Enable!FreshRequest(runtime)
      <4>1. /\ r \in DriveRecord
            /\ r.request => runtime.request
        BY DEF Enable!FreshRequest, WordsInv, DriveTyped
      <4> HIDE DEF r
      <4>2. Enable!RollbackToZero(r)
        BY <3>3 DEF r
      <4>3. Dispatched
        BY <2>1, <4>1, <4>2, ZeroDispatched
      <4> QED
        BY <4>2, <4>3 DEF Enable!RollbackToZero, Enable!Command
    <3>4. CASE Enable!Keep(Enable!Fresh(runtime))
      BY <2>1, <3>4 DEF Enable!Keep, Enable!Fresh, Dispatched, WordsInv, DriveTyped, Staged,
         OneGrant
    <3> QED
      BY <2>1, <3>1, <3>2, <3>3, <3>4 DEF Enable!HandlePdoExchangeFailure
  <2>4. DriveTyped' /\ Staged' /\ OneGrant'
    BY <2>1, <2>2, <2>3 DEF WordsInv, DriveTyped, Staged, OneGrant, Dispatched
  <2>5. Lagging'
    BY <1>0, <2>2, <2>3 DEF Lagging, Dispatched, Enable!Predecessors
  <2> QED
    BY <2>2, <2>4, <2>5 DEF WordsInv
<1>4. CASE Enable!RequestEnable
  <2>1. UNCHANGED <<axesOp, controlword, wire, quick>>
    BY <1>4 DEF Enable!RequestEnable
  <2>2. CASE axesOp = "ERROR" /\ accepted' = FALSE /\ UNCHANGED runtime
    <3>1. runtime.drive = "CW06_DISABLED"
      BY <2>2 DEF WordsInv, Staged
    <3> QED
      BY <2>1, <2>2, <3>1 DEF WordsInv, DriveTyped, Staged, OneGrant, Lagging, Granted
  <2>3. CASE axesOp = "OPERATIONAL"
    <3> DEFINE granted == ~accepted /\ runtime.drive = "CW07_DONE" /\ ~runtime.request
    <3>1. /\ accepted' = (accepted \/ granted)
          /\ runtime' = [runtime EXCEPT !.request = @ \/ granted]
      BY <1>4, <2>3 DEF Enable!RequestEnable
    <3>2. /\ runtime' \in DriveRecord
          /\ runtime'.drive = runtime.drive
          /\ runtime'.request = (runtime.request \/ granted)
      BY <3>1 DEF WordsInv, DriveTyped
    <3> QED
      BY <2>1, <3>1, <3>2 DEF WordsInv, DriveTyped, Staged, OneGrant, Lagging, Granted
  <2> QED
    BY <1>4, <2>2, <2>3 DEF Enable!RequestEnable
<1>5. CASE \/ UNCHANGED Enable!vars \/ Enable!Obeying \/ (\E a \in DriveAxes : Enable!Trip(a))
           \/ Enable!Settle \/ Enable!ChangeMode \/ Enable!QuickStop
  BY <1>1, <1>5 DEF Enable!vars, Enable!Obeying, Enable!Obey, Enable!Trip, Enable!Settle,
     Enable!ChangeMode, Enable!QuickStop
<1> QED
  BY <1>2, <1>3, <1>4, <1>5 DEF Enable!Next, Enable!Task

(* Once the axes were given up, the sequence stays in the states that      *)
(* stage 7 or 0 and is granted no request; once the words are zero, it     *)
(* stays in those that stage 0.                                            *)
ZeroState ==
  controlword = 0 /\ runtime.drive \in {"CW06_ROLLBACK_ZERO", "CW06_FAILED", "CW06_DISABLED"}
GivenUpState ==
  \/ runtime.drive \in {"CW0F_ROLLBACK_CW07", "CW07_DONE"} /\ accepted /\ ~runtime.request
  \/ runtime.drive \in {"CW06_ROLLBACK_ZERO", "CW06_FAILED"}
  \/ runtime.drive = "CW06_DISABLED" /\ controlword \in {0, 7}

LEMMA GivenUpStays ==
  ASSUME WordsInv, [Enable!Next]_(Enable!vars)
  PROVE  /\ GivenUpState => GivenUpState'
         /\ ZeroState => ZeroState'
<1> USE DEF GivenUpState, ZeroState
<1> DEFINE Stays == GivenUpState' /\ (ZeroState => ZeroState')
<1> SUFFICES ASSUME GivenUpState PROVE Stays
  BY DEF WordsInv, Staged, Staging
<1>0. /\ runtime \in DriveRecord /\ controlword \in Staging(runtime.drive) /\ accepted \in BOOLEAN
      /\ runtime.drive = "CW06_DISABLED" <=> axesOp = "ERROR"
      /\ axesOp \in {"OPERATIONAL", "ERROR"}
  BY DEF WordsInv, DriveTyped, Staged
<1>1. CASE UNCHANGED <<runtime, accepted, controlword>>
  BY <1>1
<1>2. ASSUME UNCHANGED accepted, runtime.drive # "CW06_DISABLED", NEW r \in DriveRecord,
             r.drive = runtime.drive, r.request => runtime.request, Enable!Keep(r)
      PROVE  Stays
  BY <1>0, <1>2 DEF Enable!Keep
<1>3. ASSUME UNCHANGED accepted, runtime.drive # "CW06_DISABLED", NEW r \in DriveRecord,
             runtime.drive # "CW06_FAILED", Enable!RollbackToZero(r)
      PROVE  Stays
  BY <1>0, <1>3 DEF Enable!RollbackToZero, Enable!Command
<1>4. ASSUME runtime.drive # "CW06_DISABLED", Enable!EnterError PROVE Stays
  BY <1>0, <1>4 DEF Enable!EnterError, Staging
<1>5. /\ Enable!OneMore \in DriveRecord /\ Enable!OneMore.drive = runtime.drive
      /\ Enable!OneMore.request = runtime.request
      /\ Enable!Fresh(runtime) \in DriveRecord /\ Enable!Fresh(runtime).drive = runtime.drive
      /\ Enable!Fresh(runtime).request = runtime.request
      /\ Enable!FreshRequest(runtime) \in DriveRecord /\ ~Enable!FreshRequest(runtime).request
      /\ Enable!FreshRequest(runtime).drive = runtime.drive
  BY <1>0, DriveRecords
<1>6. CASE Enable!GoodExchange
  <2>1. /\ UNCHANGED accepted /\ runtime.drive # "CW06_DISABLED" /\ Enable!DispatchDriveState
    BY <1>0, <1>6 DEF Enable!GoodExchange, Enable!Process
  <2>2. CASE runtime.drive = "CW07_DONE" /\ Enable!HandleSwitchedOn
    <3> DEFINE r == [Enable!OneMore EXCEPT !.request = FALSE]
    <3>1. /\ r \in DriveRecord /\ ~r.request /\ r.drive = runtime.drive
          /\ Enable!Fresh(r) \in DriveRecord
      BY <1>0, <1>5 DEF DriveRecord, Enable!Fresh
    <3> HIDE DEF r
    <3>2. \/ Enable!Keep(Enable!Fresh(runtime)) \/ Enable!RollbackToZero(Enable!Fresh(r))
          \/ Enable!Keep(r)
      BY <2>2 DEF Enable!HandleSwitchedOn, r
    <3> QED
      BY <1>2, <1>3, <1>5, <2>1, <2>2, <3>1, <3>2
  <2>3. CASE runtime.drive = "CW0F_ROLLBACK_CW07" /\ Enable!HandleRollbackToSwitchedOn
    <3>1. CASE Enable!Enter(Enable!FreshRequest(runtime), "CW07_DONE")
      <4> DEFINE r == Enable!FreshRequest(runtime)
      <4>1. r \in DriveRecord /\ ~r.request
        BY <1>5
      <4> HIDE DEF r
      <4>2. runtime' = [r EXCEPT !.drive = "CW07_DONE"]
        BY <3>1 DEF Enable!Enter, Enable!Keep, r
      <4> QED
        BY <2>1, <2>3, <4>1, <4>2 DEF DriveRecord
    <3>2. CASE Enable!RollbackToZero(Enable!FreshRequest(runtime))
      BY <1>3, <1>5, <2>1, <2>3, <3>2
    <3>3. CASE Enable!Keep(Enable!OneMore)
      BY <1>2, <1>5, <2>1, <3>3
    <3> QED
      BY <2>3, <3>1, <3>2, <3>3 DEF Enable!HandleRollbackToSwitchedOn
  <2>4. CASE /\ runtime.drive \in {"CW06_ROLLBACK_ZERO", "CW06_FAILED"}
             /\ Enable!Command(runtime, "CW06_FAILED", 0)
    BY <1>0, <2>4 DEF Enable!Command, DriveRecord
  <2> QED
    BY <2>1, <2>2, <2>3, <2>4 DEF Enable!DispatchDriveState
<1>7. CASE Enable!BadExchange
  <2>1. /\ UNCHANGED accepted /\ runtime.drive # "CW06_DISABLED"
        /\ Enable!HandlePdoExchangeFailure
    BY <1>0, <1>7 DEF Enable!BadExchange, Enable!Process
  <2> QED
    BY <1>0, <1>2, <1>3, <1>4, <1>5, <2>1 DEF Enable!HandlePdoExchangeFailure, Enable!Active
<1>8. CASE Enable!RequestEnable
  <2>1. UNCHANGED controlword
    BY <1>8 DEF Enable!RequestEnable
  <2>2. CASE axesOp = "ERROR"
    BY <1>0, <1>8, <2>1, <2>2 DEF Enable!RequestEnable, DriveRecord
  <2>3. CASE axesOp = "OPERATIONAL"
    <3> DEFINE granted == ~accepted /\ runtime.drive = "CW07_DONE" /\ ~runtime.request
    <3>1. /\ accepted' = (accepted \/ granted)
          /\ runtime' = [runtime EXCEPT !.request = @ \/ granted]
      BY <1>8, <2>3 DEF Enable!RequestEnable
    <3>2. ~granted
      BY <1>0, <2>3
    <3> HIDE DEF granted
    <3>3. /\ runtime'.drive = runtime.drive /\ runtime'.request = runtime.request
          /\ accepted' = accepted
      BY <1>0, <3>1, <3>2 DEF DriveRecord
    <3> QED
      BY <2>1, <3>3
  <2> QED
    BY <1>0, <2>2, <2>3
<1>9. CASE \/ UNCHANGED Enable!vars \/ Enable!Obeying \/ (\E a \in DriveAxes : Enable!Trip(a))
           \/ Enable!Settle \/ Enable!ChangeMode \/ Enable!QuickStop
  BY <1>1, <1>9 DEF Enable!vars, Enable!Obeying, Enable!Obey, Enable!Trip, Enable!Settle,
     Enable!ChangeMode, Enable!QuickStop
<1> QED
  BY <1>6, <1>7, <1>8, <1>9 DEF Enable!Next, Enable!Task

LEMMA WordsAreSafe == Enable!Spec => Enable!WordsSafe
<1> DEFINE Sent == \A a \in DriveAxes : wire'[a] # wire[a] => wire[a] \in Enable!Predecessors(wire'[a])
<1>1. Enable!Init => WordsInv
  BY EnableStarts
<1>2. WordsInv /\ [Enable!Next]_(Enable!vars) => WordsInv' /\ [Sent]_(Enable!vars)
  BY WordsKept
<1>3. WordsInv /\ [Enable!Next]_(Enable!vars) =>
        (GivenUpState => GivenUpState') /\ (ZeroState => ZeroState')
  BY GivenUpStays
<1>4. WordsInv => (Enable!GivenUp => GivenUpState)
  BY DEF WordsInv, OneGrant, Granted, Enable!GivenUp, GivenUpState
<1>5. WordsInv => (GivenUpState => controlword \notin {15, 31})
  BY DEF WordsInv, Staged, Staging, GivenUpState
<1>6. WordsInv => (runtime.drive = "CW06_ROLLBACK_ZERO" => ZeroState)
  BY DEF WordsInv, Staged, Staging, ZeroState
<1>7. ZeroState => controlword = 0
  BY DEF ZeroState
<1>8. Enable!Spec => []WordsInv /\ Enable!WordsInOrder
  BY <1>1, <1>2, PTL DEF Enable!Spec, Enable!WordsInOrder
<1>9. Enable!Spec => Enable!GivenUpForGood
  BY <1>3, <1>4, <1>5, <1>8, PTL DEF Enable!Spec, Enable!GivenUpForGood
<1>10. Enable!Spec => Enable!ZeroForGood
  BY <1>3, <1>6, <1>7, <1>8, PTL DEF Enable!Spec, Enable!ZeroForGood
<1> QED
  BY <1>8, <1>9, <1>10, PTL DEF Enable!WordsSafe

----------------------------------------------------------------------------
(* The layout of a drive.  A list of lists of transfers is gone through    *)
(* from <<1, 1>> on.                                                       *)
IsList(list) ==
  /\ Len(list) \in Nat \ {0} /\ DOMAIN list = 1..Len(list)
  /\ \A i \in 1..Len(list) :
       Len(list[i]) \in Nat \ {0} /\ DOMAIN list[i] = 1..Len(list[i])
All(list, T) == \A i \in DOMAIN list : \A j \in DOMAIN list[i] : list[i][j] \in T
Seen(list, k, l, T) ==
  \A i \in DOMAIN list : \A j \in DOMAIN list[i] :
    i < k \/ (i = k /\ j < l) => list[i][j] \in T

(* Nothing was seen at the beginning, and each step goes on to the next    *)
(* transfer or ends behind the last.                                       *)
LEMMA ListBegins ==
  ASSUME NEW list, IsList(list), NEW T
  PROVE  1 \in DOMAIN list /\ 1 \in DOMAIN list[1] /\ Seen(list, 1, 1, T)
BY DEF IsList, Seen

LEMMA ListAdvances ==
  ASSUME NEW list, IsList(list), NEW i \in DOMAIN list, NEW j \in DOMAIN list[i], NEW T,
         Seen(list, i, j, T), list[i][j] \in T,
         NEW q, q = IF j < Len(list[i]) THEN <<i, j + 1>> ELSE <<i + 1, 1>>
  PROVE  IF i = Len(list) /\ j = Len(list[i]) THEN All(list, T)
         ELSE q[1] \in DOMAIN list /\ q[2] \in DOMAIN list[q[1]] /\ Seen(list, q[1], q[2], T)
<1>1. /\ Len(list) \in Nat /\ i \in 1..Len(list) /\ Len(list[i]) \in Nat /\ j \in 1..Len(list[i])
      /\ DOMAIN list = 1..Len(list)
      /\ \A k \in 1..Len(list) : Len(list[k]) \in Nat \ {0} /\ DOMAIN list[k] = 1..Len(list[k])
  BY DEF IsList
<1>2. ASSUME NEW k \in DOMAIN list, NEW l \in DOMAIN list[k], k < i \/ (k = i /\ l <= j)
      PROVE  list[k][l] \in T
  <2>1. k \in Nat /\ l \in Nat
    BY <1>1
  <2>2. CASE k < i
    BY <2>2 DEF Seen
  <2>3. CASE k = i /\ l < j
    BY <2>3 DEF Seen
  <2>4. CASE k = i /\ l = j
    BY <2>4
  <2> QED
    BY <1>1, <1>2, <2>1, <2>2, <2>3, <2>4
<1>3. CASE i = Len(list) /\ j = Len(list[i])
  <2>1. ASSUME NEW k \in DOMAIN list, NEW l \in DOMAIN list[k] PROVE list[k][l] \in T
    BY <1>1, <1>2, <1>3
  <2> QED
    BY <1>3, <2>1 DEF All
<1>4. CASE j < Len(list[i])
  <2>1. q = <<i, j + 1>> /\ j + 1 \in 1..Len(list[i])
    BY <1>1, <1>4
  <2>2. ASSUME NEW k \in DOMAIN list, NEW l \in DOMAIN list[k], k < i \/ (k = i /\ l < j + 1)
        PROVE  list[k][l] \in T
    BY <1>1, <1>2, <2>2
  <2>3. Seen(list, q[1], q[2], T)
    BY <2>1, <2>2 DEF Seen
  <2> QED
    BY <1>1, <1>4, <2>1, <2>3
<1>5. CASE j = Len(list[i]) /\ i < Len(list)
  <2>1. q = <<i + 1, 1>> /\ i + 1 \in 1..Len(list) /\ 1 \in DOMAIN list[i + 1]
    BY <1>1, <1>5
  <2>2. ASSUME NEW k \in DOMAIN list, NEW l \in DOMAIN list[k], k < i + 1 \/ (k = i + 1 /\ l < 1)
        PROVE  list[k][l] \in T
    <3>1. k \in 1..Len(list) /\ l \in 1..Len(list[k]) /\ Len(list[k]) \in Nat
      BY <1>1
    <3>2. k < i \/ k = i
      BY <1>1, <2>2, <3>1
    <3>3. k = i => l <= j
      BY <1>1, <1>5, <3>1
    <3> QED
      BY <1>2, <3>2, <3>3
  <2>3. Seen(list, q[1], q[2], T)
    BY <2>1, <2>2 DEF Seen
  <2> QED
    BY <1>1, <1>5, <2>1, <2>3
<1> QED
  BY <1>1, <1>3, <1>4, <1>5

LEMMA ListGoesOn ==
  ASSUME NEW list, IsList(list), NEW i \in DOMAIN list, NEW j \in DOMAIN list[i],
         ~(i = Len(list) /\ j = Len(list[i])),
         NEW q, q = IF j < Len(list[i]) THEN <<i, j + 1>> ELSE <<i + 1, 1>>
  PROVE  /\ q[1] \in DOMAIN list /\ q[2] \in DOMAIN list[q[1]]
         /\ \/ j < Len(list[i]) /\ q[1] = i /\ q[2] = j + 1
            \/ j = Len(list[i]) /\ q[1] = i + 1 /\ q[2] = 1
<1>1. /\ Len(list) \in Nat /\ i \in 1..Len(list) /\ Len(list[i]) \in Nat /\ j \in 1..Len(list[i])
      /\ DOMAIN list = 1..Len(list)
      /\ \A k \in 1..Len(list) : Len(list[k]) \in Nat \ {0} /\ DOMAIN list[k] = 1..Len(list[k])
  BY DEF IsList
<1>2. CASE j < Len(list[i])
  <2>1. q[1] = i /\ q[2] = j + 1 /\ j + 1 \in 1..Len(list[i])
    BY <1>1, <1>2
  <2> QED
    BY <1>1, <1>2, <2>1
<1>3. CASE j = Len(list[i])
  <2>1. q[1] = i + 1 /\ q[2] = 1 /\ i + 1 \in 1..Len(list)
    BY <1>1, <1>3
  <2>2. 1 \in DOMAIN list[i + 1]
    BY <1>1, <2>1
  <2> QED
    BY <1>1, <1>3, <2>1, <2>2
<1> QED
  BY <1>1, <1>2, <1>3

(* Two sequences in a row.                                                 *)
LEMMA InARow ==
  ASSUME NEW S, NEW s \in Seq(S), NEW t \in Seq(S)
  PROVE  /\ s \o t \in Seq(S) /\ Len(s) \in Nat /\ Len(t) \in Nat
         /\ DOMAIN (s \o t) = 1..(Len(s) + Len(t)) /\ Len(s \o t) = Len(s) + Len(t)
         /\ \A i \in 1..Len(s) : (s \o t)[i] = s[i]
         /\ \A i \in 1..Len(t) : (s \o t)[Len(s) + i] = t[i]
<1>1. /\ s \o t \in Seq(S) /\ Len(s) \in Nat /\ Len(t) \in Nat /\ Len(s \o t) = Len(s) + Len(t)
      /\ \A i \in 1..(Len(s) + Len(t)) :
           (s \o t)[i] = IF i <= Len(s) THEN s[i] ELSE t[i - Len(s)]
  BY ConcatProperties
<1>2. DOMAIN (s \o t) = 1..Len(s \o t)
  BY <1>1
<1> DEFINE u == s \o t
           m == Len(s)
           n == Len(t)
<1> HIDE DEF u
<1>3. \A i \in 1..m : u[i] = s[i]
  BY <1>1 DEF u
<1>4. ASSUME NEW i \in 1..n PROVE u[m + i] = t[i]
  <2>1. m + i \in 1..(m + n) /\ ~(m + i <= m) /\ (m + i) - m = i
    BY <1>1
  <2> QED
    BY <1>1, <2>1 DEF u
<1> QED
  BY <1>1, <1>2, <1>3, <1>4 DEF u

LEMMA InRange ==
  ASSUME NEW n \in Nat, NEW m \in Nat, n <= m
  PROVE  n \in 0..m
OBVIOUS

(* A list that has for each of its objects the transfers that F says.      *)
LEMMA ListOf ==
  ASSUME NEW O, NEW objects \in Seq(O), objects # <<>>,
         NEW F, \A o \in O : Len(F[o]) \in Nat \ {0} /\ DOMAIN F[o] = 1..Len(F[o]),
         NEW list, list = [i \in DOMAIN objects |-> F[objects[i]]]
  PROVE  /\ IsList(list) /\ Len(list) = Len(objects)
         /\ \A i \in 1..Len(objects) : list[i] = F[objects[i]]
         /\ \A T : All(list, T) =>
              \A i \in 1..Len(objects) : \A j \in 1..Len(F[objects[i]]) : F[objects[i]][j] \in T
<1>1. /\ Len(objects) \in Nat \ {0} /\ DOMAIN objects = 1..Len(objects)
      /\ \A i \in 1..Len(objects) : objects[i] \in O
  BY EmptySeq
<1>2. /\ DOMAIN list = 1..Len(objects) /\ Len(list) = Len(objects)
      /\ \A i \in 1..Len(objects) : list[i] = F[objects[i]]
  BY <1>1
<1>3. IsList(list)
  BY <1>1, <1>2 DEF IsList
<1>4. ASSUME NEW T, All(list, T), NEW i \in 1..Len(objects), NEW j \in 1..Len(F[objects[i]])
      PROVE  F[objects[i]][j] \in T
  <2>1. list[i] = F[objects[i]] /\ i \in DOMAIN list /\ j \in DOMAIN list[i]
    BY <1>1, <1>2
  <2> QED
    BY <1>4, <2>1 DEF All
<1> QED
  BY <1>2, <1>3, <1>4

LEMMA ListAsSequence ==
  ASSUME NEW O, NEW objects \in Seq(O), NEW F, NEW S, \A o \in O : F[o] \in S,
         NEW list, list = [i \in DOMAIN objects |-> F[objects[i]]]
  PROVE  list \in Seq(S)
<1>1. /\ list = [i \in 1..Len(objects) |-> F[objects[i]]] /\ Len(objects) \in Nat
      /\ \A i \in 1..Len(objects) : F[objects[i]] \in S
  OBVIOUS
<1> QED
  BY <1>1

(* The assignments, then the maps.                                         *)
LEMMA AssignmentsFirst ==
  ASSUME NEW O, "rxassign" \in O, "txassign" \in O, NEW m \in Seq(O),
         \A o \in O : o \in {"rxassign", "txassign"} \/ \E i \in DOMAIN m : m[i] = o
  PROVE  LET all == <<"rxassign", "txassign">> \o m
         IN /\ all \in Seq(O) /\ all # <<>>
            /\ \A o \in O : \E i \in 1..Len(all) : all[i] = o
<1> DEFINE b == <<"rxassign", "txassign">>
<1>1. b \in Seq(O) /\ Len(b) = 2 /\ b[1] = "rxassign" /\ b[2] = "txassign"
  OBVIOUS
<1>a. b \in Seq(O) /\ m \in Seq(O)
  BY <1>1
<1> HIDE DEF b
<1>2. /\ b \o m \in Seq(O) /\ Len(m) \in Nat
      /\ DOMAIN (b \o m) = 1..(Len(b) + Len(m)) /\ Len(b \o m) = Len(b) + Len(m)
      /\ \A i \in 1..Len(b) : (b \o m)[i] = b[i]
      /\ \A i \in 1..Len(m) : (b \o m)[Len(b) + i] = m[i]
  BY ONLY <1>a, InARow
<1>3. b \o m # <<>>
  <2>1. Len(b \o m) # 0
    BY <1>1, <1>2
  <2> QED
    BY <2>1
<1>4. ASSUME NEW o \in O PROVE \E i \in 1..Len(b \o m) : (b \o m)[i] = o
  <2>1. CASE o = "rxassign"
    <3>1. 1 \in 1..Len(b \o m) /\ (b \o m)[1] = o
      BY <1>1, <1>2, <2>1
    <3> QED
      BY <3>1
  <2>2. CASE o = "txassign"
    <3>1. 2 \in 1..Len(b \o m) /\ (b \o m)[2] = o
      BY <1>1, <1>2, <2>2
    <3> QED
      BY <3>1
  <2>3. ASSUME NEW k \in DOMAIN m, m[k] = o PROVE \E i \in 1..Len(b \o m) : (b \o m)[i] = o
    <3>0. k \in 1..Len(m)
      OBVIOUS
    <3>1. 2 + k \in 1..Len(b \o m) /\ (b \o m)[2 + k] = o
      BY <1>1, <1>2, <2>3, <3>0
    <3> QED
      BY <3>1
  <2> QED
    BY <2>1, <2>2, <2>3
<1> QED
  BY <1>2, <1>3, <1>4 DEF b

(* The transfers of one object: h first, then its entries.                 *)
LEMMA HeadAndEntries ==
  ASSUME NEW S, NEW w \in Seq(S), NEW h, NEW o, NEW f,
         f = [i \in DOMAIN w |-> [object |-> o, sub |-> i, value |-> w[i]]]
  PROVE  /\ Len(w) \in Nat /\ Len(<<h>> \o f) = Len(w) + 1
         /\ DOMAIN (<<h>> \o f) = 1..(Len(w) + 1) /\ (<<h>> \o f)[1] = h
         /\ \A i \in 1..Len(w) :
              (<<h>> \o f)[i + 1] = [object |-> o, sub |-> i, value |-> w[i]]
<1> DEFINE n == Len(w)
           g(i) == [object |-> o, sub |-> i, value |-> w[i]]
           T == {g(i) : i \in 1..n} \cup {h}
           s == <<h>>
<1>1. n \in Nat /\ DOMAIN w = 1..n
  OBVIOUS
<1>2. f = [i \in 1..n |-> g(i)]
  BY <1>1
<1> HIDE DEF g, n
<1>3. Len(f) = n /\ f \in Seq(T) /\ \A i \in 1..n : f[i] = g(i)
  BY <1>1, <1>2
<1>4. s \in Seq(T) /\ Len(s) = 1 /\ s[1] = h
  OBVIOUS
<1>a. s \in Seq(T) /\ f \in Seq(T)
  BY <1>3, <1>4
<1> HIDE DEF s, T
<1>5. /\ DOMAIN (s \o f) = 1..(Len(s) + Len(f)) /\ Len(s \o f) = Len(s) + Len(f)
      /\ \A i \in 1..Len(s) : (s \o f)[i] = s[i]
      /\ \A i \in 1..Len(f) : (s \o f)[Len(s) + i] = f[i]
  BY ONLY <1>a, InARow
<1>6. Len(s \o f) = n + 1 /\ DOMAIN (s \o f) = 1..(n + 1) /\ (s \o f)[1] = h
  BY <1>1, <1>3, <1>4, <1>5
<1>7. ASSUME NEW i \in 1..n PROVE (s \o f)[i + 1] = g(i)
  <2>1. 1 + i = i + 1
    BY <1>1
  <2> QED
    BY <1>3, <1>4, <1>5, <2>1
<1> QED
  BY <1>1, <1>5, <1>6, <1>7 DEF s, g, n

LEMMA Headed ==
  ASSUME NEW T, NEW h \in T, NEW n \in Nat, NEW f, f = [i \in 1..n |-> f[i]],
         \A i \in 1..n : f[i] \in T
  PROVE  <<h>> \o f \in Seq(T)
<1>1. f \in Seq(T)
  OBVIOUS
<1>2. <<h>> \in Seq(T)
  OBVIOUS
<1> QED
  BY <1>1, <1>2

(* A reading: what it has seen agrees, and a layout that passes, or that   *)
(* is held to be right, agrees altogether.                                 *)
Transfers(list) == UNION {{list[i][j] : j \in DOMAIN list[i]} : i \in DOMAIN list}
Checked(list, T, ph, q, good) ==
  /\ ph \in {"compare", "readback"} =>
       q[1] \in DOMAIN list /\ q[2] \in DOMAIN list[q[1]] /\ Seen(list, q[1], q[2], T)
  /\ ph \in {"compare", "rewrite", "readback", "disable"} => ~good
  /\ ph = "passed" => good
  /\ good /\ ph \in {"load", "passed"} => All(list, T)

(* The objects of a drive.                                                 *)
LEMMA LayoutObjects ==
  /\ "rxassign" \in Pdo!Objects /\ "txassign" \in Pdo!Objects
  /\ Pdo!Maps \in Seq(Pdo!Pdos) /\ Pdo!Pdos = {Pdo!Maps[i] : i \in DOMAIN Pdo!Maps}
  /\ Pdo!Pdos \subseteq Pdo!Objects
  /\ Pdo!Objects = {"rxassign", "txassign"} \cup Pdo!Pdos
  /\ \A o \in Pdo!Objects : /\ Pdo!Wanted[o] \in Seq(Pdo!Values)
                            /\ Len(Pdo!Wanted[o]) \in 0..MaxEntries
<1>1. "rxassign" \in Pdo!Objects /\ "txassign" \in Pdo!Objects
  BY DEF Pdo!Objects, Pdo!Assignments
<1>2. ASSUME NEW o \in Pdo!Objects
      PROVE  /\ Pdo!Wanted[o] \in Seq(Pdo!ToSet(Pdo!Wanted[o]))
             /\ Len(Pdo!Wanted[o]) <= MaxEntries
  BY EtherCATLayout DEF Pdo!LayoutAssumption
<1>3. ASSUME NEW o \in Pdo!Objects
      PROVE  /\ Pdo!Wanted[o] \in Seq(Pdo!Values)
             /\ Len(Pdo!Wanted[o]) \in 0..MaxEntries
  <2> DEFINE S == Pdo!ToSet(Pdo!Wanted[o])
             w == Pdo!Wanted[o]
  <2>1. S \subseteq Pdo!Values
    BY DEF Pdo!Values
  <2>2. w \in Seq(S) /\ Len(w) <= MaxEntries
    BY <1>2
  <2> HIDE DEF S, w
  <2>3. w \in Seq(Pdo!Values) /\ Len(w) \in Nat
    BY <2>1, <2>2
  <2>4. MaxEntries \in Nat
    BY EtherCATLayout DEF Pdo!LayoutAssumption
  <2>5. Len(w) \in 0..MaxEntries
    BY ONLY <2>2, <2>3, <2>4, InRange
  <2> QED
    BY <2>3, <2>5 DEF w
<1>4. Rx \in Seq(Pdo!Values) /\ Tx \in Seq(Pdo!Values)
  BY <1>1, <1>3 DEF Pdo!Wanted
<1>5. Pdo!Maps \in Seq(Pdo!Values)
  BY <1>4 DEF Pdo!Maps
<1>6. Pdo!Pdos = {Pdo!Maps[i] : i \in DOMAIN Pdo!Maps}
  BY DEF Pdo!Pdos, Pdo!ToSet
<1>7. Pdo!Maps \in Seq(Pdo!Pdos)
  <2> DEFINE m == Pdo!Maps
  <2>1. DOMAIN m = 1..Len(m) /\ Len(m) \in Nat /\ m = [i \in 1..Len(m) |-> m[i]]
    BY <1>5
  <2>2. \A i \in 1..Len(m) : m[i] \in Pdo!Pdos
    BY <1>6, <2>1
  <2> HIDE DEF m
  <2>3. m \in Seq(Pdo!Pdos)
    BY <2>1, <2>2
  <2> QED
    BY <2>3 DEF m
<1> QED
  BY <1>1, <1>3, <1>6, <1>7 DEF Pdo!Objects, Pdo!Assignments

(* What is read for them: the count of each object, then its entries.      *)
LEMMA LayoutVerifying ==
  /\ IsList(Pdo!Verifying)
  /\ \A T : All(Pdo!Verifying, T) =>
       \A o \in Pdo!Objects :
         /\ Pdo!Transfer(o, 0, Len(Pdo!Wanted[o])) \in T
         /\ \A i \in 1..Len(Pdo!Wanted[o]) : Pdo!Transfer(o, i, Pdo!Wanted[o][i]) \in T
<1> DEFINE O == Pdo!Objects
           all == <<"rxassign", "txassign">> \o Pdo!Maps
           list == Pdo!Verifying
           F == [o \in O |-> Pdo!VerifyObject(o)]
<1>1. /\ "rxassign" \in O /\ "txassign" \in O /\ Pdo!Maps \in Seq(O)
      /\ \A o \in O : o \in {"rxassign", "txassign"} \/ \E i \in DOMAIN Pdo!Maps : Pdo!Maps[i] = o
  BY LayoutObjects
<1>2. ASSUME NEW o \in O
      PROVE  /\ Len(F[o]) = Len(Pdo!Wanted[o]) + 1 /\ Len(Pdo!Wanted[o]) \in Nat
             /\ DOMAIN F[o] = 1..(Len(Pdo!Wanted[o]) + 1)
             /\ F[o][1] = Pdo!Transfer(o, 0, Len(Pdo!Wanted[o]))
             /\ \A i \in 1..Len(Pdo!Wanted[o]) :
                  F[o][i + 1] = Pdo!Transfer(o, i, Pdo!Wanted[o][i])
  <2> DEFINE w == Pdo!Wanted[o]
             h == Pdo!Transfer(o, 0, Len(w))
             f == Pdo!Fill(o)
  <2>1. w \in Seq(Pdo!Values)
    BY LayoutObjects
  <2>2. f = [i \in DOMAIN w |-> [object |-> o, sub |-> i, value |-> w[i]]]
    BY DEF Pdo!Fill, Pdo!Transfer
  <2>3. F[o] = <<h>> \o f
    BY DEF Pdo!VerifyObject
  <2> HIDE DEF w, h, f, F
  <2>4. /\ Len(w) \in Nat /\ Len(F[o]) = Len(w) + 1
        /\ DOMAIN F[o] = 1..(Len(w) + 1) /\ F[o][1] = h
        /\ \A i \in 1..Len(w) : F[o][i + 1] = [object |-> o, sub |-> i, value |-> w[i]]
    BY ONLY <2>1, <2>2, <2>3, HeadAndEntries
  <2> QED
    BY <2>4 DEF w, h, Pdo!Transfer
<1>3. list = [i \in DOMAIN all |-> F[all[i]]]
  <2>1. all \in Seq(O)
    BY <1>1, AssignmentsFirst
  <2>2. \A i \in DOMAIN all : all[i] \in O
    BY <2>1
  <2> QED
    BY <2>2 DEF Pdo!Verifying, Pdo!ForAll, Pdo!Both
<1> HIDE DEF O, F, list
<1>4. all \in Seq(O) /\ all # <<>> /\ \A o \in O : \E i \in 1..Len(all) : all[i] = o
  BY <1>1, AssignmentsFirst
<1> HIDE DEF all
<1>5. \A o \in O : Len(F[o]) \in Nat \ {0} /\ DOMAIN F[o] = 1..Len(F[o])
  BY <1>2
<1>a. /\ all \in Seq(O) /\ all # <<>>
      /\ \A o \in O : Len(F[o]) \in Nat \ {0} /\ DOMAIN F[o] = 1..Len(F[o])
      /\ list = [i \in DOMAIN all |-> F[all[i]]]
  BY ONLY <1>3, <1>4, <1>5
<1>6. /\ IsList(list)
      /\ \A T : All(list, T) =>
           \A i \in 1..Len(all) : \A j \in 1..Len(F[all[i]]) : F[all[i]][j] \in T
  BY ONLY <1>a, ListOf
<1>7. ASSUME NEW T, All(list, T), NEW o \in O
      PROVE  /\ Pdo!Transfer(o, 0, Len(Pdo!Wanted[o])) \in T
             /\ \A i \in 1..Len(Pdo!Wanted[o]) : Pdo!Transfer(o, i, Pdo!Wanted[o][i]) \in T
  <2>1. PICK k \in 1..Len(all) : all[k] = o
    BY <1>4
  <2>2. \A j \in 1..(Len(Pdo!Wanted[o]) + 1) : F[o][j] \in T
    BY <1>2, <1>6, <1>7, <2>1
  <2>3. ASSUME NEW i \in 1..Len(Pdo!Wanted[o]) PROVE Pdo!Transfer(o, i, Pdo!Wanted[o][i]) \in T
    <3>1. i + 1 \in 1..(Len(Pdo!Wanted[o]) + 1)
      BY <1>2
    <3> QED
      BY <1>2, <2>2, <3>1
  <2>4. 1 \in 1..(Len(Pdo!Wanted[o]) + 1)
    BY <1>2
  <2> QED
    BY <1>2, <2>2, <2>3, <2>4
<1> QED
  BY <1>6, <1>7 DEF list, O

(* What is read and held by a drive.                                       *)
LayoutHeld == {t \in Transfers(Pdo!Verifying) : Pdo!Matches(t)}
LayoutChecked == Checked(Pdo!Verifying, LayoutHeld, phase, pos, ok)

LEMMA LayoutCheckedStarts == Pdo!Init => LayoutChecked
BY DEF Pdo!Init, LayoutChecked, Checked

LEMMA LayoutCheckedStep == LayoutChecked /\ [Pdo!Next]_pdoVars => LayoutChecked'
<1> DEFINE V == Pdo!Verifying
           T == LayoutHeld
<1> SUFFICES ASSUME Checked(V, T, phase, pos, ok), [Pdo!Next]_pdoVars
             PROVE  Checked(V, T', phase', pos', ok')
  BY DEF LayoutChecked
<1>0. IsList(V)
  BY LayoutVerifying
<1>1. dict' = dict => T' = T
  BY DEF LayoutHeld, Pdo!Matches
<1>2. CASE UNCHANGED pdoVars
  BY <1>1, <1>2 DEF pdoVars
<1>3. CASE Pdo!Start
  BY <1>0, <1>3, ListBegins DEF Pdo!Start, Pdo!GoTo, Checked
<1>4. ASSUME NEW from \in {"compare", "readback"}, NEW differs \in {"rewrite", "disable"},
             Pdo!Reading(from, differs)
      PROVE  Checked(V, T', phase', pos', ok')
  <2>1. /\ phase = from /\ ~ok /\ T' = T
        /\ pos[1] \in DOMAIN V /\ pos[2] \in DOMAIN V[pos[1]] /\ Seen(V, pos[1], pos[2], T)
    BY <1>1, <1>4 DEF Pdo!Reading, Checked
  <2>2. CASE Pdo!GoTo(differs) /\ UNCHANGED ok
    BY <2>1, <2>2 DEF Pdo!GoTo, Checked
  <2>3. CASE /\ Pdo!Matches(Pdo!Due(V))
             /\ IF Pdo!AtEnd(V) THEN Pdo!GoTo("load") /\ ok' = TRUE
                ELSE Pdo!Advance(V) /\ UNCHANGED <<phase, ok>>
    <3>1. V[pos[1]][pos[2]] \in T
      <4>1. V[pos[1]][pos[2]] \in Transfers(V)
        BY <2>1 DEF Transfers
      <4>2. Pdo!Matches(V[pos[1]][pos[2]])
        BY <2>3 DEF Pdo!Due
      <4> QED
        BY <4>1, <4>2 DEF LayoutHeld
    <3>2. CASE Pdo!AtEnd(V)
      <4>1. All(V, T)
        <5> DEFINE q == IF pos[2] < Len(V[pos[1]]) THEN <<pos[1], pos[2] + 1>>
                        ELSE <<pos[1] + 1, 1>>
        <5>1. pos[1] = Len(V) /\ pos[2] = Len(V[pos[1]])
          BY <3>2 DEF Pdo!AtEnd
        <5> HIDE DEF V, T
        <5> QED
          BY <1>0, <2>1, <3>1, <5>1, ListAdvances
      <4> QED
        BY <2>1, <2>3, <3>2, <4>1 DEF Pdo!GoTo, Checked
    <3>3. CASE ~Pdo!AtEnd(V)
      <4>1. /\ pos' = IF pos[2] < Len(V[pos[1]]) THEN <<pos[1], pos[2] + 1>>
                      ELSE <<pos[1] + 1, 1>>
            /\ ~(pos[1] = Len(V) /\ pos[2] = Len(V[pos[1]]))
            /\ phase' = phase /\ ok' = ok
        BY <2>3, <3>3 DEF Pdo!AtEnd, Pdo!Advance
      <4> HIDE DEF V, T
      <4>2. pos'[1] \in DOMAIN V /\ pos'[2] \in DOMAIN V[pos'[1]] /\ Seen(V, pos'[1], pos'[2], T)
        BY <1>0, <2>1, <3>1, <4>1, ListAdvances
      <4> QED
        BY <2>1, <4>1, <4>2 DEF Checked
    <3> QED
      BY <3>2, <3>3
  <2> QED
    BY <1>4, <2>2, <2>3 DEF Pdo!Reading
<1>5. CASE Pdo!Rewrite
  <2>1. ~ok /\ ok' = ok /\ phase' \in {"disable", "rewrite", "readback"}
        /\ (phase' = "readback" => pos' = <<1, 1>>)
    BY <1>5 DEF Pdo!Rewrite, Pdo!GoTo, Checked
  <2> QED
    BY <1>0, <2>1, ListBegins DEF Checked
<1>6. CASE Pdo!Disable
  <2>1. ~ok /\ ok' = ok /\ phase' \in {"disable", "load"}
    BY <1>6 DEF Pdo!Disable, Pdo!GoTo, Checked
  <2> QED
    BY <2>1 DEF Checked
<1>7. CASE Pdo!Load
  BY <1>1, <1>7 DEF Pdo!Load, Pdo!GoTo, Checked
<1>8. CASE Pdo!Restart
  BY <1>8 DEF Pdo!Restart, Pdo!GoTo, Checked
<1> QED
  BY <1>2, <1>3, <1>4, <1>5, <1>6, <1>7, <1>8
     DEF Pdo!Next, Pdo!Configure, Pdo!Compare, Pdo!ReadBack

(* What is read last is the layout that is wanted.                         *)
LEMMA LayoutPasses == LayoutChecked => Pdo!PassedIsWanted
<1> SUFFICES ASSUME LayoutChecked, phase = "passed", NEW o \in Pdo!Objects
             PROVE  Pdo!Value(o) = Pdo!Wanted[o]
  BY DEF Pdo!PassedIsWanted
<1> DEFINE w == Pdo!Wanted[o]
<1>1. All(Pdo!Verifying, LayoutHeld)
  BY DEF LayoutChecked, Checked
<1>2. /\ Pdo!Transfer(o, 0, Len(w)) \in LayoutHeld
      /\ \A i \in 1..Len(w) : Pdo!Transfer(o, i, w[i]) \in LayoutHeld
  BY <1>1, LayoutVerifying
<1>3. dict[o].count = Len(w)
  BY <1>2 DEF LayoutHeld, Pdo!Matches, Pdo!Transfer
<1>4. ASSUME NEW i \in 1..Len(w) PROVE dict[o].entry[i] = w[i]
  <2>1. Pdo!Matches(Pdo!Transfer(o, i, w[i])) /\ i # 0
    BY <1>2 DEF LayoutHeld
  <2> QED
    BY <2>1 DEF Pdo!Matches, Pdo!Transfer
<1>5. w \in Seq(Pdo!Values)
  BY LayoutObjects
<1> HIDE DEF w
<1>6. w = [i \in 1..Len(w) |-> w[i]]
  BY <1>5
<1>7. [i \in 1..dict[o].count |-> dict[o].entry[i]] = [i \in 1..Len(w) |-> w[i]]
  BY <1>3, <1>4
<1> QED
  BY <1>6, <1>7 DEF Pdo!Value, Pdo!InForce, w


(* What is written: counts and entries that an object has room for.  The   *)
(* object is emptied, filled and counted.                                  *)
LayoutWrites ==
  [object : Pdo!Objects, sub : {0}, value : 0..MaxEntries]
    \cup [object : Pdo!Objects, sub : 1..MaxEntries, value : Pdo!Values]

LEMMA LayoutObjectWrites ==
  ASSUME NEW o \in Pdo!Objects, NEW w, w = Pdo!Wanted[o], NEW s, s = Pdo!WriteObject(o)
  PROVE  /\ Len(w) \in 0..MaxEntries /\ Len(s) = Len(w) + 2 /\ DOMAIN s = 1..(Len(w) + 2)
         /\ s[1] = Pdo!Transfer(o, 0, 0)
         /\ \A i \in 1..Len(w) : s[i + 1] = Pdo!Transfer(o, i, w[i])
         /\ s[Len(w) + 2] = Pdo!Transfer(o, 0, Len(w))
         /\ \A j \in 1..(Len(w) + 2) : s[j] \in LayoutWrites
<1> DEFINE h == Pdo!Transfer(o, 0, 0)
           f == Pdo!Fill(o)
           e == Pdo!Transfer(o, 0, Len(w))
           a == <<h>> \o f
           b == <<e>>
<1>1. /\ w \in Seq(Pdo!Values) /\ Len(w) \in 0..MaxEntries /\ MaxEntries \in Nat
      /\ DOMAIN w = 1..Len(w) /\ \A i \in 1..Len(w) : w[i] \in Pdo!Values
  <2>1. w \in Seq(Pdo!Values) /\ Len(w) \in 0..MaxEntries
    BY LayoutObjects
  <2>2. MaxEntries \in Nat
    BY EtherCATLayout DEF Pdo!LayoutAssumption
  <2> QED
    BY <2>1, <2>2
<1>2. f = [i \in DOMAIN w |-> [object |-> o, sub |-> i, value |-> w[i]]]
  BY DEF Pdo!Fill, Pdo!Transfer
<1>3. s = a \o b
  BY DEF Pdo!WriteObject
<1> HIDE DEF h, f, e
<1>a. /\ w \in Seq(Pdo!Values) /\ f = [i \in DOMAIN w |-> [object |-> o, sub |-> i, value |-> w[i]]]
      /\ a = <<h>> \o f
  BY <1>1, <1>2
<1> HIDE DEF a
<1>4. /\ Len(w) \in Nat /\ Len(a) = Len(w) + 1
      /\ DOMAIN a = 1..(Len(w) + 1) /\ a[1] = h
      /\ \A i \in 1..Len(w) : a[i + 1] = [object |-> o, sub |-> i, value |-> w[i]]
  BY ONLY <1>a, HeadAndEntries
<1>5. a \in Seq({h} \cup {f[i] : i \in 1..Len(w)})
  <2> DEFINE T == {h} \cup {f[i] : i \in 1..Len(w)}
  <2>1. /\ h \in T /\ Len(w) \in Nat /\ f = [i \in 1..Len(w) |-> f[i]]
        /\ \A i \in 1..Len(w) : f[i] \in T
    BY <1>1, <1>2
  <2> HIDE DEF T
  <2>2. <<h>> \o f \in Seq(T)
    BY ONLY <2>1, Headed
  <2> QED
    BY <1>a, <2>2 DEF T
<1> DEFINE S == {h} \cup {f[i] : i \in 1..Len(w)} \cup {e}
<1>6. a \in Seq(S) /\ b \in Seq(S) /\ Len(b) = 1 /\ b[1] = e
  BY <1>5
<1>b. a \in Seq(S) /\ b \in Seq(S)
  BY <1>6
<1> HIDE DEF b, S
<1>7. /\ DOMAIN (a \o b) = 1..(Len(a) + Len(b)) /\ Len(a \o b) = Len(a) + Len(b)
      /\ \A i \in 1..Len(a) : (a \o b)[i] = a[i]
      /\ \A i \in 1..Len(b) : (a \o b)[Len(a) + i] = b[i]
  BY ONLY <1>b, InARow
<1>8. /\ Len(s) = Len(w) + 2 /\ DOMAIN s = 1..(Len(w) + 2)
      /\ \A i \in 1..(Len(w) + 1) : s[i] = a[i]
      /\ s[Len(w) + 2] = e
  <2>1. Len(a) + 1 = Len(w) + 2
    BY <1>4
  <2> QED
    BY <1>3, <1>4, <1>6, <1>7, <2>1
<1>9. s[1] = Pdo!Transfer(o, 0, 0) /\ s[Len(w) + 2] = Pdo!Transfer(o, 0, Len(w))
  BY <1>4, <1>8 DEF h, e
<1>10. ASSUME NEW i \in 1..Len(w) PROVE s[i + 1] = Pdo!Transfer(o, i, w[i])
  <2>1. i + 1 \in 1..(Len(w) + 1)
    BY <1>4
  <2> QED
    BY <1>4, <1>8, <2>1 DEF Pdo!Transfer
<1>11. ASSUME NEW j \in 1..(Len(w) + 2) PROVE s[j] \in LayoutWrites
  <2>0. Len(w) \in Nat /\ 0 \in 0..MaxEntries
    BY <1>1
  <2>1. CASE j = 1
    BY <1>9, <2>0, <2>1 DEF LayoutWrites, Pdo!Transfer
  <2>2. CASE j = Len(w) + 2
    BY <1>1, <1>9, <2>2 DEF LayoutWrites, Pdo!Transfer
  <2>3. ASSUME NEW i \in 1..Len(w), j = i + 1 PROVE s[j] \in LayoutWrites
    <3>1. i \in 1..MaxEntries /\ w[i] \in Pdo!Values
      BY <1>1
    <3>2. s[j] = [object |-> o, sub |-> i, value |-> w[i]]
      BY <1>10, <2>3 DEF Pdo!Transfer
    <3>3. s[j] \in [object : Pdo!Objects, sub : 1..MaxEntries, value : Pdo!Values]
      BY <3>1, <3>2
    <3> QED
      BY <3>3 DEF LayoutWrites
  <2>4. j = 1 \/ j = Len(w) + 2 \/ (j - 1 \in 1..Len(w) /\ j = (j - 1) + 1)
    BY <2>0
  <2> QED
    BY <2>1, <2>2, <2>3, <2>4
<1> QED
  BY <1>1, <1>8, <1>9, <1>10, <1>11

(* The assignments are emptied, every map is written, then the assignments. *)
LEMMA LayoutDisabling ==
  /\ IsList(Pdo!Disabling) /\ Len(Pdo!Disabling) = 2
  /\ Pdo!Disabling[1] = <<Pdo!Transfer("rxassign", 0, 0)>>
  /\ Pdo!Disabling[2] = <<Pdo!Transfer("txassign", 0, 0)>>
  /\ \A i \in DOMAIN Pdo!Disabling : \A j \in DOMAIN Pdo!Disabling[i] :
       /\ j = 1 /\ Pdo!Disabling[i][j] \in LayoutWrites
       /\ Pdo!Disabling[i][j].object \in Pdo!Assignments
       /\ Pdo!Disabling[i][j].sub = 0 /\ Pdo!Disabling[i][j].value = 0
<1> DEFINE d == Pdo!Disabling
           r == Pdo!Transfer("rxassign", 0, 0)
           t == Pdo!Transfer("txassign", 0, 0)
<1>1. d = <<(<<r>>), (<<t>>)>>
  BY DEF Pdo!Disabling, Pdo!ForAll, Pdo!Both
<1>2. /\ r \in LayoutWrites /\ r.object \in Pdo!Assignments /\ r.sub = 0 /\ r.value = 0
      /\ t \in LayoutWrites /\ t.object \in Pdo!Assignments /\ t.sub = 0 /\ t.value = 0
  <2>1. 0 \in 0..MaxEntries
    BY EtherCATLayout DEF Pdo!LayoutAssumption
  <2>2. r \in LayoutWrites
    BY <2>1, LayoutObjects DEF LayoutWrites, Pdo!Transfer
  <2>3. t \in LayoutWrites
    BY <2>1, LayoutObjects DEF LayoutWrites, Pdo!Transfer
  <2> QED
    BY <2>2, <2>3 DEF Pdo!Transfer, Pdo!Assignments
<1> HIDE DEF d, r, t
<1>3. Len(d) = 2 /\ DOMAIN d = 1..2 /\ d[1] = <<r>> /\ d[2] = <<t>>
  BY <1>1
<1>4. /\ Len(d[1]) = 1 /\ DOMAIN d[1] = 1..1 /\ d[1][1] = r
      /\ Len(d[2]) = 1 /\ DOMAIN d[2] = 1..1 /\ d[2][1] = t
  BY <1>3
<1>5. IsList(d)
  BY <1>3, <1>4 DEF IsList
<1>6. ASSUME NEW i \in DOMAIN d, NEW j \in DOMAIN d[i]
      PROVE  /\ j = 1 /\ d[i][j] \in LayoutWrites /\ d[i][j].object \in Pdo!Assignments
             /\ d[i][j].sub = 0 /\ d[i][j].value = 0
  <2>1. i = 1 \/ i = 2
    BY <1>3
  <2> QED
    BY <1>2, <1>4, <2>1
<1> QED
  BY <1>3, <1>5, <1>6 DEF d, r, t

LEMMA LayoutRewriting ==
  LET n == Len(Pdo!Maps)
      list == Pdo!Rewriting
  IN /\ n \in Nat /\ IsList(list) /\ Len(list) = n + 4
     /\ list[1] = <<Pdo!Transfer("rxassign", 0, 0)>>
     /\ list[2] = <<Pdo!Transfer("txassign", 0, 0)>>
     /\ \A i \in 1..n : list[i + 2] = Pdo!WriteObject(Pdo!Maps[i])
     /\ list[n + 3] = Pdo!WriteObject("rxassign")
     /\ list[n + 4] = Pdo!WriteObject("txassign")
<1> DEFINE n == Len(Pdo!Maps)
           d == Pdo!Disabling
           O == Pdo!Objects
           m == Pdo!Maps
           b == <<"rxassign", "txassign">>
           objects == m \o b
           F == [o \in O |-> Pdo!WriteObject(o)]
           l == [i \in DOMAIN objects |-> F[objects[i]]]
           S == {F[o] : o \in O} \cup {d[1], d[2]}
<1>1. /\ m \in Seq(O) /\ b \in Seq(O) /\ Len(b) = 2 /\ b[1] = "rxassign" /\ b[2] = "txassign"
      /\ "rxassign" \in O /\ "txassign" \in O
  BY LayoutObjects
<1>2. Pdo!Rewriting = d \o l
  <2>1. objects \in Seq(O)
    BY <1>1
  <2>2. \A i \in DOMAIN objects : objects[i] \in O
    BY <2>1
  <2> QED
    BY <2>2 DEF Pdo!Rewriting, Pdo!ForAll, Pdo!Both
<1>a. /\ \A o \in O : F[o] = Pdo!WriteObject(o) /\ F[o] \in S
      /\ d[1] \in S /\ d[2] \in S
  OBVIOUS
<1>b. l = [i \in DOMAIN objects |-> F[objects[i]]]
  OBVIOUS
<1> HIDE DEF b, F, O, m, n, S, l
<1>3. m \in Seq(O) /\ b \in Seq(O)
  BY <1>1
<1>4. /\ objects \in Seq(O) /\ Len(m) \in Nat /\ Len(objects) = Len(m) + Len(b)
      /\ \A i \in 1..Len(m) : objects[i] = m[i]
      /\ \A i \in 1..Len(b) : objects[Len(m) + i] = b[i]
  BY ONLY <1>3, InARow
<1>5. n = Len(m) /\ n \in Nat /\ Len(objects) = n + 2 /\ objects # <<>>
  <2>1. n = Len(m) /\ n \in Nat /\ Len(objects) = n + 2
    BY <1>1, <1>4 DEF n, m
  <2>2. Len(objects) # 0
    BY <2>1
  <2> QED
    BY <2>1, <2>2
<1>6. \A o \in O : Len(F[o]) \in Nat \ {0} /\ DOMAIN F[o] = 1..Len(F[o])
  <2> SUFFICES ASSUME NEW o \in O PROVE Len(F[o]) \in Nat \ {0} /\ DOMAIN F[o] = 1..Len(F[o])
    OBVIOUS
  <2> DEFINE k == Len(Pdo!Wanted[o])
  <2>0. F[o] = Pdo!WriteObject(o)
    BY <1>a
  <2>1. k \in 0..MaxEntries /\ Len(F[o]) = k + 2 /\ DOMAIN F[o] = 1..(k + 2)
    BY <2>0, LayoutObjectWrites DEF O
  <2>2. k \in Nat
    BY <2>1
  <2> HIDE DEF k
  <2> QED
    BY <2>1, <2>2
<1> HIDE DEF objects
<1>7. /\ objects \in Seq(O) /\ objects # <<>>
      /\ \A o \in O : Len(F[o]) \in Nat \ {0} /\ DOMAIN F[o] = 1..Len(F[o])
      /\ l = [i \in DOMAIN objects |-> F[objects[i]]]
  BY <1>4, <1>5, <1>6, <1>b
<1>8. /\ IsList(l) /\ Len(l) = Len(objects)
      /\ \A i \in 1..Len(objects) : l[i] = F[objects[i]]
  BY ONLY <1>7, ListOf
<1>9. l \in Seq(S)
  <2>1. /\ objects \in Seq(O) /\ \A o \in O : F[o] \in S
        /\ l = [i \in DOMAIN objects |-> F[objects[i]]]
    BY <1>4, <1>a, <1>b
  <2> QED
    BY ONLY <2>1, ListAsSequence
<1>10. d \in Seq(S)
  <2> DEFINE u == d[1]
             v == d[2]
  <2>1. d = <<u, v>>
    BY DEF Pdo!Disabling, Pdo!ForAll, Pdo!Both
  <2>2. u \in S /\ v \in S
    BY <1>a
  <2> HIDE DEF u, v
  <2>3. <<u, v>> \in Seq(S)
    BY <2>2
  <2> QED
    BY <2>1, <2>3
<1>11. IsList(d) /\ Len(d) = 2
  BY LayoutDisabling
<1>c. d[1] = <<Pdo!Transfer("rxassign", 0, 0)>> /\ d[2] = <<Pdo!Transfer("txassign", 0, 0)>>
  BY LayoutDisabling
<1> HIDE DEF d
<1>12. d \in Seq(S) /\ l \in Seq(S)
  BY <1>9, <1>10
<1>13. /\ DOMAIN (d \o l) = 1..(Len(d) + Len(l)) /\ Len(d \o l) = Len(d) + Len(l)
       /\ \A i \in 1..Len(d) : (d \o l)[i] = d[i]
       /\ \A i \in 1..Len(l) : (d \o l)[Len(d) + i] = l[i]
  BY ONLY <1>12, InARow
<1> DEFINE list == d \o l
<1> HIDE DEF list
<1>14. /\ DOMAIN list = 1..(n + 4) /\ Len(list) = n + 4
       /\ list[1] = d[1] /\ list[2] = d[2]
       /\ \A i \in 1..(n + 2) : list[i + 2] = l[i]
  <2>1. Len(l) = n + 2 /\ n \in Nat
    BY <1>5, <1>8
  <2>2. 2 + (n + 2) = n + 4 /\ \A i \in 1..(n + 2) : 2 + i = i + 2
    BY <2>1
  <2> QED
    BY <1>11, <1>13, <2>1, <2>2 DEF list
<1>15. IsList(list)
  <2>1. ASSUME NEW i \in 1..(n + 4)
        PROVE  Len(list[i]) \in Nat \ {0} /\ DOMAIN list[i] = 1..Len(list[i])
    <3>1. CASE i \in {1, 2}
      BY <1>11, <1>14, <3>1 DEF IsList
    <3>2. ASSUME NEW k \in 1..(n + 2), i = k + 2
          PROVE  Len(list[i]) \in Nat \ {0} /\ DOMAIN list[i] = 1..Len(list[i])
      <4>1. list[i] = l[k] /\ k \in 1..Len(l)
        BY <1>5, <1>8, <1>14, <3>2
      <4> QED
        BY <1>8, <4>1 DEF IsList
    <3>3. i \in {1, 2} \/ (i - 2 \in 1..(n + 2) /\ i = (i - 2) + 2)
      BY <1>5
    <3> QED
      BY <3>1, <3>2, <3>3
  <2> QED
    BY <1>5, <1>14, <2>1 DEF IsList
<1>16. ASSUME NEW i \in 1..(n + 2) PROVE list[i + 2] = Pdo!WriteObject(objects[i])
  <2>1. objects[i] \in O
    BY <1>4, <1>5
  <2> QED
    BY <1>5, <1>8, <1>14, <1>a, <2>1
<1>17. ASSUME NEW i \in 1..n PROVE list[i + 2] = Pdo!WriteObject(m[i])
  <2>1. i \in 1..(n + 2) /\ objects[i] = m[i]
    BY <1>4, <1>5
  <2> QED
    BY <1>16, <2>1
<1>18. list[n + 3] = Pdo!WriteObject("rxassign") /\ list[n + 4] = Pdo!WriteObject("txassign")
  <2>1. /\ n + 1 \in 1..(n + 2) /\ (n + 1) + 2 = n + 3 /\ objects[n + 1] = "rxassign"
        /\ n + 2 \in 1..(n + 2) /\ (n + 2) + 2 = n + 4 /\ objects[n + 2] = "txassign"
    BY <1>1, <1>4, <1>5
  <2> QED
    BY <1>16, <2>1
<1>19. list = Pdo!Rewriting
  BY <1>2 DEF list
<1> QED
  BY <1>5, <1>14, <1>15, <1>17, <1>18, <1>19, <1>c DEF n, m

(* What the firmware knows of the drive.  Either no assignment is in force *)
(* or every map is a whole one; while it writes, the assignments are off   *)
(* before the first map is touched and until the last is done.             *)
LayoutDicts ==
  [Pdo!Objects -> [count : 0..MaxEntries, entry : [1..MaxEntries -> Pdo!Values]]]
LayoutTyped ==
  /\ dict \in LayoutDicts
  /\ phase \in {"start", "compare", "rewrite", "readback", "disable", "load", "passed", "failed"}
  /\ ok \in BOOLEAN
  /\ phase = "disable" => Pdo!Within(Pdo!Disabling)
LayoutOff == dict["rxassign"].count = 0 /\ dict["txassign"].count = 0
LayoutFull(p) == Pdo!Value(p) = Pdo!Wanted[p]
LayoutWhole ==
  \A p \in Pdo!Pdos : Pdo!Value(p) \in {Pdo!Wanted[p], Pdo!InForce(first[p])}
LayoutMapped == LayoutOff \/ LayoutWhole
LayoutBegun ==
  phase = "rewrite" =>
    /\ Pdo!Within(Pdo!Rewriting)
    /\ pos[1] = 2 => dict["rxassign"].count = 0
    /\ pos[1] \in 3..(Len(Pdo!Maps) + 2) => LayoutOff
LayoutDone ==
  phase = "rewrite" =>
    \A i \in 1..Len(Pdo!Maps) :
      /\ i + 2 < pos[1] => LayoutFull(Pdo!Maps[i])
      /\ i + 2 = pos[1] =>
           \A k \in 1..Len(Pdo!Wanted[Pdo!Maps[i]]) :
             k + 1 < pos[2] => dict[Pdo!Maps[i]].entry[k] = Pdo!Wanted[Pdo!Maps[i]][k]
LayoutInv == LayoutTyped /\ LayoutChecked /\ LayoutMapped /\ LayoutBegun /\ LayoutDone

(* What one transfer does to the dictionary.                               *)
LEMMA LayoutApplied ==
  ASSUME dict \in LayoutDicts, NEW t \in LayoutWrites, dict' = Pdo!Apply(t)
  PROVE  /\ dict' \in LayoutDicts /\ t.object \in Pdo!Objects
         /\ \A o \in Pdo!Objects : o # t.object => dict'[o] = dict[o]
         /\ dict'[t.object].count = IF t.sub = 0 THEN t.value ELSE dict[t.object].count
         /\ \A k \in 1..MaxEntries :
              dict'[t.object].entry[k] = IF t.sub = k THEN t.value ELSE dict[t.object].entry[k]
<1> DEFINE O == Pdo!Objects
           C == 0..MaxEntries
           E == [1..MaxEntries -> Pdo!Values]
           R == [count : C, entry : E]
<1>0. MaxEntries \in Nat
  BY EtherCATLayout DEF Pdo!LayoutAssumption
<1>1. dict \in [O -> R]
  BY DEF LayoutDicts
<1>2. CASE t.sub = 0
  <2>1. t.object \in O /\ t.value \in C
    BY <1>0, <1>2 DEF LayoutWrites
  <2>2. dict' = [dict EXCEPT ![t.object].count = t.value]
    BY <1>2 DEF Pdo!Apply
  <2>3. dict[t.object] \in R
    BY <1>1, <2>1
  <2>4. [dict[t.object] EXCEPT !.count = t.value] \in R
    BY <2>1, <2>3
  <2> HIDE DEF R
  <2>5. dict' \in [O -> R]
    BY <1>1, <2>1, <2>2, <2>4
  <2>6. \A o \in O : o # t.object => dict'[o] = dict[o]
    BY <1>1, <2>2
  <2>7. dict'[t.object] = [dict[t.object] EXCEPT !.count = t.value]
    BY <1>1, <2>1, <2>2
  <2>8. dict'[t.object].count = t.value /\ dict'[t.object].entry = dict[t.object].entry
    BY <2>3, <2>7 DEF R
  <2> QED
    BY <1>2, <2>1, <2>5, <2>6, <2>8 DEF LayoutDicts, R
<1>3. CASE t.sub # 0
  <2>1. t.object \in O /\ t.sub \in 1..MaxEntries /\ t.value \in Pdo!Values
    BY <1>3 DEF LayoutWrites
  <2>2. dict' = [dict EXCEPT ![t.object].entry[t.sub] = t.value]
    BY <1>3 DEF Pdo!Apply
  <2>3. dict[t.object] \in R
    BY <1>1, <2>1
  <2>4. [dict[t.object].entry EXCEPT ![t.sub] = t.value] \in E
    BY <2>1, <2>3
  <2>5. [dict[t.object] EXCEPT !.entry[t.sub] = t.value] \in R
    BY <2>3, <2>4
  <2> HIDE DEF R
  <2>6. dict' \in [O -> R]
    BY <1>1, <2>1, <2>2, <2>5
  <2>7. \A o \in O : o # t.object => dict'[o] = dict[o]
    BY <1>1, <2>2
  <2>8. dict'[t.object] = [dict[t.object] EXCEPT !.entry[t.sub] = t.value]
    BY <1>1, <2>1, <2>2
  <2>9. /\ dict'[t.object].count = dict[t.object].count
        /\ dict'[t.object].entry = [dict[t.object].entry EXCEPT ![t.sub] = t.value]
    BY <2>3, <2>8 DEF R
  <2>10. ASSUME NEW k \in 1..MaxEntries
         PROVE  dict'[t.object].entry[k] = IF t.sub = k THEN t.value ELSE dict[t.object].entry[k]
    <3>1. dict[t.object].entry \in E
      BY <2>3 DEF R
    <3> QED
      BY <2>1, <2>9, <3>1
  <2> QED
    BY <1>3, <2>1, <2>6, <2>7, <2>9, <2>10 DEF LayoutDicts, R
<1> QED
  BY <1>2, <1>3

LEMMA LayoutStarts == Pdo!Init => LayoutInv
<1> SUFFICES ASSUME Pdo!Init PROVE LayoutInv
  OBVIOUS
<1>1. PICK values \in Old \cup {Pdo!Wanted} : dict = Pdo!Filled(values)
  BY DEF Pdo!Init
<1>2. phase = "start" /\ pos = <<1, 1>> /\ ok = FALSE /\ first = dict
  BY DEF Pdo!Init
<1>3. ASSUME NEW o \in Pdo!Objects
      PROVE  dict[o] \in [count : 0..MaxEntries, entry : [1..MaxEntries -> Pdo!Values]]
  <2> DEFINE s == values[o]
             S == Pdo!ToSet(s)
             V == Pdo!Values
             L == MaxEntries
             room == [i \in 1..L |-> IF i <= Len(s) THEN s[i] ELSE "none"]
  <2>1. s \in Seq(S) /\ Len(s) <= L
    BY EtherCATLayout DEF Pdo!LayoutAssumption
  <2>2. S \subseteq V /\ "none" \in V
    BY DEF Pdo!Values
  <2>3. dict[o] = [count |-> Len(s), entry |-> room]
    BY <1>1 DEF Pdo!Filled, Pdo!Room
  <2>4. L \in Nat
    BY EtherCATLayout DEF Pdo!LayoutAssumption
  <2> HIDE DEF s, S, V, L
  <2>5. Len(s) \in Nat /\ \A i \in 1..Len(s) : s[i] \in V
    BY <2>1, <2>2
  <2>6. Len(s) \in 0..L
    BY ONLY <2>1, <2>4, <2>5, InRange
  <2>7. ASSUME NEW i \in 1..L PROVE (IF i <= Len(s) THEN s[i] ELSE "none") \in V
    BY <2>2, <2>4, <2>5
  <2>8. room \in [1..L -> V]
    BY <2>7
  <2> HIDE DEF room
  <2>9. dict[o] \in [count : 0..L, entry : [1..L -> V]]
    BY <2>3, <2>6, <2>8
  <2> QED
    BY <2>9 DEF L, V
<1>4. dict \in LayoutDicts
  <2>1. dict = [o \in Pdo!Objects |-> dict[o]]
    BY <1>1 DEF Pdo!Filled
  <2> QED
    BY <1>3, <2>1 DEF LayoutDicts
<1>5. LayoutWhole
  BY <1>2 DEF LayoutWhole, Pdo!Value
<1> QED
  BY <1>2, <1>4, <1>5, LayoutCheckedStarts
     DEF LayoutInv, LayoutTyped, LayoutMapped, LayoutBegun, LayoutDone

(* A transfer to an assignment leaves the maps as they are.                *)
LEMMA LayoutAssigned ==
  ASSUME dict \in LayoutDicts, NEW t \in LayoutWrites, dict' = Pdo!Apply(t),
         t.object \in Pdo!Assignments, first' = first
  PROVE  /\ \A p \in Pdo!Pdos : dict'[p] = dict[p]
         /\ LayoutWhole => LayoutWhole'
         /\ \A p \in Pdo!Pdos : LayoutFull(p) => LayoutFull(p)'
<1>1. ASSUME NEW p \in Pdo!Pdos PROVE p \in Pdo!Objects /\ p # t.object
  BY LayoutObjects, EtherCATLayout DEF Pdo!LayoutAssumption
<1>2. \A p \in Pdo!Pdos : dict'[p] = dict[p]
  BY <1>1, LayoutApplied
<1>3. ASSUME LayoutWhole PROVE LayoutWhole'
  BY <1>2, <1>3 DEF LayoutWhole, Pdo!Value
<1>4. ASSUME NEW p \in Pdo!Pdos, LayoutFull(p) PROVE LayoutFull(p)'
  BY <1>2, <1>4 DEF LayoutFull, Pdo!Value
<1> QED
  BY <1>2, <1>3, <1>4

(* An assignment is emptied.                                               *)
LEMMA LayoutCleared ==
  ASSUME dict \in LayoutDicts, LayoutMapped, NEW t \in LayoutWrites, dict' = Pdo!Apply(t),
         t.object \in Pdo!Assignments, t.sub = 0, t.value = 0, first' = first
  PROVE  dict' \in LayoutDicts /\ LayoutMapped' /\ dict'[t.object].count = 0
<1>1. /\ dict' \in LayoutDicts
      /\ \A o \in Pdo!Objects : o # t.object => dict'[o] = dict[o]
      /\ dict'[t.object].count = 0
  BY LayoutApplied
<1>2. CASE LayoutOff
  <2>1. LayoutOff'
    BY <1>1, <1>2, LayoutObjects DEF LayoutOff
  <2> QED
    BY <1>1, <2>1 DEF LayoutMapped
<1>3. CASE LayoutWhole
  BY <1>1, <1>3, LayoutAssigned DEF LayoutMapped
<1> QED
  BY <1>2, <1>3 DEF LayoutMapped

(* The assignments are emptied one after the other.                        *)
LEMMA LayoutEmptied ==
  ASSUME LayoutInv, Pdo!Disable
  PROVE  LayoutTyped' /\ LayoutMapped' /\ LayoutBegun' /\ LayoutDone'
<1> DEFINE D == Pdo!Disabling
           t == D[pos[1]][pos[2]]
<1>1. /\ dict \in LayoutDicts /\ ok \in BOOLEAN /\ LayoutMapped /\ phase = "disable"
      /\ pos[1] \in DOMAIN D /\ pos[2] \in DOMAIN D[pos[1]]
      /\ ok' = ok /\ first' = first
  BY DEF LayoutInv, LayoutTyped, Pdo!Within, Pdo!Disable
<1>2. t \in LayoutWrites /\ t.object \in Pdo!Assignments /\ t.sub = 0 /\ t.value = 0
  BY <1>1, LayoutDisabling
<1>3. dict' \in LayoutDicts /\ LayoutMapped'
  <2>1. dict' = Pdo!Apply(t) \/ dict' = dict
    BY DEF Pdo!Disable, Pdo!Written, Pdo!Due
  <2>2. CASE dict' = Pdo!Apply(t)
    <3> HIDE DEF t
    <3> QED
      BY <1>1, <1>2, <2>2, LayoutCleared
  <2>3. CASE dict' = dict
    BY <1>1, <2>3 DEF LayoutMapped, LayoutOff, LayoutWhole, Pdo!Value
  <2> QED
    BY <2>1, <2>2, <2>3
<1>4. CASE Pdo!AtEnd(D) /\ Pdo!GoTo("load")
  BY <1>1, <1>3, <1>4 DEF LayoutTyped, LayoutBegun, LayoutDone, Pdo!GoTo
<1>5. CASE ~Pdo!AtEnd(D) /\ Pdo!Advance(D) /\ UNCHANGED phase
  <2>1. /\ pos' = IF pos[2] < Len(D[pos[1]]) THEN <<pos[1], pos[2] + 1>>
                  ELSE <<pos[1] + 1, 1>>
        /\ ~(pos[1] = Len(D) /\ pos[2] = Len(D[pos[1]]))
        /\ phase' = phase
    BY <1>5 DEF Pdo!AtEnd, Pdo!Advance
  <2>2. IsList(D)
    BY LayoutDisabling
  <2> HIDE DEF D
  <2>3. pos'[1] \in DOMAIN D /\ pos'[2] \in DOMAIN D[pos'[1]]
    BY <1>1, <2>1, <2>2, ListGoesOn
  <2> QED
    BY <1>1, <1>3, <2>1, <2>3 DEF LayoutTyped, LayoutBegun, LayoutDone, Pdo!Within, D
<1> QED
  BY <1>4, <1>5 DEF Pdo!Disable

(* Which transfer is due when the layout is written.                       *)
LEMMA LayoutDue ==
  ASSUME Pdo!Within(Pdo!Rewriting), NEW R, R = Pdo!Rewriting, NEW n, n = Len(Pdo!Maps),
         NEW i, i = pos[1], NEW j, j = pos[2], NEW t, t = R[i][j]
  PROVE  /\ n \in Nat /\ i \in 1..(n + 4) /\ i \in DOMAIN R /\ j \in DOMAIN R[i]
         /\ j \in Nat \ {0} /\ IsList(R) /\ Len(R) = n + 4 /\ t \in LayoutWrites
         /\ i \in {1, 2} =>
              /\ j = 1 /\ Len(R[i]) = 1 /\ t.sub = 0 /\ t.value = 0
              /\ t.object = IF i = 1 THEN "rxassign" ELSE "txassign"
         /\ i > n + 2 => t.object \in Pdo!Assignments
         /\ i \notin {1, 2} /\ ~(i > n + 2) =>
              /\ i - 2 \in 1..n /\ Pdo!Maps[i - 2] \in Pdo!Pdos
              /\ R[i] = Pdo!WriteObject(Pdo!Maps[i - 2])
<1>1. /\ n \in Nat /\ IsList(R) /\ Len(R) = n + 4
      /\ R[1] = <<Pdo!Transfer("rxassign", 0, 0)>>
      /\ R[2] = <<Pdo!Transfer("txassign", 0, 0)>>
      /\ \A k \in 1..n : R[k + 2] = Pdo!WriteObject(Pdo!Maps[k])
      /\ R[n + 3] = Pdo!WriteObject("rxassign")
      /\ R[n + 4] = Pdo!WriteObject("txassign")
  BY LayoutRewriting
<1>2. i \in DOMAIN R /\ j \in DOMAIN R[i]
  BY DEF Pdo!Within
<1>3. i \in 1..(n + 4) /\ j \in 1..Len(R[i]) /\ Len(R[i]) \in Nat /\ j \in Nat \ {0}
  BY <1>1, <1>2 DEF IsList
<1>4. CASE i \in {1, 2}
  <2> DEFINE u == Pdo!Transfer("rxassign", 0, 0)
             v == Pdo!Transfer("txassign", 0, 0)
  <2>1. /\ u \in LayoutWrites /\ v \in LayoutWrites
        /\ u.object = "rxassign" /\ u.sub = 0 /\ u.value = 0
        /\ v.object = "txassign" /\ v.sub = 0 /\ v.value = 0
    <3>1. /\ Pdo!Disabling[1] = <<u>> /\ Pdo!Disabling[2] = <<v>>
          /\ 1 \in DOMAIN Pdo!Disabling /\ 2 \in DOMAIN Pdo!Disabling
      BY LayoutDisabling DEF IsList
    <3>2. u \in LayoutWrites /\ v \in LayoutWrites
      BY <3>1, LayoutDisabling
    <3> QED
      BY <3>2 DEF Pdo!Transfer
  <2>a. R[1] = <<u>> /\ R[2] = <<v>>
    BY <1>1
  <2> HIDE DEF u, v
  <2>b. Len(<<u>>) = 1 /\ Len(<<v>>) = 1 /\ <<u>>[1] = u /\ <<v>>[1] = v
    OBVIOUS
  <2>2. CASE i = 1
    <3>1. Len(R[i]) = 1 /\ R[i][1] = u
      BY <2>a, <2>b, <2>2
    <3>2. j = 1
      BY <1>3, <3>1
    <3>3. t = u
      BY <3>1, <3>2
    <3> QED
      BY <1>1, <1>2, <1>3, <2>1, <2>2, <3>1, <3>2, <3>3
  <2>3. CASE i = 2
    <3>1. Len(R[i]) = 1 /\ R[i][1] = v
      BY <2>a, <2>b, <2>3
    <3>2. j = 1
      BY <1>3, <3>1
    <3>3. t = v
      BY <3>1, <3>2
    <3> QED
      BY <1>1, <1>2, <1>3, <2>1, <2>3, <3>1, <3>2, <3>3
  <2> QED
    BY <1>4, <2>2, <2>3
<1>5. ASSUME NEW o \in Pdo!Objects, R[i] = Pdo!WriteObject(o)
      PROVE  t \in LayoutWrites /\ t.object = o
  <2> DEFINE w == Pdo!Wanted[o]
  <2>1. /\ Len(w) \in 0..MaxEntries /\ Len(R[i]) = Len(w) + 2
        /\ R[i][1] = Pdo!Transfer(o, 0, 0)
        /\ \A k \in 1..Len(w) : R[i][k + 1] = Pdo!Transfer(o, k, w[k])
        /\ R[i][Len(w) + 2] = Pdo!Transfer(o, 0, Len(w))
        /\ \A k \in 1..(Len(w) + 2) : R[i][k] \in LayoutWrites
    BY <1>5, LayoutObjectWrites
  <2>2. Len(w) \in Nat
    BY <2>1
  <2> HIDE DEF w
  <2>3. j = 1 \/ j = Len(w) + 2 \/ (j - 1 \in 1..Len(w) /\ (j - 1) + 1 = j)
    BY <1>3, <2>1, <2>2
  <2>4. t.object = o
    <3>1. CASE j = 1
      BY <2>1, <3>1 DEF Pdo!Transfer
    <3>2. CASE j = Len(w) + 2
      BY <2>1, <3>2 DEF Pdo!Transfer
    <3>3. ASSUME NEW k \in 1..Len(w), k + 1 = j PROVE t.object = o
      <4>1. t = [object |-> o, sub |-> k, value |-> w[k]]
        BY <2>1, <3>3 DEF Pdo!Transfer
      <4> QED
        BY <4>1
    <3> QED
      BY <2>3, <3>1, <3>2, <3>3
  <2> QED
    BY <1>3, <2>1, <2>4
<1>6. CASE i > n + 2
  <2>1. i = n + 3 \/ i = n + 4
    BY <1>1, <1>3, <1>6
  <2>2. t \in LayoutWrites /\ t.object \in Pdo!Assignments
    BY <1>1, <1>5, <2>1, LayoutObjects DEF Pdo!Assignments
  <2> QED
    BY <1>1, <1>2, <1>3, <1>6, <2>1, <2>2
<1>7. CASE i \notin {1, 2} /\ ~(i > n + 2)
  <2>1. i - 2 \in 1..n /\ (i - 2) + 2 = i
    BY <1>1, <1>3, <1>7
  <2>2. Pdo!Maps[i - 2] \in Pdo!Pdos /\ Pdo!Maps[i - 2] \in Pdo!Objects
    BY <2>1, LayoutObjects
  <2>3. R[i] = Pdo!WriteObject(Pdo!Maps[i - 2])
    BY <1>1, <2>1
  <2>4. t \in LayoutWrites
    BY <1>5, <2>2, <2>3
  <2> QED
    BY <1>1, <1>2, <1>3, <1>7, <2>1, <2>2, <2>3, <2>4
<1> QED
  BY <1>4, <1>6, <1>7

(* A map is written with the assignments off.                              *)
LEMMA LayoutMapWritten ==
  ASSUME dict \in LayoutDicts, LayoutOff, NEW p \in Pdo!Pdos, NEW w, w = Pdo!Wanted[p],
         NEW s, s = Pdo!WriteObject(p), NEW j \in DOMAIN s, dict' = Pdo!Apply(s[j]),
         \A k \in 1..Len(w) : k + 1 < j => dict[p].entry[k] = w[k]
  PROVE  /\ dict' \in LayoutDicts /\ LayoutOff'
         /\ \A o \in Pdo!Objects : o # p => dict'[o] = dict[o]
         /\ \A k \in 1..Len(w) : k < j => dict'[p].entry[k] = w[k]
         /\ j = Len(s) => Pdo!InForce(dict'[p]) = w
<1> DEFINE t == s[j]
           L == MaxEntries
<1>1. p \in Pdo!Objects /\ "rxassign" # p /\ "txassign" # p
  BY LayoutObjects, EtherCATLayout DEF Pdo!LayoutAssumption, Pdo!Assignments
<1>2. /\ Len(w) \in 0..L /\ Len(s) = Len(w) + 2 /\ DOMAIN s = 1..(Len(w) + 2)
      /\ s[1] = Pdo!Transfer(p, 0, 0)
      /\ \A i \in 1..Len(w) : s[i + 1] = Pdo!Transfer(p, i, w[i])
      /\ s[Len(w) + 2] = Pdo!Transfer(p, 0, Len(w))
      /\ \A i \in 1..(Len(w) + 2) : s[i] \in LayoutWrites
  BY <1>1, LayoutObjectWrites
<1>3. Len(w) \in Nat /\ L \in Nat /\ Len(w) <= L
  BY <1>2, EtherCATLayout DEF Pdo!LayoutAssumption
<1>4. t \in LayoutWrites /\ dict' = Pdo!Apply(t)
  BY <1>2
<1>5. /\ dict' \in LayoutDicts
      /\ \A o \in Pdo!Objects : o # t.object => dict'[o] = dict[o]
      /\ dict'[t.object].count = IF t.sub = 0 THEN t.value ELSE dict[t.object].count
      /\ \A k \in 1..MaxEntries :
           dict'[t.object].entry[k] = IF t.sub = k THEN t.value ELSE dict[t.object].entry[k]
  <2> HIDE DEF t
  <2> QED
    BY <1>4, LayoutApplied
<1> HIDE DEF L
<1>6. /\ j \in Nat /\ j \in 1..(Len(w) + 2)
      /\ j = 1 \/ j = Len(w) + 2 \/ (j - 1 \in 1..Len(w) /\ (j - 1) + 1 = j)
  BY <1>2, <1>3
<1>7. ASSUME t.object = p
      PROVE  /\ dict' \in LayoutDicts /\ LayoutOff'
             /\ \A o \in Pdo!Objects : o # p => dict'[o] = dict[o]
  BY <1>1, <1>5, <1>7, LayoutObjects DEF LayoutOff
<1>8. CASE j = 1
  <2>1. t.object = p /\ ~(j = Len(s))
    BY <1>2, <1>3, <1>8 DEF Pdo!Transfer
  <2>2. \A k \in 1..Len(w) : ~(k < j)
    BY <1>3, <1>8
  <2> QED
    BY <1>7, <2>1, <2>2
<1>9. ASSUME NEW m \in 1..Len(w), m + 1 = j
      PROVE  /\ t.object = p /\ j # Len(s)
             /\ \A k \in 1..Len(w) : k < j => dict'[p].entry[k] = w[k]
  <2>1. t = [object |-> p, sub |-> m, value |-> w[m]]
    BY <1>2, <1>9 DEF Pdo!Transfer
  <2>2. t.object = p /\ t.sub = m /\ t.value = w[m]
    BY <2>1
  <2>3. ASSUME NEW k \in 1..Len(w), k < j PROVE dict'[p].entry[k] = w[k]
    <3>1. k \in 1..MaxEntries
      BY <1>3 DEF L
    <3>2. dict'[p].entry[k] = IF m = k THEN w[m] ELSE dict[p].entry[k]
      BY <1>5, <2>2, <3>1
    <3>3. m # k => k + 1 < j
      BY <1>3, <1>6, <1>9, <2>3
    <3> QED
      BY <3>2, <3>3
  <2>4. j # Len(s)
    BY <1>2, <1>3, <1>9
  <2> QED
    BY <2>2, <2>3, <2>4
<1>10. CASE j = Len(w) + 2
  <2>1. t = [object |-> p, sub |-> 0, value |-> Len(w)]
    BY <1>2, <1>10 DEF Pdo!Transfer
  <2>2. t.object = p /\ t.sub = 0 /\ t.value = Len(w)
    BY <2>1
  <2>3. dict'[p].count = Len(w)
    BY <1>5, <2>2
  <2>4. ASSUME NEW k \in 1..Len(w) PROVE dict'[p].entry[k] = w[k]
    <3>1. k \in 1..MaxEntries /\ k # 0 /\ k + 1 < j
      BY <1>3, <1>10 DEF L
    <3>2. dict'[p].entry[k] = dict[p].entry[k]
      BY <1>5, <2>2, <3>1
    <3> QED
      BY <3>1, <3>2
  <2>5. Pdo!InForce(dict'[p]) = w
    <3>1. w \in Seq(Pdo!Values)
      BY <1>1, LayoutObjects
    <3>2. w = [i \in 1..Len(w) |-> w[i]]
      BY <3>1
    <3>3. [i \in 1..dict'[p].count |-> dict'[p].entry[i]] = [i \in 1..Len(w) |-> w[i]]
      BY <2>3, <2>4
    <3> QED
      BY <3>2, <3>3 DEF Pdo!InForce
  <2> QED
    BY <1>7, <2>2, <2>4, <2>5
<1> QED
  BY <1>6, <1>7, <1>8, <1>9, <1>10

(* The layout is written: emptied assignments, whole maps, assignments.    *)
LEMMA LayoutRewritten ==
  ASSUME LayoutInv, Pdo!Rewrite
  PROVE  LayoutTyped' /\ LayoutMapped' /\ LayoutBegun' /\ LayoutDone'
<1> DEFINE R == Pdo!Rewriting
           n == Len(Pdo!Maps)
           i == pos[1]
           j == pos[2]
           t == R[i][j]
<1>1. /\ dict \in LayoutDicts /\ ok \in BOOLEAN /\ LayoutMapped /\ phase = "rewrite"
      /\ Pdo!Within(R) /\ ok' = ok /\ first' = first
  BY DEF LayoutInv, LayoutTyped, LayoutBegun, Pdo!Rewrite
<1>2. /\ i = 2 => dict["rxassign"].count = 0
      /\ i \in 3..(n + 2) => LayoutOff
      /\ \A m \in 1..n :
           /\ m + 2 < i => LayoutFull(Pdo!Maps[m])
           /\ m + 2 = i => \A k \in 1..Len(Pdo!Wanted[Pdo!Maps[m]]) :
                k + 1 < j => dict[Pdo!Maps[m]].entry[k] = Pdo!Wanted[Pdo!Maps[m]][k]
  BY <1>1 DEF LayoutInv, LayoutBegun, LayoutDone
<1>3. /\ n \in Nat /\ i \in 1..(n + 4) /\ i \in DOMAIN R /\ j \in DOMAIN R[i]
      /\ j \in Nat \ {0} /\ IsList(R) /\ Len(R) = n + 4 /\ t \in LayoutWrites
      /\ i \in {1, 2} =>
           /\ j = 1 /\ Len(R[i]) = 1 /\ t.sub = 0 /\ t.value = 0
           /\ t.object = IF i = 1 THEN "rxassign" ELSE "txassign"
      /\ i > n + 2 => t.object \in Pdo!Assignments
      /\ i \notin {1, 2} /\ ~(i > n + 2) =>
           /\ i - 2 \in 1..n /\ Pdo!Maps[i - 2] \in Pdo!Pdos
           /\ R[i] = Pdo!WriteObject(Pdo!Maps[i - 2])
  BY <1>1, LayoutDue
<1>4. \A m \in 1..n : Pdo!Maps[m] \in Pdo!Pdos /\ Pdo!Maps[m] \in Pdo!Objects
  BY LayoutObjects
<1>5. \A m, k \in 1..n : Pdo!Maps[m] = Pdo!Maps[k] => m = k
  <2>1. Pdo!IsInjective(Pdo!Maps) /\ DOMAIN Pdo!Maps = 1..n
    BY EtherCATLayout, LayoutObjects DEF Pdo!LayoutAssumption
  <2> QED
    BY <2>1 DEF Pdo!IsInjective
<1>6. dict' = Pdo!Apply(t) \/ (dict' = dict /\ phase' = "disable")
  BY DEF Pdo!Rewrite, Pdo!Written, Pdo!Due, Pdo!GoTo
<1>7. /\ Pdo!GoTo("disable") \/ Pdo!GoTo("readback")
         \/ (~Pdo!AtEnd(R) /\ Pdo!Advance(R) /\ phase' = phase)
  BY DEF Pdo!Rewrite
<1> HIDE DEF R, n, i, j, t
(* The transfer is done: what holds of the drive then.                     *)
<1> DEFINE After ==
      /\ dict' \in LayoutDicts /\ LayoutMapped'
      /\ i = 1 => dict'["rxassign"].count = 0
      /\ i \in 2..(n + 2) => LayoutOff'
      /\ \A m \in 1..n :
           /\ m + 2 < i => LayoutFull(Pdo!Maps[m])'
           /\ m + 2 = i /\ j = Len(R[i]) => LayoutFull(Pdo!Maps[m])'
           /\ m + 2 = i => \A k \in 1..Len(Pdo!Wanted[Pdo!Maps[m]]) :
                k < j => dict'[Pdo!Maps[m]].entry[k] = Pdo!Wanted[Pdo!Maps[m]][k]
<1>8. ASSUME dict' = Pdo!Apply(t) PROVE After
  <2>1. CASE i \in {1, 2}
    <3>1. /\ t.sub = 0 /\ t.value = 0 /\ t.object = IF i = 1 THEN "rxassign" ELSE "txassign"
      BY <1>3, <2>1
    <3>2. t.object \in Pdo!Assignments
      BY <3>1 DEF Pdo!Assignments
    <3>3. dict' \in LayoutDicts /\ LayoutMapped' /\ dict'[t.object].count = 0
      BY <1>1, <1>3, <1>8, <3>1, <3>2, LayoutCleared
    <3>4. i = 1 => dict'["rxassign"].count = 0
      BY <3>1, <3>3
    <3>5. i = 2 => LayoutOff'
      <4>1. i = 2 => dict'["rxassign"] = dict["rxassign"]
        BY <1>1, <1>3, <1>8, <3>1, LayoutApplied, LayoutObjects
      <4> QED
        BY <1>2, <3>1, <3>3, <4>1 DEF LayoutOff
    <3>6. \A m \in 1..n : ~(m + 2 < i) /\ m + 2 # i
      BY <1>3, <2>1
    <3> QED
      BY <1>3, <2>1, <3>3, <3>4, <3>5, <3>6
  <2>2. CASE i \notin {1, 2} /\ ~(i > n + 2)
    <3> DEFINE p == Pdo!Maps[i - 2]
               w == Pdo!Wanted[p]
    <3>1. /\ i - 2 \in 1..n /\ (i - 2) + 2 = i /\ p \in Pdo!Pdos /\ R[i] = Pdo!WriteObject(p)
          /\ i \in 3..(n + 2)
      BY <1>3, <2>2
    <3>2. LayoutOff /\ \A k \in 1..Len(w) : k + 1 < j => dict[p].entry[k] = w[k]
      BY <1>2, <3>1
    <3>3. dict' = Pdo!Apply(R[i][j])
      BY <1>8 DEF t
    <3>a. /\ dict \in LayoutDicts /\ LayoutOff /\ p \in Pdo!Pdos /\ w = Pdo!Wanted[p]
          /\ R[i] = Pdo!WriteObject(p) /\ j \in DOMAIN R[i] /\ dict' = Pdo!Apply(R[i][j])
          /\ \A k \in 1..Len(w) : k + 1 < j => dict[p].entry[k] = w[k]
      BY <1>1, <1>3, <3>1, <3>2, <3>3
    <3> HIDE DEF p, w
    <3>4. /\ dict' \in LayoutDicts /\ LayoutOff'
          /\ \A o \in Pdo!Objects : o # p => dict'[o] = dict[o]
          /\ \A k \in 1..Len(w) : k < j => dict'[p].entry[k] = w[k]
          /\ j = Len(R[i]) => Pdo!InForce(dict'[p]) = w
      BY ONLY <3>a, LayoutMapWritten
    <3>5. ASSUME NEW m \in 1..n, m + 2 < i PROVE LayoutFull(Pdo!Maps[m])'
      <4>1. Pdo!Maps[m] # p
        BY <1>3, <1>5, <3>1, <3>5 DEF p
      <4>2. dict'[Pdo!Maps[m]] = dict[Pdo!Maps[m]] /\ LayoutFull(Pdo!Maps[m])
        BY <1>2, <1>4, <3>4, <3>5, <4>1
      <4> QED
        BY <4>2 DEF LayoutFull, Pdo!Value
    <3>6. ASSUME NEW m \in 1..n, m + 2 = i PROVE Pdo!Maps[m] = p
      <4>1. m = i - 2
        BY <1>3, <3>6
      <4> QED
        BY <4>1 DEF p
    <3>7. LayoutMapped'
      BY <3>4 DEF LayoutMapped
    <3>8. i # 1
      BY <2>2
    <3>9. ASSUME NEW m \in 1..n, m + 2 = i
          PROVE  /\ j = Len(R[i]) => LayoutFull(Pdo!Maps[m])'
                 /\ \A k \in 1..Len(Pdo!Wanted[Pdo!Maps[m]]) :
                      k < j => dict'[Pdo!Maps[m]].entry[k] = Pdo!Wanted[Pdo!Maps[m]][k]
      BY <3>4, <3>6, <3>9 DEF LayoutFull, Pdo!Value, w
    <3> QED
      BY <3>4, <3>5, <3>7, <3>8, <3>9
  <2>3. CASE i > n + 2
    <3>1. t.object \in Pdo!Assignments /\ t \in LayoutWrites
      BY <1>3, <2>3
    <3>2. dict' \in LayoutDicts
      BY <1>1, <1>8, <3>1, LayoutApplied
    <3>3. \A m \in 1..n : m + 2 < i
      BY <1>3, <2>3
    <3>4. LayoutWhole
      <4>1. ASSUME NEW p \in Pdo!Pdos PROVE LayoutFull(p)
        <5>1. PICK m \in 1..n : Pdo!Maps[m] = p
          BY LayoutObjects DEF n
        <5> QED
          BY <1>2, <3>3, <5>1
      <4> QED
        BY <4>1 DEF LayoutWhole, LayoutFull
    <3>5. LayoutWhole' /\ \A p \in Pdo!Pdos : LayoutFull(p) => LayoutFull(p)'
      BY <1>1, <1>8, <3>1, <3>4, LayoutAssigned
    <3>6. \A m \in 1..n : LayoutFull(Pdo!Maps[m])'
      BY <1>2, <1>4, <3>3, <3>5
    <3>7. LayoutMapped'
      BY <3>5 DEF LayoutMapped
    <3>8. i # 1 /\ i \notin 2..(n + 2) /\ \A m \in 1..n : m + 2 # i
      BY <1>3, <2>3
    <3> QED
      BY <3>2, <3>6, <3>7, <3>8
  <2> QED
    BY <2>1, <2>2, <2>3
<1>9. dict' \in LayoutDicts /\ LayoutMapped'
  <2>1. CASE dict' = dict
    BY <1>1, <2>1 DEF LayoutMapped, LayoutOff, LayoutWhole, Pdo!Value
  <2> QED
    BY <1>6, <1>8, <2>1
<1>10. CASE phase' # "rewrite"
  <2>1. phase' \in {"disable", "readback"} /\ pos' = <<1, 1>>
    BY <1>1, <1>7, <1>10 DEF Pdo!GoTo
  <2>2. Pdo!Within(Pdo!Disabling)'
    BY <2>1, LayoutDisabling, ListBegins DEF Pdo!Within
  <2> QED
    BY <1>1, <1>9, <2>1, <2>2 DEF LayoutTyped, LayoutBegun, LayoutDone
<1>11. CASE phase' = "rewrite"
  <2>1. /\ pos' = IF j < Len(R[i]) THEN <<i, j + 1>> ELSE <<i + 1, 1>>
        /\ ~(i = Len(R) /\ j = Len(R[i]))
    BY <1>1, <1>7, <1>11 DEF Pdo!AtEnd, Pdo!Advance, Pdo!GoTo, i, j
  <2>2. After
    BY <1>6, <1>8, <1>11
  <2>3. /\ pos'[1] \in DOMAIN R /\ pos'[2] \in DOMAIN R[pos'[1]]
        /\ \/ j < Len(R[i]) /\ pos'[1] = i /\ pos'[2] = j + 1
           \/ j = Len(R[i]) /\ pos'[1] = i + 1 /\ pos'[2] = 1
    BY <1>3, <2>1, ListGoesOn
  <2>4. LayoutTyped'
    BY <1>1, <1>9, <1>11 DEF LayoutTyped
  <2>5. LayoutBegun'
    <3>1. pos'[1] = 2 => dict'["rxassign"].count = 0
      <4>1. CASE i = 1
        BY <2>2, <4>1
      <4>2. CASE i = 2
        BY <1>3, <2>2, <4>2 DEF LayoutOff
      <4> QED
        BY <1>3, <2>3, <4>1, <4>2
    <3>2. pos'[1] \in 3..(n + 2) => LayoutOff'
      <4>1. pos'[1] \in 3..(n + 2) => i \in 2..(n + 2)
        <5>1. i = 2 => j = Len(R[i])
          BY <1>3
        <5> QED
          BY <1>3, <2>3, <5>1
      <4> QED
        BY <2>2, <4>1
    <3>3. Pdo!Within(R)'
      BY <2>3 DEF Pdo!Within, R
    <3> QED
      BY <3>1, <3>2, <3>3 DEF LayoutBegun, R, n
  <2>6. LayoutDone'
    <3>1. ASSUME NEW m \in 1..n, m + 2 < pos'[1] PROVE LayoutFull(Pdo!Maps[m])'
      <4>1. m + 2 < i \/ (m + 2 = i /\ j = Len(R[i]))
        BY <1>3, <2>3, <3>1
      <4> QED
        BY <2>2, <4>1
    <3>2. ASSUME NEW m \in 1..n, m + 2 = pos'[1],
                 NEW k \in 1..Len(Pdo!Wanted[Pdo!Maps[m]]), k + 1 < pos'[2]
          PROVE  dict'[Pdo!Maps[m]].entry[k] = Pdo!Wanted[Pdo!Maps[m]][k]
      <4>1. Len(Pdo!Wanted[Pdo!Maps[m]]) \in Nat
        BY <1>4, LayoutObjects
      <4>2. k \in Nat /\ ~(k + 1 < 1)
        BY <4>1
      <4>3. pos'[1] = i /\ pos'[2] = j + 1
        BY <2>3, <3>2, <4>2
      <4>4. k < j
        BY <1>3, <3>2, <4>2, <4>3
      <4> QED
        BY <2>2, <3>2, <4>3, <4>4
    <3> QED
      BY <3>1, <3>2 DEF LayoutDone, n
  <2> QED
    BY <1>9, <2>4, <2>5, <2>6
<1> QED
  BY <1>10, <1>11

(* What only reads leaves the drive as it is.                              *)
LEMMA LayoutStays ==
  ASSUME LayoutInv, UNCHANGED <<dict, first>>, ok' \in BOOLEAN,
         \/ phase' \notin {"rewrite", "disable"}
            /\ phase' \in {"start", "compare", "readback", "load", "passed", "failed"}
         \/ phase' \in {"rewrite", "disable"} /\ pos' = <<1, 1>>
  PROVE  LayoutTyped' /\ LayoutMapped' /\ LayoutBegun' /\ LayoutDone'
<1>1. dict \in LayoutDicts /\ LayoutMapped
  BY DEF LayoutInv, LayoutTyped
<1>2. LayoutMapped'
  BY <1>1 DEF LayoutMapped, LayoutOff, LayoutWhole, Pdo!Value
<1>3. CASE phase' \notin {"rewrite", "disable"}
  BY <1>1, <1>2, <1>3 DEF LayoutTyped, LayoutBegun, LayoutDone
<1>4. CASE phase' \in {"rewrite", "disable"} /\ pos' = <<1, 1>>
  <2>1. Pdo!Within(Pdo!Disabling)' /\ Pdo!Within(Pdo!Rewriting)'
    BY <1>4, LayoutDisabling, LayoutRewriting, ListBegins DEF Pdo!Within
  <2>2. LayoutTyped'
    BY <1>1, <1>4, <2>1 DEF LayoutTyped
  <2>3. Len(Pdo!Maps) \in Nat
    BY LayoutRewriting
  <2>4. LayoutBegun'
    BY <1>4, <2>1, <2>3 DEF LayoutBegun
  <2>5. \A m \in 1..Len(Pdo!Maps) : ~(m + 2 < 1) /\ m + 2 # 1
    BY <2>3
  <2>6. LayoutDone'
    BY <1>4, <2>5 DEF LayoutDone
  <2> QED
    BY <1>2, <2>2, <2>4, <2>6
<1> QED
  BY <1>3, <1>4

LEMMA LayoutStep == LayoutInv /\ [Pdo!Next]_pdoVars => LayoutInv'
<1> SUFFICES ASSUME LayoutInv, [Pdo!Next]_pdoVars
             PROVE  LayoutTyped' /\ LayoutMapped' /\ LayoutBegun' /\ LayoutDone'
  BY LayoutCheckedStep DEF LayoutInv
<1>0. /\ phase \in {"start", "compare", "rewrite", "readback", "disable", "load", "passed", "failed"}
      /\ ok \in BOOLEAN
  BY DEF LayoutInv, LayoutTyped
<1>1. CASE UNCHANGED pdoVars
  BY <1>1 DEF pdoVars, LayoutInv, LayoutTyped, LayoutMapped, LayoutOff, LayoutWhole, LayoutFull,
              LayoutBegun, LayoutDone, Pdo!Value, Pdo!Within
<1>2. CASE Pdo!Start
  BY <1>2, LayoutStays DEF Pdo!Start, Pdo!GoTo
<1>3. CASE Pdo!Compare
  <2>1. /\ UNCHANGED <<dict, first>> /\ ok' \in BOOLEAN
        /\ \/ phase' = "rewrite" /\ pos' = <<1, 1>>
           \/ phase' \in {"compare", "load"}
    BY <1>0, <1>3 DEF Pdo!Compare, Pdo!Reading, Pdo!GoTo
  <2> QED
    BY <2>1, LayoutStays
<1>4. CASE Pdo!ReadBack
  <2>1. /\ UNCHANGED <<dict, first>> /\ ok' \in BOOLEAN
        /\ \/ phase' = "disable" /\ pos' = <<1, 1>>
           \/ phase' \in {"readback", "load"}
    BY <1>0, <1>4 DEF Pdo!ReadBack, Pdo!Reading, Pdo!GoTo
  <2> QED
    BY <2>1, LayoutStays
<1>5. CASE Pdo!Rewrite
  BY <1>5, LayoutRewritten
<1>6. CASE Pdo!Disable
  BY <1>6, LayoutEmptied
<1>7. CASE Pdo!Load
  <2>1. UNCHANGED <<dict, first>> /\ ok' \in BOOLEAN /\ phase' \in {"passed", "failed"}
    BY <1>0, <1>7 DEF Pdo!Load, Pdo!GoTo
  <2> QED
    BY <2>1, LayoutStays
<1>8. CASE Pdo!Restart
  BY <1>0, <1>8, LayoutStays DEF Pdo!Restart, Pdo!GoTo
<1> QED
  BY <1>1, <1>2, <1>3, <1>4, <1>5, <1>6, <1>7, <1>8 DEF Pdo!Next, Pdo!Configure

(* An assignment that is off has no map in force.                          *)
LEMMA LayoutKeepsFaith ==
  LayoutInv => Pdo!TypeOK /\ Pdo!NeverHalfMapped /\ Pdo!PassedIsWanted
<1> SUFFICES ASSUME LayoutInv
             PROVE  Pdo!TypeOK /\ Pdo!NeverHalfMapped /\ Pdo!PassedIsWanted
  OBVIOUS
<1>1. Pdo!PassedIsWanted
  BY LayoutPasses DEF LayoutInv
<1>2. Pdo!TypeOK
  BY DEF LayoutInv, LayoutTyped, LayoutDicts, LayoutBegun, LayoutChecked, Checked, Pdo!TypeOK,
         Pdo!Within
<1>3. ASSUME NEW a \in Pdo!Assignments, NEW p \in Pdo!ToSet(Pdo!Value(a)) \cap Pdo!Pdos
      PROVE  Pdo!Value(p) \in {Pdo!Wanted[p], Pdo!InForce(first[p])}
  <2>1. ~LayoutOff
    <3> SUFFICES ASSUME LayoutOff PROVE FALSE
      OBVIOUS
    <3>1. dict[a].count = 0
      BY DEF LayoutOff, Pdo!Assignments
    <3>2. DOMAIN Pdo!Value(a) = {}
      BY <3>1 DEF Pdo!Value, Pdo!InForce
    <3> QED
      BY <3>2 DEF Pdo!ToSet
  <2> QED
    BY <2>1 DEF LayoutInv, LayoutMapped, LayoutWhole
<1> QED
  BY <1>1, <1>2, <1>3 DEF Pdo!NeverHalfMapped

(* The objects of a silent drive.                                          *)
LEMMA SilentObjects ==
  /\ "rxassign" \in SilentPdo!Objects /\ "txassign" \in SilentPdo!Objects
  /\ SilentPdo!Maps \in Seq(SilentPdo!Pdos) /\ SilentPdo!Pdos = {SilentPdo!Maps[i] : i \in DOMAIN SilentPdo!Maps}
  /\ SilentPdo!Pdos \subseteq SilentPdo!Objects
  /\ SilentPdo!Objects = {"rxassign", "txassign"} \cup SilentPdo!Pdos
  /\ \A o \in SilentPdo!Objects : /\ SilentPdo!Wanted[o] \in Seq(SilentPdo!Values)
                            /\ Len(SilentPdo!Wanted[o]) \in 0..MaxEntries
<1>1. "rxassign" \in SilentPdo!Objects /\ "txassign" \in SilentPdo!Objects
  BY DEF SilentPdo!Objects, SilentPdo!Assignments
<1>2. ASSUME NEW o \in SilentPdo!Objects
      PROVE  /\ SilentPdo!Wanted[o] \in Seq(SilentPdo!ToSet(SilentPdo!Wanted[o]))
             /\ Len(SilentPdo!Wanted[o]) <= MaxEntries
  BY EtherCATLayout DEF SilentPdo!LayoutAssumption
<1>3. ASSUME NEW o \in SilentPdo!Objects
      PROVE  /\ SilentPdo!Wanted[o] \in Seq(SilentPdo!Values)
             /\ Len(SilentPdo!Wanted[o]) \in 0..MaxEntries
  <2> DEFINE S == SilentPdo!ToSet(SilentPdo!Wanted[o])
             w == SilentPdo!Wanted[o]
  <2>1. S \subseteq SilentPdo!Values
    BY DEF SilentPdo!Values
  <2>2. w \in Seq(S) /\ Len(w) <= MaxEntries
    BY <1>2
  <2> HIDE DEF S, w
  <2>3. w \in Seq(SilentPdo!Values) /\ Len(w) \in Nat
    BY <2>1, <2>2
  <2>4. MaxEntries \in Nat
    BY EtherCATLayout DEF SilentPdo!LayoutAssumption
  <2>5. Len(w) \in 0..MaxEntries
    BY ONLY <2>2, <2>3, <2>4, InRange
  <2> QED
    BY <2>3, <2>5 DEF w
<1>4. SilentRx \in Seq(SilentPdo!Values) /\ SilentTx \in Seq(SilentPdo!Values)
  BY <1>1, <1>3 DEF SilentPdo!Wanted
<1>5. SilentPdo!Maps \in Seq(SilentPdo!Values)
  BY <1>4 DEF SilentPdo!Maps
<1>6. SilentPdo!Pdos = {SilentPdo!Maps[i] : i \in DOMAIN SilentPdo!Maps}
  BY DEF SilentPdo!Pdos, SilentPdo!ToSet
<1>7. SilentPdo!Maps \in Seq(SilentPdo!Pdos)
  <2> DEFINE m == SilentPdo!Maps
  <2>1. DOMAIN m = 1..Len(m) /\ Len(m) \in Nat /\ m = [i \in 1..Len(m) |-> m[i]]
    BY <1>5
  <2>2. \A i \in 1..Len(m) : m[i] \in SilentPdo!Pdos
    BY <1>6, <2>1
  <2> HIDE DEF m
  <2>3. m \in Seq(SilentPdo!Pdos)
    BY <2>1, <2>2
  <2> QED
    BY <2>3 DEF m
<1> QED
  BY <1>1, <1>3, <1>6, <1>7 DEF SilentPdo!Objects, SilentPdo!Assignments

(* What is read for them: the count of each object, then its entries.      *)
LEMMA SilentVerifying ==
  /\ IsList(SilentPdo!Verifying)
  /\ \A T : All(SilentPdo!Verifying, T) =>
       \A o \in SilentPdo!Objects :
         /\ SilentPdo!Transfer(o, 0, Len(SilentPdo!Wanted[o])) \in T
         /\ \A i \in 1..Len(SilentPdo!Wanted[o]) : SilentPdo!Transfer(o, i, SilentPdo!Wanted[o][i]) \in T
<1> DEFINE O == SilentPdo!Objects
           all == <<"rxassign", "txassign">> \o SilentPdo!Maps
           list == SilentPdo!Verifying
           F == [o \in O |-> SilentPdo!VerifyObject(o)]
<1>1. /\ "rxassign" \in O /\ "txassign" \in O /\ SilentPdo!Maps \in Seq(O)
      /\ \A o \in O : o \in {"rxassign", "txassign"} \/ \E i \in DOMAIN SilentPdo!Maps : SilentPdo!Maps[i] = o
  BY SilentObjects
<1>2. ASSUME NEW o \in O
      PROVE  /\ Len(F[o]) = Len(SilentPdo!Wanted[o]) + 1 /\ Len(SilentPdo!Wanted[o]) \in Nat
             /\ DOMAIN F[o] = 1..(Len(SilentPdo!Wanted[o]) + 1)
             /\ F[o][1] = SilentPdo!Transfer(o, 0, Len(SilentPdo!Wanted[o]))
             /\ \A i \in 1..Len(SilentPdo!Wanted[o]) :
                  F[o][i + 1] = SilentPdo!Transfer(o, i, SilentPdo!Wanted[o][i])
  <2> DEFINE w == SilentPdo!Wanted[o]
             h == SilentPdo!Transfer(o, 0, Len(w))
             f == SilentPdo!Fill(o)
  <2>1. w \in Seq(SilentPdo!Values)
    BY SilentObjects
  <2>2. f = [i \in DOMAIN w |-> [object |-> o, sub |-> i, value |-> w[i]]]
    BY DEF SilentPdo!Fill, SilentPdo!Transfer
  <2>3. F[o] = <<h>> \o f
    BY DEF SilentPdo!VerifyObject
  <2> HIDE DEF w, h, f, F
  <2>4. /\ Len(w) \in Nat /\ Len(F[o]) = Len(w) + 1
        /\ DOMAIN F[o] = 1..(Len(w) + 1) /\ F[o][1] = h
        /\ \A i \in 1..Len(w) : F[o][i + 1] = [object |-> o, sub |-> i, value |-> w[i]]
    BY ONLY <2>1, <2>2, <2>3, HeadAndEntries
  <2> QED
    BY <2>4 DEF w, h, SilentPdo!Transfer
<1>3. list = [i \in DOMAIN all |-> F[all[i]]]
  <2>1. all \in Seq(O)
    BY <1>1, AssignmentsFirst
  <2>2. \A i \in DOMAIN all : all[i] \in O
    BY <2>1
  <2> QED
    BY <2>2 DEF SilentPdo!Verifying, SilentPdo!ForAll, SilentPdo!Both
<1> HIDE DEF O, F, list
<1>4. all \in Seq(O) /\ all # <<>> /\ \A o \in O : \E i \in 1..Len(all) : all[i] = o
  BY <1>1, AssignmentsFirst
<1> HIDE DEF all
<1>5. \A o \in O : Len(F[o]) \in Nat \ {0} /\ DOMAIN F[o] = 1..Len(F[o])
  BY <1>2
<1>a. /\ all \in Seq(O) /\ all # <<>>
      /\ \A o \in O : Len(F[o]) \in Nat \ {0} /\ DOMAIN F[o] = 1..Len(F[o])
      /\ list = [i \in DOMAIN all |-> F[all[i]]]
  BY ONLY <1>3, <1>4, <1>5
<1>6. /\ IsList(list)
      /\ \A T : All(list, T) =>
           \A i \in 1..Len(all) : \A j \in 1..Len(F[all[i]]) : F[all[i]][j] \in T
  BY ONLY <1>a, ListOf
<1>7. ASSUME NEW T, All(list, T), NEW o \in O
      PROVE  /\ SilentPdo!Transfer(o, 0, Len(SilentPdo!Wanted[o])) \in T
             /\ \A i \in 1..Len(SilentPdo!Wanted[o]) : SilentPdo!Transfer(o, i, SilentPdo!Wanted[o][i]) \in T
  <2>1. PICK k \in 1..Len(all) : all[k] = o
    BY <1>4
  <2>2. \A j \in 1..(Len(SilentPdo!Wanted[o]) + 1) : F[o][j] \in T
    BY <1>2, <1>6, <1>7, <2>1
  <2>3. ASSUME NEW i \in 1..Len(SilentPdo!Wanted[o]) PROVE SilentPdo!Transfer(o, i, SilentPdo!Wanted[o][i]) \in T
    <3>1. i + 1 \in 1..(Len(SilentPdo!Wanted[o]) + 1)
      BY <1>2
    <3> QED
      BY <1>2, <2>2, <3>1
  <2>4. 1 \in 1..(Len(SilentPdo!Wanted[o]) + 1)
    BY <1>2
  <2> QED
    BY <1>2, <2>2, <2>3, <2>4
<1> QED
  BY <1>6, <1>7 DEF list, O

(* What is read and held by a silent drive.                                *)
SilentHeld == {t \in Transfers(SilentPdo!Verifying) : SilentPdo!Matches(t)}
SilentChecked == Checked(SilentPdo!Verifying, SilentHeld, phase, pos, ok)

LEMMA SilentCheckedStarts == SilentPdo!Init => SilentChecked
BY DEF SilentPdo!Init, SilentChecked, Checked

LEMMA SilentCheckedStep == SilentChecked /\ [SilentPdo!Next]_pdoVars => SilentChecked'
<1> DEFINE V == SilentPdo!Verifying
           T == SilentHeld
<1> SUFFICES ASSUME Checked(V, T, phase, pos, ok), [SilentPdo!Next]_pdoVars
             PROVE  Checked(V, T', phase', pos', ok')
  BY DEF SilentChecked
<1>0. IsList(V)
  BY SilentVerifying
<1>1. dict' = dict => T' = T
  BY DEF SilentHeld, SilentPdo!Matches
<1>2. CASE UNCHANGED pdoVars
  BY <1>1, <1>2 DEF pdoVars
<1>3. CASE SilentPdo!Start
  BY <1>0, <1>3, ListBegins DEF SilentPdo!Start, SilentPdo!GoTo, Checked
<1>4. ASSUME NEW from \in {"compare", "readback"}, NEW differs \in {"rewrite", "disable"},
             SilentPdo!Reading(from, differs)
      PROVE  Checked(V, T', phase', pos', ok')
  <2>1. /\ phase = from /\ ~ok /\ T' = T
        /\ pos[1] \in DOMAIN V /\ pos[2] \in DOMAIN V[pos[1]] /\ Seen(V, pos[1], pos[2], T)
    BY <1>1, <1>4 DEF SilentPdo!Reading, Checked
  <2>2. CASE SilentPdo!GoTo(differs) /\ UNCHANGED ok
    BY <2>1, <2>2 DEF SilentPdo!GoTo, Checked
  <2>3. CASE /\ SilentPdo!Matches(SilentPdo!Due(V))
             /\ IF SilentPdo!AtEnd(V) THEN SilentPdo!GoTo("load") /\ ok' = TRUE
                ELSE SilentPdo!Advance(V) /\ UNCHANGED <<phase, ok>>
    <3>1. V[pos[1]][pos[2]] \in T
      <4>1. V[pos[1]][pos[2]] \in Transfers(V)
        BY <2>1 DEF Transfers
      <4>2. SilentPdo!Matches(V[pos[1]][pos[2]])
        BY <2>3 DEF SilentPdo!Due
      <4> QED
        BY <4>1, <4>2 DEF SilentHeld
    <3>2. CASE SilentPdo!AtEnd(V)
      <4>1. All(V, T)
        <5> DEFINE q == IF pos[2] < Len(V[pos[1]]) THEN <<pos[1], pos[2] + 1>>
                        ELSE <<pos[1] + 1, 1>>
        <5>1. pos[1] = Len(V) /\ pos[2] = Len(V[pos[1]])
          BY <3>2 DEF SilentPdo!AtEnd
        <5> HIDE DEF V, T
        <5> QED
          BY <1>0, <2>1, <3>1, <5>1, ListAdvances
      <4> QED
        BY <2>1, <2>3, <3>2, <4>1 DEF SilentPdo!GoTo, Checked
    <3>3. CASE ~SilentPdo!AtEnd(V)
      <4>1. /\ pos' = IF pos[2] < Len(V[pos[1]]) THEN <<pos[1], pos[2] + 1>>
                      ELSE <<pos[1] + 1, 1>>
            /\ ~(pos[1] = Len(V) /\ pos[2] = Len(V[pos[1]]))
            /\ phase' = phase /\ ok' = ok
        BY <2>3, <3>3 DEF SilentPdo!AtEnd, SilentPdo!Advance
      <4> HIDE DEF V, T
      <4>2. pos'[1] \in DOMAIN V /\ pos'[2] \in DOMAIN V[pos'[1]] /\ Seen(V, pos'[1], pos'[2], T)
        BY <1>0, <2>1, <3>1, <4>1, ListAdvances
      <4> QED
        BY <2>1, <4>1, <4>2 DEF Checked
    <3> QED
      BY <3>2, <3>3
  <2> QED
    BY <1>4, <2>2, <2>3 DEF SilentPdo!Reading
<1>5. CASE SilentPdo!Rewrite
  <2>1. ~ok /\ ok' = ok /\ phase' \in {"disable", "rewrite", "readback"}
        /\ (phase' = "readback" => pos' = <<1, 1>>)
    BY <1>5 DEF SilentPdo!Rewrite, SilentPdo!GoTo, Checked
  <2> QED
    BY <1>0, <2>1, ListBegins DEF Checked
<1>6. CASE SilentPdo!Disable
  <2>1. ~ok /\ ok' = ok /\ phase' \in {"disable", "load"}
    BY <1>6 DEF SilentPdo!Disable, SilentPdo!GoTo, Checked
  <2> QED
    BY <2>1 DEF Checked
<1>7. CASE SilentPdo!Load
  BY <1>1, <1>7 DEF SilentPdo!Load, SilentPdo!GoTo, Checked
<1>8. CASE SilentPdo!Restart
  BY <1>8 DEF SilentPdo!Restart, SilentPdo!GoTo, Checked
<1> QED
  BY <1>2, <1>3, <1>4, <1>5, <1>6, <1>7, <1>8
     DEF SilentPdo!Next, SilentPdo!Configure, SilentPdo!Compare, SilentPdo!ReadBack

(* What is read last is the layout that is wanted.                         *)
LEMMA SilentPasses == SilentChecked => SilentPdo!PassedIsWanted
<1> SUFFICES ASSUME SilentChecked, phase = "passed", NEW o \in SilentPdo!Objects
             PROVE  SilentPdo!Value(o) = SilentPdo!Wanted[o]
  BY DEF SilentPdo!PassedIsWanted
<1> DEFINE w == SilentPdo!Wanted[o]
<1>1. All(SilentPdo!Verifying, SilentHeld)
  BY DEF SilentChecked, Checked
<1>2. /\ SilentPdo!Transfer(o, 0, Len(w)) \in SilentHeld
      /\ \A i \in 1..Len(w) : SilentPdo!Transfer(o, i, w[i]) \in SilentHeld
  BY <1>1, SilentVerifying
<1>3. dict[o].count = Len(w)
  BY <1>2 DEF SilentHeld, SilentPdo!Matches, SilentPdo!Transfer
<1>4. ASSUME NEW i \in 1..Len(w) PROVE dict[o].entry[i] = w[i]
  <2>1. SilentPdo!Matches(SilentPdo!Transfer(o, i, w[i])) /\ i # 0
    BY <1>2 DEF SilentHeld
  <2> QED
    BY <2>1 DEF SilentPdo!Matches, SilentPdo!Transfer
<1>5. w \in Seq(SilentPdo!Values)
  BY SilentObjects
<1> HIDE DEF w
<1>6. w = [i \in 1..Len(w) |-> w[i]]
  BY <1>5
<1>7. [i \in 1..dict[o].count |-> dict[o].entry[i]] = [i \in 1..Len(w) |-> w[i]]
  BY <1>3, <1>4
<1> QED
  BY <1>6, <1>7 DEF SilentPdo!Value, SilentPdo!InForce, w


(* The part that sets up a drive keeps its invariant; the others leave the *)
(* drive alone.                                                            *)
LayoutsInv ==
  /\ part = "layout" => LayoutInv
  /\ part = "silent layout" => SilentChecked

LEMMA LayoutsStart == EtherCATInit => LayoutsInv
BY LayoutStarts, SilentCheckedStarts DEF EtherCATInit, LayoutsInv

LEMMA LayoutsStep == LayoutsInv /\ [EtherCATNext]_allVars => LayoutsInv'
<1> SUFFICES ASSUME LayoutsInv, [EtherCATNext]_allVars PROVE LayoutsInv'
  OBVIOUS
<1>1. part' = part
  BY DEF EtherCATNext, PdoPart, BusPart, BrakePart, EnablePart, PortPart, allVars
<1>2. part = "layout" => [Pdo!Next]_pdoVars
  BY DEF EtherCATNext, PdoPart, BusPart, BrakePart, EnablePart, PortPart, allVars
<1>3. part = "silent layout" => [SilentPdo!Next]_pdoVars
  BY DEF EtherCATNext, PdoPart, BusPart, BrakePart, EnablePart, PortPart, allVars
<1>4. part = "layout" => LayoutInv'
  BY <1>2, LayoutStep DEF LayoutsInv
<1>5. part = "silent layout" => SilentChecked'
  BY <1>3, SilentCheckedStep DEF LayoutsInv
<1> QED
  BY <1>1, <1>4, <1>5 DEF LayoutsInv

----------------------------------------------------------------------------
(* The parts run side by side, each on its own state.                      *)
LEMMA PartsAside ==
  EtherCATSpec => /\ Spec /\ Bus!Spec /\ Enable!Spec
                  /\ Port!Init /\ [][Port!Next]_(Port!vars)
<1>1. EtherCATInit => Init /\ Bus!Init /\ Enable!Init /\ Port!Init
  BY DEF EtherCATInit
<1>2. /\ UNCHANGED busVars => UNCHANGED Bus!vars
      /\ UNCHANGED axesVars => UNCHANGED Enable!vars
      /\ UNCHANGED portVars => UNCHANGED Port!vars
  BY DEF busVars, axesVars, portVars, Bus!vars, Bus!master, Bus!bus, Enable!vars, Port!vars
<1>3. [EtherCATNext]_allVars =>
        /\ [Next]_vars /\ [Bus!Next]_(Bus!vars) /\ [Enable!Next]_(Enable!vars)
        /\ [Port!Next]_(Port!vars)
  BY <1>2 DEF EtherCATNext, PdoPart, BusPart, BrakePart, EnablePart, PortPart, allVars
<1> QED
  BY <1>1, <1>3, PTL DEF EtherCATSpec, Spec, Bus!Spec, Enable!Spec

(* The brakes keep what they promise with the other parts beside them.     *)
THEOREM BrakesAsideSafe == EtherCATSpec => [](CommandedOnce /\ BrakesSafe)
BY PartsAside, IsCommandedOnce, BrakesAreSafe, PTL

(* The start of the bus (ECAT.c, ECAT_runtime.c, ec_config.c): from        *)
(* whatever states the slaves start, whichever requests are lost and       *)
(* however late they are followed, no slave exchanges process data while   *)
(* its layout is rewritten, but one that no request has reached yet and    *)
(* that follows an older one; and none is in OP before the safe outputs    *)
(* are prepared.  The mailbox is serviced where it is needed and the inputs   *)
(* that are reported as positions came from the slaves; and the port under *)
(* it (nicdrv.c, bsp_eth_raw.c): every slot is given back, and what is     *)
(* taken for the answer of an exchange is that, whatever comes late, twice *)
(* or out of its time.                                                     *)
THEOREM MasterIsSafe == EtherCATSpec => []MasterSafe
BY PartsAside, BusIsSafe, PortIsSafe, PTL DEF MasterSafe

(* OPERATIONAL is entered on what every slave says for itself, and a start *)
(* that fails once OP was asked for has asked for SAFE-OP (ECAT.c).        *)
THEOREM IsProvenAtStart == EtherCATSpec => StartIsProven
BY PartsAside, BusIsSafe, PTL DEF StartIsProven

(* An axis is given the words of CiA402 in their order, however frames are *)
(* lost, and axes that were given up are not enabled again                 *)
(* (ECAT_runtime.c).                                                       *)
THEOREM WordsStaySafe == EtherCATSpec => WordsSafe
BY PartsAside, WordsAreSafe, PTL DEF WordsSafe

(* A drive whose layout passes (ECAT_pdo_map.c) has the wanted one, also   *)
(* if it ignores what is written to it; and no assignment is ever in force *)
(* over a map that is neither whole nor untouched, whichever answers are   *)
(* lost and whenever the controller restarts.                              *)
THEOREM LayoutIsSafe == EtherCATSpec => []LayoutSafe
<1>1. LayoutsInv => LayoutSafe
  BY LayoutKeepsFaith, SilentPasses DEF LayoutsInv, LayoutSafe
<1> QED
  BY <1>1, LayoutsStart, LayoutsStep, PTL DEF EtherCATSpec
============================================================================
