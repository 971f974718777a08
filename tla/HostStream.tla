---------------------------- MODULE HostStream ----------------------------
(***************************************************************************)
(* One trajectory stream from the host to the firmware and back: the       *)
(* host's control loop (read, write), its management thread (services),    *)
(* its CSP worker and its receive thread around the scheduler they share,  *)
(* the CAN bus, and the firmware's trajectory buffer at the other end.     *)
(*                                                                         *)
(* The worker chooses a frame under the scheduler's mutex, sends it        *)
(* without, and books it under the mutex again: three steps, between which *)
(* any other thread may run.  read() and the reset service also exclude    *)
(* each other, and the receive thread, by the state mutex.                 *)
(*                                                                         *)
(* A frame may fail to be sent, or be lost at the receiver; a report may   *)
(* be overwritten by the next one.  The bus keeps the order of frames.     *)
(***************************************************************************)
EXTENDS CspScheduler, Sequences, FiniteSets

CONSTANTS
  Services,  \* bound: management services that are called
  Overlap,   \* bound: those that are called between the two lines of write()
             \* that read the stream's state and start a stream
  Troubles,  \* bound: what goes wrong: "loss" of a frame at the firmware,
             \* "send" errors, bad "command"s, "device" faults, "link" losses
  WireLimit, \* bound: frames on their way to the firmware
  StatusLife \* streams that are started on one status at most: filling the
             \* local queue takes about 28 ms, kRemoteStatusTimeout is 100 ms

ASSUME StreamAssumption ==
  /\ Services \subseteq {"hold", "quickStop", "reset"} /\ Overlap \subseteq Services
  /\ Troubles \subseteq {"loss", "send", "command", "device", "link"}
  /\ WireLimit \in Nat \ {0} /\ StatusLife \in Nat \ {0}

(* A sequence number does not come round (256 frames) while an old status  *)
(* can still be relied on: what was on the wire when the report was sent,  *)
(* and a RESET and a HOLD for each start.                                  *)
ASSUME SequenceAssumption == WireLimit + 2 * StatusLife + 4 < SeqMod

Frame == [kind : {"RESET", "APPLY", "HOLD", "QUICK_STOP"}, seq : Seqs \cup {NoSeq}]

VARIABLES
  sched,    \* CspScheduler: what its mutex protects
  worker,   \* the worker's pc, the frame chosen, the sequence it was sent with
  nextSeq,  \* next_sequence_
  ctl,      \* pc of the control loop thread
  comm,     \* communication_hold_latched_ and communication_loss_active_
  mgmt,     \* pc of the management thread
  wire,     \* frames on their way to the firmware
  traj,     \* robot_trajectory_context
  taken,    \* firmware accepted_count, as many bits as the report carries
  latched,  \* app_can_safety_request
  report,   \* 0x204 reports on their way to the host
  age,      \* streams started since the scheduler's status was received,
            \* and since the report on its way was sent
  lastKind  \* history: the kind of the last 0x180 frame that was sent

hostVars == <<sched, worker, nextSeq, ctl, comm, mgmt>>
remoteVars == <<traj, taken, latched>>
busVars == <<wire, report, age, lastKind>>
vars == <<hostVars, remoteVars, busVars>>

Resting == [pc |-> "idle", kind |-> "HOLD", seq |-> NoSeq]

(* The hardware component has just been activated.                         *)
Init ==
  /\ sched = NewScheduler /\ worker = Resting /\ nextSeq = 0
  /\ ctl = "read" /\ comm = [hold |-> FALSE, lost |-> FALSE] /\ mgmt = "idle"
  /\ wire = <<>> /\ report = <<>> /\ lastKind = "NONE"
  /\ age = [status |-> 0, report |-> 0]
  /\ traj = InitContext([seq |-> 0]) /\ taken = 0 /\ latched = FALSE

-----------------------------------------------------------------------------
(* The CSP worker: CspScheduler::run.                                      *)

Worker(pc) == worker.pc = pc /\ UNCHANGED <<ctl, comm, mgmt, remoteVars, report>>

Choosing(state) ==
  /\ Worker("idle") /\ sched.state = state
  /\ UNCHANGED <<nextSeq, wire, lastKind>>

Deciding(state) == Choosing(state) /\ UNCHANGED age

Chosen(kind) == worker' = [Resting EXCEPT !.pc = "send", !.kind = kind]

(* After begin_hold_locked: the HOLD goes out in the same cycle.           *)
HoldNow == IF sched.lastSent THEN Chosen("HOLD") ELSE UNCHANGED worker

(* Every start ages the status it relies on; a report is not on its way    *)
(* for as long as two starts take.                                         *)
DecideReset ==
  /\ Choosing("StartPending")
  /\ sched.enabled /\ sched.queue >= StartPrefill
  /\ RemoteAllowsReset(sched) /\ age.status < StatusLife
  /\ report # <<>> => age.report = 0
  /\ age' = [status |-> age.status + 1, report |-> Len(report)]
  /\ sched' = [sched EXCEPT !.queue = @ - 1, !.genBefore = sched.status.generation]
  /\ Chosen("RESET")

(* The first point has become too old while waiting.                       *)
DecideStalePoint ==
  /\ Deciding("StartPending")
  /\ sched.enabled /\ sched.queue > 0
  /\ sched' = [sched EXCEPT !.queue = 0, !.state = "ResetRequired"]
  /\ UNCHANGED worker

(* The gate closed, or the firmware latched a safety request: the stream   *)
(* ends in Fault when the report says so and is fresh.                     *)
DecideAckAbandoned ==
  /\ Deciding("ResetAwaitingAck")
  /\ \E fresh \in BOOLEAN :
       LET fault == fresh /\ SafetyFault(sched)
       IN  /\ ~sched.enabled \/ fault
           /\ sched' = BeginHold(sched, IF fault THEN "Fault" ELSE "ResetRequired")
  /\ HoldNow

DecideAckAccepted ==
  /\ Deciding("ResetAwaitingAck")
  /\ sched.enabled /\ ResetAccepted(sched)
  /\ sched' = StartStreaming(sched)
  /\ UNCHANGED worker

DecideAckLate ==
  /\ Deciding("ResetAwaitingAck")
  /\ sched.enabled
  /\ sched' = [sched EXCEPT !.queue = 0, !.terminal = "ResetRequired",
                            !.state = "Finishing"]
  /\ HoldNow

(* The report is stale, shows an event or no progress, or shows that the   *)
(* stream is gone; or the gate closed.                                     *)
DecideStreamFault ==
  /\ Deciding("Streaming")
  /\ \E fresh, event \in BOOLEAN :
       /\ ~fresh \/ event \/ StreamGone(sched) \/ ~sched.enabled
       /\ sched' = BeginHold(sched, IF fresh /\ SafetyFault(sched) THEN "Fault"
                                    ELSE "ResetRequired")
  /\ HoldNow

MaySend == Deciding("Streaming") /\ sched.enabled /\ ~StreamGone(sched)

DecideApply ==
  /\ MaySend
  /\ sched.queue > 0 /\ Room(sched)
  /\ sched' = [sched EXCEPT !.queue = @ - 1]
  /\ Chosen("APPLY")

(* No new point for a short while: repeat the last one.                    *)
DecideFiller ==
  /\ MaySend
  /\ sched.queue = 0 /\ sched.lastSent /\ sched.hasTarget /\ Room(sched)
  /\ Chosen("APPLY")
  /\ UNCHANGED sched

(* No new point for long, or the one at the head has become too old.       *)
DecideLocalUnderrun ==
  /\ MaySend
  /\ sched' = BeginHold(sched, "ResetRequired")
  /\ HoldNow

DecideHold ==
  /\ Deciding("Finishing")
  /\ HoldNow
  /\ sched' = IF sched.lastSent THEN sched
              ELSE [sched EXCEPT !.state = sched.terminal]

Send ==
  /\ Worker("send") /\ Len(wire) < WireLimit
  /\ wire' = Append(wire, [kind |-> worker.kind, seq |-> nextSeq])
  /\ worker' = [worker EXCEPT !.pc = "book", !.seq = nextSeq]
  /\ nextSeq' = SeqInc(nextSeq)
  /\ lastKind' = worker.kind
  /\ UNCHANGED <<sched, age>>

SendFails ==
  /\ Worker("send") /\ "send" \in Troubles
  /\ sched' = [sched EXCEPT !.state = "Fault"]
  /\ worker' = Resting
  /\ UNCHANGED <<nextSeq, wire, age, lastKind>>

Book ==
  /\ Worker("book")
  /\ sched' = CASE worker.kind = "HOLD"  -> BookHold(sched)
                [] worker.kind = "RESET" -> BookReset(sched, worker.seq)
                [] worker.kind = "APPLY" -> BookApply(sched)
  /\ worker' = Resting
  /\ UNCHANGED <<nextSeq, wire, age, lastKind>>

Run ==
  \/ DecideReset \/ DecideStalePoint
  \/ DecideAckAbandoned \/ DecideAckAccepted \/ DecideAckLate
  \/ DecideStreamFault \/ DecideApply \/ DecideFiller \/ DecideLocalUnderrun
  \/ DecideHold
  \/ Send \/ SendFails \/ Book

-----------------------------------------------------------------------------
(* The control loop: read(), then write(), over and over.                  *)

Control(pc) ==
  ctl = pc /\ UNCHANGED <<worker, nextSeq, mgmt, remoteVars, busVars>>

(* read() judges the feedback: ready is communication_ready_locked, gate   *)
(* is motion_enabled.                                                      *)
LossStarted(ready) == ~ready /\ ~comm.lost

Judge(ready, gate) ==
  /\ Control("read")
  /\ ready \/ "link" \in Troubles
  /\ gate => ready /\ sched.available /\ ~sched.status.latched
  /\ comm' = [hold |-> comm.hold \/ LossStarted(ready), lost |-> ~ready]
  /\ sched' = [sched EXCEPT !.enabled = gate]

(* A lost link, or a closed gate while a stream is active, stops the       *)
(* stream; broken is a device fault.                                       *)
ReadGate ==
  \E ready, gate, broken \in BOOLEAN :
    /\ Judge(ready, gate)
    /\ broken => "device" \in Troubles /\ ~gate
    /\ LET active == sched.state \in {"StartPending", "ResetAwaitingAck",
                                      "Streaming", "Finishing"}
       IN  ctl' = IF LossStarted(ready) THEN "readAbort"
                  ELSE IF ~gate /\ active
                       THEN IF broken THEN "readFault" ELSE "readAbort"
                  ELSE "write"

(* Bus-off is a fault at once.  The receive thread sets it without the     *)
(* mutex, so it may come after the feedback was judged.                    *)
ReadBusOff ==
  /\ "link" \in Troubles
  /\ \E ready, gate \in BOOLEAN : Judge(ready, gate)
  /\ ctl' = "readFault"

ReadStop ==
  /\ \/ Control("readFault") /\ sched' = MarkFault(sched)
     \/ Control("readAbort") /\ sched' = Abort(sched)
  /\ ctl' = "write"
  /\ UNCHANGED comm

(* write(): a command outside the joint limits.                            *)
WriteBadCommand ==
  /\ Control("write") /\ "command" \in Troubles
  /\ sched' = MarkFault(sched)
  /\ ctl' = "read"
  /\ UNCHANGED comm

(* Mutant: a stream that needs a reset does not block the write.           *)
WriteSampleUnblocked ==
  /\ Control("write")
  /\ ctl' \in IF comm.hold \/ sched.state \in {"Finishing", "Fault"}
              THEN {"read"}
              ELSE IF sched.state \in {"Idle", "Holding", "ResetRequired"}
                   THEN {"start", "submit"}
              ELSE {"submit"}
  /\ UNCHANGED <<comm, sched>>

(* write() reads the stream's state; a changed command starts a stream     *)
(* that was read as at rest.                                               *)
WriteSample ==
  /\ Control("write")
  /\ ctl' \in IF comm.hold \/ sched.state \in {"Finishing", "ResetRequired", "Fault"}
              THEN {"read"}
              ELSE IF sched.state \in {"Idle", "Holding"} THEN {"start", "submit"}
              ELSE {"submit"}
  /\ UNCHANGED <<comm, sched>>

WriteStart ==
  /\ Control("start")
  /\ sched' = IF CanStart(sched) THEN Restart(sched) ELSE sched
  /\ ctl' = IF CanStart(sched) THEN "submit" ELSE "writeAbort"
  /\ UNCHANGED comm

WriteSubmit ==
  /\ Control("submit")
  /\ sched' = IF CanSubmit(sched) THEN Submit(sched) ELSE sched
  /\ ctl' = IF CanSubmit(sched) THEN "settle" ELSE "writeAbort"
  /\ UNCHANGED comm

(* The command cannot be converted to counts.                              *)
WriteInconvertible ==
  /\ Control("submit") /\ "command" \in Troubles
  /\ sched' = MarkFault(sched)
  /\ ctl' = "read"
  /\ UNCHANGED comm

WriteAbort ==
  /\ Control("writeAbort")
  /\ sched' = Abort(sched)
  /\ ctl' = "read"
  /\ UNCHANGED comm

(* The command has settled and the joints have arrived, or not.            *)
WriteSettle ==
  /\ Control("settle")
  /\ ctl' \in IF sched.state = "Streaming" THEN {"finish", "read"} ELSE {"read"}
  /\ UNCHANGED <<comm, sched>>

WriteFinish ==
  /\ Control("finish")
  /\ sched' = Finish(sched)
  /\ ctl' = "read"
  /\ UNCHANGED comm

Read == ReadGate \/ ReadBusOff \/ ReadStop

Write ==
  \/ WriteBadCommand \/ WriteSample \/ WriteStart \/ WriteSubmit
  \/ WriteInconvertible \/ WriteAbort \/ WriteSettle \/ WriteFinish

-----------------------------------------------------------------------------
(* The management thread's services and the receive thread.                *)

(* read() holds the state mutex until it has stopped the stream.           *)
StateMutexFree == ctl \notin {"readFault", "readAbort"}

Manage(service) ==
  /\ mgmt = "idle" /\ service \in Services
  /\ ctl = "start" => service \in Overlap
  /\ UNCHANGED <<worker, nextSeq, ctl, remoteVars, busVars>>

(* disable, hold: abort; the firmware does not act on the 0x181 frame.     *)
ServiceHold ==
  /\ Manage("hold")
  /\ sched' = Abort(sched)
  /\ UNCHANGED <<comm, mgmt>>

(* quick_stop: abort, then transmit the 0x181 frame.                       *)
ServiceQuickStop ==
  /\ Manage("quickStop")
  /\ sched' = Abort(sched)
  /\ mgmt' = "quickStop"
  /\ UNCHANGED comm

ServiceQuickStopSend ==
  /\ mgmt = "quickStop" /\ mgmt' = "idle"
  /\ \/ /\ Len(wire) < WireLimit
        /\ wire' = Append(wire, [kind |-> "QUICK_STOP", seq |-> NoSeq])
     \/ UNCHANGED wire
  /\ UNCHANGED <<sched, worker, nextSeq, ctl, comm, remoteVars, report,
                 age, lastKind>>

(* reset: with the feedback in order, arm a new stream.                    *)
ServiceReset ==
  /\ Manage("reset") /\ StateMutexFree
  /\ sched.available /\ ~sched.status.latched /\ CanRecover(sched)
  /\ sched' = Restart(sched)
  /\ comm' = [comm EXCEPT !.hold = FALSE]
  /\ UNCHANGED mgmt

Management ==
  ServiceHold \/ ServiceQuickStop \/ ServiceQuickStopSend \/ ServiceReset

(* dispatch: a 0x204 report.                                               *)
Dispatch ==
  /\ report # <<>> /\ StateMutexFree
  /\ sched' = UpdateRemoteStatus(sched, Head(report))
  /\ report' = Tail(report)
  /\ age' = [status |-> 0, report |-> 0]
  /\ UNCHANGED <<worker, nextSeq, ctl, comm, mgmt, remoteVars, wire, lastKind>>

-----------------------------------------------------------------------------
(* The firmware, in the steps of MotionLoop that the host can observe.     *)

Received(kind) ==
  /\ wire # <<>> /\ Head(wire).kind = kind
  /\ wire' = Tail(wire)
  /\ UNCHANGED <<hostVars, report, age, lastKind>>

Counted == taken' = (taken + 1) % CountMod

RxReset ==
  /\ Received("RESET")
  /\ traj' = ResetAndPush(traj, [seq |-> Head(wire).seq])
  /\ Counted
  /\ UNCHANGED latched

RxApply ==
  /\ Received("APPLY")
  /\ LET p == [seq |-> Head(wire).seq]
     IN  /\ traj' = Push(traj, p)
         /\ IF PushResult(traj, p) = "OK" THEN Counted ELSE UNCHANGED taken
  /\ UNCHANGED latched

RxHold ==
  /\ Received("HOLD")
  /\ traj' = RequireReset(traj, "EXPLICIT_0X180")
  /\ UNCHANGED <<taken, latched>>

RxQuickStop ==
  /\ Received("QUICK_STOP")
  /\ traj' = RequireReset(traj, "QUICK_STOP")
  /\ latched' = TRUE
  /\ UNCHANGED taken

Lost ==
  /\ "loss" \in Troubles /\ wire # <<>>
  /\ wire' = Tail(wire)
  /\ UNCHANGED <<hostVars, remoteVars, report, age, lastKind>>

Remote == UNCHANGED <<hostVars, taken, busVars>>

(* The EtherCAT task takes a point, or finds none or an expired one.       *)
RemoteTake ==
  /\ Remote /\ ~latched
  /\ \E expired \in BOOLEAN : traj' = Take(traj, expired)
  /\ UNCHANGED latched

(* It ends the stream because of a safety request or a drive.              *)
RemoteStop ==
  /\ Remote
  /\ traj' = RequireReset(traj, IF latched THEN "CSP_TIMEOUT" ELSE "DRIVE_FAULT")
  /\ UNCHANGED latched

(* No command for too long while a stream is open, or no heartbeat.        *)
RemoteTimeout ==
  /\ Remote
  /\ latched' = TRUE
  /\ UNCHANGED traj

RemoteReport ==
  /\ report' =
       <<[state         |-> traj.state,
          resetRequired |-> traj.resetRequired,
          expected      |-> IF traj.sequenceValid THEN traj.expected ELSE NoSeq,
          accepted      |-> traj.accepted,
          generation    |-> traj.generation,
          depth         |-> traj.count,
          count         |-> taken,
          latched       |-> latched]>>
  /\ age' = [age EXCEPT !.report = 0]
  /\ UNCHANGED <<hostVars, remoteVars, wire, lastKind>>

Firmware ==
  \/ RxReset \/ RxApply \/ RxHold \/ RxQuickStop \/ Lost
  \/ RemoteTake \/ RemoteStop \/ RemoteTimeout \/ RemoteReport

Next == Run \/ Read \/ Write \/ Management \/ Dispatch \/ Firmware

Spec == Init /\ [][Next]_vars

(* The worker thread keeps cycling, and the bus keeps delivering.          *)
FairSpec == Spec /\ WF_vars(Run) /\ WF_vars(RxReset \/ RxApply \/ RxHold \/ RxQuickStop)

-----------------------------------------------------------------------------
(* The variables have their types.                                         *)
TypeOK ==
  /\ sched \in Scheduler
  /\ worker \in [pc : {"idle", "send", "book"}, kind : {"RESET", "APPLY", "HOLD"},
                 seq : Seqs \cup {NoSeq}]
  /\ nextSeq \in Seqs
  /\ ctl \in {"read", "readFault", "readAbort", "write", "start", "submit",
              "writeAbort", "settle", "finish"}
  /\ comm \in [hold : BOOLEAN, lost : BOOLEAN]
  /\ mgmt \in {"idle", "quickStop"}
  /\ wire \in Seq(Frame) /\ Len(wire) <= WireLimit
  /\ traj \in Context([seq : Seqs])
  /\ taken \in 0..CountMod - 1 /\ latched \in BOOLEAN
  /\ report \in Seq(TrajectoryStatus) /\ Len(report) <= 1
  /\ age \in [status : 0..StatusLife, report : 0..1]
  /\ lastKind \in {"NONE", "RESET", "APPLY", "HOLD"}

OnWire(kind) == {i \in DOMAIN wire : wire[i].kind = kind}
Carries(kind) == OnWire(kind) # {}
InHand(kind) == worker.pc = "send" /\ worker.kind = kind

(* Flow control (csp_scheduler.cpp 574-612): the points the firmware has   *)
(* queued and those still on their way to it never exceed the high         *)
(* watermark, however late, lost or overtaken the reports are and although *)
(* an APPLY may be acknowledged before it is booked.  So no stream ends in *)
(* a queue overflow.                                                       *)
CreditRespected ==
  traj.count + Cardinality(OnWire("APPLY"))
             + (IF InHand("APPLY") THEN 1 ELSE 0) <= High

(* Types, and the credit of csp_scheduler.cpp:574 against the ring of      *)
(* robot_trajectory.c.                                                     *)
FlowSafe == TypeOK /\ CreditRespected

(* A RESET drops what is queued and jumps to its own target, so it is only *)
(* sent while the arm is at rest: none is chosen or on its way while the   *)
(* firmware plays a stream.                                                *)
NoResetWhileRunning ==
  InHand("RESET") \/ Carries("RESET") => traj.state # "RUNNING"

(* A stream that was opened comes to rest only behind a HOLD: whoever ends *)
(* it, in whatever phase and however its points and reports are under way, *)
(* the last frame sent when it rests is the HOLD, and no other follows.    *)
Opened == {"ResetAwaitingAck", "Streaming", "Finishing"}
StreamEndsWithHold ==
  [][ /\ sched.state \in Opened
      /\ sched'.state \in {"Holding", "ResetRequired"}
      => lastKind = "HOLD" /\ worker'.pc = "idle" ]_vars

(* Neither an abort nor a new command turns a fault, reached or on its way *)
(* behind the final HOLD, into anything less: the reset service alone ends *)
(* it.                                                                     *)
Faulted(s) == s.state = "Fault" \/ (s.state = "Finishing" /\ s.terminal = "Fault")
FaultNeverDowngraded ==
  [][ Faulted(sched) => Faulted(sched)' \/ ServiceReset ]_vars

(* elfin3_canfd_system.cpp 497-498: from an abnormal state motion resumes  *)
(* only after a CSP RESET, never because of a new command alone.           *)
RestartNeedsReset ==
  [][ /\ sched.state \in {"ResetRequired", "Fault"}
      /\ sched'.state = "StartPending"
      => ServiceReset ]_vars

(* csp_scheduler.cpp 316: a stream that abort_trajectory ends without a    *)
(* HOLD has nothing under way that would need one.  So when the host's     *)
(* stream rests and no frame is chosen, unbooked or on its way, the        *)
(* firmware has no stream open.                                            *)
RestMeansHeld ==
  /\ sched.state \in {"Holding", "ResetRequired"}
  /\ worker.pc = "idle" /\ wire = <<>>
  => ~Active(traj)

(* The worker does not stay behind: a stream being acknowledged or ended   *)
(* gets out of that phase.                                                 *)
PhaseEnds ==
  sched.state \in {"ResetAwaitingAck", "Finishing"} ~>
    sched.state \notin {"ResetAwaitingAck", "Finishing"}

=============================================================================
