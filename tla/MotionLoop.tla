---------------------------- MODULE MotionLoop ----------------------------
(***************************************************************************)
(* The firmware's control loop from the CAN bus to the process data: the   *)
(* CAN service task (receive and parse, then APP_CAN_CheckTimeout) and the *)
(* EtherCAT task (exchange, confirm, ECAT_RuntimeHandleTest) around the    *)
(* trajectory buffer they share.                                           *)
(*                                                                         *)
(* The EtherCAT task has the higher priority (freertos.c): it may preempt  *)
(* the CAN task between any two of that task's critical sections or        *)
(* stores, which are the steps below, and keeps it from running until its  *)
(* cycle is over.  It waits for the frame by polling, so a lost frame      *)
(* holds the processor for EC_TIMEOUTRET, and the cycle that has fallen    *)
(* due meanwhile follows at once.  Time is the millisecond tick, kept as   *)
(* the age of what was received.                                           *)
(*                                                                         *)
(* Abstracted: frames rejected before they change state, the 0x181/0x182   *)
(* requests nothing consumes, joint targets (the PDO image is the sequence *)
(* number of the point it carries), and the point's own validity (expired  *)
(* or not, whatever its age: RobotTrajectory models it).                   *)
(***************************************************************************)
EXTENDS TrajectoryContext

CONSTANTS
  CmdTimeout,     \* APP_CAN_COMMAND_TIMEOUT_MS
  HbTimeout,      \* APP_CAN_HOST_HEARTBEAT_TIMEOUT_MS
  EcatPeriod,     \* APP_SOEM_TASK_CYCLE_TICKS
  PollTicks,      \* ticks a cycle polls for a frame that is lost (EC_TIMEOUTRET)
  AnswerTicks,    \* ticks that pass at most until a frame that is not lost is back
  RollbackLimit,  \* ECAT_RUNTIME_WKC_ROLLBACK_LIMIT
  FaultLimit,     \* ECAT_RUNTIME_WKC_FAULT_LIMIT
  MaxFrames,      \* bound: frames one pass of the CAN task finds queued
  HostSends,      \* bound: kinds of frames the host sends
  ResetSeqs       \* bound: sequence numbers the host starts a stream with

ASSUME LoopAssumption ==
  /\ CmdTimeout \in Nat \ {0} /\ HbTimeout \in Nat \ {0}
  /\ EcatPeriod \in Nat /\ PollTicks \in Nat /\ AnswerTicks \in Nat
  /\ AnswerTicks + 1 < EcatPeriod /\ EcatPeriod <= PollTicks
  /\ RollbackLimit \in Nat \ {0} /\ FaultLimit \in Nat
  /\ RollbackLimit < FaultLimit
  /\ MaxFrames \in Nat /\ ResetSeqs \subseteq Seqs
  /\ HostSends \subseteq {"HOLD", "RESET", "APPLY", "QUICK_STOP", "HEARTBEAT"}

(* While the drives are in TEST the CAN task is awake again within so many *)
(* ticks before a cycle ends well: the lost frames that are tolerated in a *)
(* row, and the answer.                                                    *)
Starved == 1 + (RollbackLimit - 1) * PollTicks + AnswerTicks

(* So long after its timeout an age no longer matters and saturates: two   *)
(* passes of the CAN task, the first of which may have just missed it.     *)
Late == 2 * Starved + 1
MaxLag == Starved + 2
CmdAges == -1..CmdTimeout + Late
HbAges  == -1..HbTimeout + Late
Never == -1
Older(age, limit) == IF age \in 0..limit - 1 THEN age + 1 ELSE age

(* An age compared with its timeout, as the CAN task's locals see it.      *)
Judge(age, timeout) ==
  IF age = Never THEN "never" ELSE IF age >= timeout THEN "late" ELSE "fresh"

Point == [seq : Seqs]

VARIABLES
  traj,    \* robot_trajectory_context
  can,     \* the CAN task: pc, frames left, age of the stamp being published,
           \* and its locals (snapshot ages judged, HOLD flag)
  cmdAge,  \* age of the published CSP command's received_tick_ms
  hbAge,   \* age of the published heartbeat's received_tick_ms
  flags,   \* app_can_command_timed_out, ..._reported, app_can_host_online, ...
  latch,   \* app_can_safety_request: HOLD_POSITION | QUICK_STOP
  drive,   \* runtime->drive_state, as far as HandleTest is concerned
  bad,     \* runtime->bad_wkc_continuous
  image,   \* the RxPDO image: point it carries and controlword
  sent,    \* history: the last point a frame carried to the drives
  cause,   \* history: what latched the safety request first
  canLag,  \* ticks since the CAN task last woke
  ecatLag, \* ticks since the last EtherCAT cycle began (last_wake_tick)
  polling  \* the EtherCAT task is in a cycle, waiting for the frame

canVars  == <<can, cmdAge, hbAge, flags, latch, cause>>
ecatVars == <<drive, bad, image, sent>>
timeVars == <<canLag, ecatLag, polling>>
vars == <<traj, canVars, ecatVars, timeVars>>

Init ==
  /\ traj = InitContext([seq |-> 0])
  /\ can = [pc |-> "sleep", frames |-> 0, stamp |-> 0,
            cmd |-> "never", hb |-> "never", hold |-> FALSE]
  /\ cmdAge = Never /\ hbAge = Never
  /\ flags = [timedOut |-> TRUE, cmdReported |-> FALSE,
              online |-> FALSE, hbReported |-> FALSE]
  /\ latch = FALSE /\ cause = "NONE"
  /\ drive = "enabling" /\ bad = 0
  /\ image = [seq |-> NoSeq, word |-> "enable"] /\ sent = NoSeq
  /\ canLag = 0 /\ ecatLag = 0 /\ polling = FALSE

-----------------------------------------------------------------------------
(* The CAN service task.                                                   *)

Goto(pc) == can' = [can EXCEPT !.pc = pc]

(* The shared words a safety request touches; the first cause is history.  *)
RaiseLatch(why) ==
  /\ latch' = TRUE
  /\ cause' = IF latch THEN cause ELSE why

CanWake ==
  /\ can.pc = "sleep" /\ canLag > 0
  /\ \E n \in 0..MaxFrames : can' = [can EXCEPT !.pc = "rx", !.frames = n]
  /\ canLag' = 0
  /\ UNCHANGED <<traj, cmdAge, hbAge, flags, latch, cause, ecatVars, ecatLag, polling>>

NextFrame(kind, pc) ==
  /\ can.pc = "rx" /\ can.frames > 0 /\ kind \in HostSends
  /\ can' = [can EXCEPT !.pc = pc, !.frames = @ - 1]

(* 0x180 HOLD: drop the trajectory, then stamp and publish the command.    *)
RxHold ==
  /\ NextFrame("HOLD", "publish")
  /\ traj' = RequireReset(traj, "EXPLICIT_0X180")
  /\ UNCHANGED <<cmdAge, hbAge, flags, latch, cause, ecatVars, timeVars>>

(* 0x180 RESET+APPLY.                                                      *)
RxReset(s) ==
  /\ NextFrame("RESET", "publish")
  /\ traj' = ResetAndPush(traj, [seq |-> s])
  /\ UNCHANGED <<cmdAge, hbAge, flags, latch, cause, ecatVars, timeVars>>

(* 0x180 APPLY: a point that is not queued is not published either.        *)
RxApply(s) ==
  /\ NextFrame("APPLY",
               IF PushResult(traj, [seq |-> s]) = "OK" THEN "publish" ELSE "rx")
  /\ traj' = Push(traj, [seq |-> s])
  /\ UNCHANGED <<cmdAge, hbAge, flags, latch, cause, ecatVars, timeVars>>

RxPublish ==
  /\ can.pc = "publish"
  /\ cmdAge' = can.stamp
  /\ can' = [can EXCEPT !.pc = "rx", !.stamp = 0]
  /\ UNCHANGED <<traj, hbAge, flags, latch, cause, ecatVars, timeVars>>

(* 0x181 QUICK_STOP: two critical sections.                                *)
RxQuickStop ==
  /\ NextFrame("QUICK_STOP", "quickStop")
  /\ traj' = RequireReset(traj, "QUICK_STOP")
  /\ UNCHANGED <<cmdAge, hbAge, flags, latch, cause, ecatVars, timeVars>>

RxQuickStopLatch ==
  /\ can.pc = "quickStop"
  /\ RaiseLatch("QUICK_STOP")
  /\ Goto("rx")
  /\ UNCHANGED <<traj, cmdAge, hbAge, flags, ecatVars, timeVars>>

(* 0x183 with an accepted sequence number.                                 *)
RxHeartbeat ==
  /\ NextFrame("HEARTBEAT", "rx")
  /\ hbAge' = 0
  /\ UNCHANGED <<traj, cmdAge, flags, latch, cause, ecatVars, timeVars>>

CanReceive ==
  \/ RxHold
  \/ \E s \in ResetSeqs : RxReset(s)
  \/ \E s \in {traj.expected, SeqInc(traj.expected)} : RxApply(s)
  \/ RxPublish
  \/ RxQuickStop
  \/ RxQuickStopLatch
  \/ RxHeartbeat

(* The queue is empty: APP_CAN_CheckTimeout(HAL_GetTick()) begins.         *)
CheckSample ==
  /\ can.pc = "rx" /\ can.frames = 0
  /\ can' = [can EXCEPT !.pc = "isHold", !.cmd = Judge(cmdAge, CmdTimeout),
                        !.hb = Judge(hbAge, HbTimeout)]
  /\ UNCHANGED <<traj, cmdAge, hbAge, flags, latch, cause, ecatVars, timeVars>>

(* Mutant: only a stream being played is watched.                          *)
CheckIsRunning ==
  /\ can.pc = "isHold"
  /\ can' = [can EXCEPT !.pc = "command", !.hold = traj.state # "RUNNING"]
  /\ UNCHANGED <<traj, cmdAge, hbAge, flags, latch, cause, ecatVars, timeVars>>

CheckIsHold ==
  /\ can.pc = "isHold"
  /\ can' = [can EXCEPT !.pc = "command", !.hold = IsHold(traj)]
  /\ UNCHANGED <<traj, cmdAge, hbAge, flags, latch, cause, ecatVars, timeVars>>

CheckCommand ==
  /\ can.pc = "command"
  /\ LET late == ~can.hold /\ can.cmd = "late"
     IN  /\ flags' = [flags EXCEPT
                        !.timedOut    = late \/ (~can.hold /\ can.cmd = "never"),
                        !.cmdReported = IF can.hold \/ can.cmd = "fresh" THEN FALSE
                                        ELSE @]
         /\ can' = [can EXCEPT !.pc = IF late /\ ~flags.cmdReported
                                      THEN "latchCommand" ELSE "heartbeat",
                               !.hold = FALSE, !.cmd = "never"]
  /\ UNCHANGED <<traj, cmdAge, hbAge, latch, cause, ecatVars, timeVars>>

CheckCommandLatch ==
  /\ can.pc = "latchCommand"
  /\ RaiseLatch("CSP_TIMEOUT")
  /\ flags' = [flags EXCEPT !.cmdReported = TRUE]
  /\ Goto("heartbeat")
  /\ UNCHANGED <<traj, cmdAge, hbAge, ecatVars, timeVars>>

CheckHeartbeat ==
  /\ can.pc = "heartbeat"
  /\ flags' = [flags EXCEPT !.online     = can.hb = "fresh",
                            !.hbReported = IF can.hb = "fresh" THEN FALSE ELSE @]
  /\ can' = [can EXCEPT !.pc = IF can.hb = "late" /\ ~flags.hbReported
                               THEN "latchHeartbeat" ELSE "sleep",
                        !.hb = "never"]
  /\ UNCHANGED <<traj, cmdAge, hbAge, latch, cause, ecatVars, timeVars>>

CheckHeartbeatLatch ==
  /\ can.pc = "latchHeartbeat"
  /\ RaiseLatch("HOST_TIMEOUT")
  /\ flags' = [flags EXCEPT !.hbReported = TRUE]
  /\ Goto("sleep")
  /\ UNCHANGED <<traj, cmdAge, hbAge, ecatVars, timeVars>>

CheckTimeout ==
  \/ CheckSample \/ CheckIsHold \/ CheckCommand \/ CheckCommandLatch
  \/ CheckHeartbeat \/ CheckHeartbeatLatch

-----------------------------------------------------------------------------
(* The EtherCAT task: ECAT_RuntimeExchangeOperational, once per period.    *)

(* EtherCAT operation was given up; there is no way back.                  *)
Gone == drive \in {"lost", "notStaged"}

(* vTaskDelayUntil returns: at its tick, or at once when it is overdue.    *)
Due == ~polling /\ ~Gone /\ ecatLag >= EcatPeriod

(* The frame is sent, and an overdue release is dropped.                   *)
CycleStart ==
  /\ Due
  /\ polling' = TRUE /\ ecatLag' = 0
  /\ UNCHANGED <<traj, canVars, ecatVars, canLag>>

(* The end of the cycle, whatever became of the frame.                     *)
Cycle ==
  /\ polling
  /\ polling' = FALSE
  /\ UNCHANGED <<canVars, canLag, ecatLag>>

(* A point in the image reaches the drives.                                *)
Sent == IF image.seq # NoSeq THEN image.seq ELSE sent

(* A successful exchange: everything below ConfirmExecution sees this.     *)
Exchanged ==
  /\ Cycle /\ ecatLag <= AnswerTicks
  /\ bad' = 0
  /\ sent' = Sent

Confirmed == ConfirmExecution(traj)

(* No slaves: nothing is sent, and nothing waited for.                     *)
CycleMissing ==
  /\ Cycle /\ ecatLag = 0
  /\ traj' = RequireReset(traj, "ETHERCAT_NOT_OP")
  /\ drive' = "lost"
  /\ UNCHANGED <<bad, image, sent>>

(* Mutant: one lost frame more is tolerated.                               *)
AtLimitLate == bad + 1 > RollbackLimit

(* This failed exchange is one too many to be tolerated.                   *)
AtLimit == bad + 1 >= RollbackLimit

(* No answer, or not the one expected, at any time until the timeout; the  *)
(* frame may or may not have reached the drives.  At the rollback limit    *)
(* TEST falls back; enabling does, waits on, or gives up, depending on how *)
(* far it is.                                                              *)
CycleFailed ==
  /\ Cycle
  /\ bad' = bad + 1
  /\ sent' \in {sent, Sent}
  /\ traj' = IF AtLimit /\ drive = "test"
             THEN RequireReset(traj, "ETHERCAT_NOT_OP") ELSE traj
  /\ drive' \in IF bad' >= FaultLimit THEN {"lost"}
                ELSE IF AtLimit /\ drive = "test" THEN {"stopped"}
                ELSE IF AtLimit /\ drive = "enabling"
                     THEN {"enabling", "stopped", "lost"}
                ELSE {drive}
  /\ image' = IF AtLimit /\ (drive = "test" \/ drive' = "stopped")
              THEN [image EXCEPT !.word = "stop"] ELSE image

(* Outside TEST the trajectory is only confirmed.  Enabling ends in TEST,  *)
(* or is rolled back or given up; it is requested only once (freertos.c).  *)
(* CW0F_DONE, which TEST follows, does not outlive the rollback limit.     *)
CycleEnabling ==
  /\ drive = "enabling"
  /\ Exchanged
  /\ traj' = Confirmed
  /\ \/ drive' \in {"enabling", "test", "lost"} /\ UNCHANGED image
        /\ (drive' = "test" => bad < RollbackLimit)
     \/ drive' = "stopped" /\ image' = [image EXCEPT !.word = "stop"]

CycleStopped ==
  /\ drive = "stopped"
  /\ Exchanged
  /\ traj' = Confirmed
  /\ UNCHANGED <<drive, image>>

(* ECAT_RuntimeHandleTest, branch by branch.                               *)
HoldCause(otherwise) ==
  IF ~flags.online THEN "HOST_TIMEOUT"
  ELSE IF flags.timedOut THEN "CSP_TIMEOUT" ELSE otherwise

(* Mutant: the request ends the stream but never reaches the controlword.  *)
TestQuickStopSilent ==
  /\ drive = "test" /\ latch
  /\ Exchanged
  /\ traj' = RequireReset(Confirmed, HoldCause("QUICK_STOP"))
  /\ UNCHANGED <<drive, image>>

TestQuickStop ==
  /\ drive = "test" /\ latch
  /\ Exchanged
  /\ traj' = RequireReset(Confirmed, HoldCause("QUICK_STOP"))
  /\ image' = [image EXCEPT !.word = "quickStop"]
  /\ UNCHANGED drive

(* A drive left Operation Enabled, with a fault or without.                *)
TestDriveFault ==
  /\ drive = "test" /\ ~latch
  /\ Exchanged
  /\ \E why \in {"DRIVE_FAULT", "INTERNAL_ERROR"} :
       traj' = RequireReset(Confirmed, why)
  /\ image' = [image EXCEPT !.word = "stop"]
  /\ drive' = "stopped"

TestNotCsp ==
  /\ drive = "test" /\ ~latch
  /\ Exchanged
  /\ traj' = RequireReset(Confirmed, "DRIVE_NOT_CSP")
  /\ drive' = "lost"
  /\ UNCHANGED image

(* Without a live host the targets are relatched to the actual positions.  *)
TestTimeoutHold ==
  /\ drive = "test" /\ ~latch
  /\ flags.timedOut \/ ~flags.online
  /\ Exchanged
  /\ traj' = RequireReset(Confirmed, HoldCause("CSP_TIMEOUT"))
  /\ image' = [image EXCEPT !.seq = NoSeq]
  /\ UNCHANGED drive

(* Mutants: the safety request, or the host's state, is not looked at.     *)
MayTakeUnlatched == drive = "test" /\ ~flags.timedOut /\ flags.online
MayTakeOffline == drive = "test" /\ ~latch /\ ~flags.timedOut

(* The cycle may take a point from the buffer.                             *)
MayTake == drive = "test" /\ ~latch /\ ~flags.timedOut /\ flags.online

TestNoPoint(expired) ==
  /\ MayTake
  /\ TakeResult(Confirmed, expired) # "POINT"
  /\ Exchanged
  /\ traj' = Take(Confirmed, expired)
  /\ image' = IF TakeResult(Confirmed, expired) = "GRACE" THEN image
              ELSE [image EXCEPT !.seq = NoSeq]
  /\ UNCHANGED drive

(* A point that cannot be staged is not written to the image either.       *)
TestPoint ==
  /\ MayTake
  /\ TakeResult(Confirmed, FALSE) = "POINT"
  /\ Exchanged
  /\ LET next   == Take(Confirmed, FALSE)
         seq    == HeadPoint(Confirmed).seq
         staged == CanStage(next, Confirmed.generation)
     IN  /\ traj' = IF staged THEN Stage(next, seq, Confirmed.generation)
                    ELSE RequireReset(next, "INTERNAL_ERROR")
         /\ image' = IF staged THEN [seq |-> seq, word |-> "run"] ELSE image
         /\ drive' = IF staged THEN drive ELSE "notStaged"

HandleTest ==
  \/ TestQuickStop \/ TestDriveFault \/ TestNotCsp \/ TestTimeoutHold
  \/ \E expired \in BOOLEAN : TestNoPoint(expired)
  \/ TestPoint

EcatCycle ==
  \/ CycleStart
  \/ CycleMissing \/ CycleFailed \/ CycleEnabling \/ CycleStopped \/ HandleTest

-----------------------------------------------------------------------------
(* The millisecond tick.  It finds the EtherCAT task polling, or waiting   *)
(* for its next cycle.  The CAN task is sure to have run in the ticks a    *)
(* cycle that ended well leaves it, and in no others.                      *)
CanServed == Gone \/ bad > 0 \/ ecatLag <= AnswerTicks \/ canLag = 0

Tick ==
  /\ \/ polling /\ ecatLag < PollTicks
     \/ ~polling /\ ~Due /\ CanServed
  /\ canLag' = Older(canLag, MaxLag)
  /\ ecatLag' = IF Gone THEN 0 ELSE ecatLag + 1
  /\ cmdAge' = Older(cmdAge, CmdTimeout + Late)
  /\ hbAge' = Older(hbAge, HbTimeout + Late)
  /\ can' = [can EXCEPT !.stamp = IF can.pc = "publish"
                                  THEN Older(@, CmdTimeout + Late) ELSE @]
  /\ UNCHANGED <<traj, flags, latch, cause, ecatVars, polling>>

(* The task of the lower priority.                                         *)
CanTask == ~polling /\ ~Due /\ (CanWake \/ CanReceive \/ CheckTimeout)

Next == CanTask \/ EcatCycle \/ Tick

Spec == Init /\ [][Next]_vars

(* Both tasks and the tick keep running: whatever polls has a timeout.     *)
FairSpec ==
  Spec /\ WF_vars(CanTask) /\ WF_vars(EcatCycle) /\ WF_vars(Tick)

-----------------------------------------------------------------------------
(* The variables have their types.                                         *)
TypeOK ==
  /\ traj \in Context(Point)
  /\ can \in [pc : {"sleep", "rx", "publish", "quickStop", "isHold", "command",
                    "latchCommand", "heartbeat", "latchHeartbeat"},
              frames : 0..MaxFrames, stamp : 0..CmdTimeout + Late,
              cmd : {"never", "fresh", "late"}, hb : {"never", "fresh", "late"},
              hold : BOOLEAN]
  /\ cmdAge \in CmdAges /\ hbAge \in HbAges
  /\ flags \in [timedOut : BOOLEAN, cmdReported : BOOLEAN,
                online : BOOLEAN, hbReported : BOOLEAN]
  /\ latch \in BOOLEAN
  /\ cause \in {"NONE", "QUICK_STOP", "CSP_TIMEOUT", "HOST_TIMEOUT"}
  /\ drive \in {"enabling", "test", "stopped", "lost", "notStaged"}
  /\ bad \in 0..FaultLimit
  /\ image \in [seq : Seqs \cup {NoSeq},
                word : {"enable", "run", "stop", "quickStop"}]
  /\ sent \in Seqs \cup {NoSeq}
  /\ canLag \in 0..MaxLag /\ ecatLag \in 0..PollTicks /\ polling \in BOOLEAN

(* Loading a point into the image.                                         *)
Loads == image'.word = "run" /\ traj'.staged # traj.staged /\ traj'.staged.seq # NoSeq

(* The dead man's switch: no point is loaded unless a CSP command and a    *)
(* heartbeat were received, and no longer ago than the timeout and two     *)
(* passes of the CAN task, each as late as tolerated lost frames make it.  *)
OnlyWithLiveHost ==
  [][ Loads => /\ cmdAge \in 0..CmdTimeout + 2 * Starved
               /\ hbAge \in 0..HbTimeout + 2 * Starved ]_vars

(* From the moment a quick stop frame has dropped the trajectory, or any   *)
(* safety request is latched, no further point is loaded, whatever stream  *)
(* the host starts afterwards.                                             *)
StopIsFinal ==
  [][ latch \/ can.pc = "quickStop" => ~Loads ]_vars

(* The executed sequence number reported to the host never runs ahead of   *)
(* what was sent to the drives, and lags it by at most the one point whose *)
(* frame was sent when the stream ended or the exchange failed.            *)
ReportTracksDrives ==
  traj.executed # NoSeq => sent \in {traj.executed, SeqInc(traj.executed)}

(* Because the cycle is not preempted, the point it takes can be staged.   *)
StageNeverFails == drive # "notStaged"

(* The three together: what every state between two steps of the tasks     *)
(* keeps, of the buffer, of the drives and of what is reported of them.    *)
LoopSafe == TypeOK /\ ReportTracksDrives /\ StageNeverFails

(* A silent host is noticed: when a cycle of TEST falls due, a heartbeat   *)
(* that much older than its timeout, or a command while a stream is open,  *)
(* has raised the safety request, however many frames were lost before.    *)
SilenceLatches ==
  drive = "test" /\ Due =>
    /\ hbAge = HbTimeout + Late => latch
    /\ cmdAge = CmdTimeout + Late /\ ~IsHold(traj) /\ can.pc # "publish" => latch

(* A latched safety request reaches the drives as a quick stop controlword *)
(* unless they have left TEST.                                             *)
LatchStopsDrives ==
  latch /\ drive = "test" ~> image.word = "quickStop" \/ drive # "test"

(* ECAT_runtime.c 2163: the reason reported to the host keeps the root     *)
(* cause of a quick stop.  A cycle that ends a stream on the safety        *)
(* request would then name the quick stop command only if that command     *)
(* raised the request, never when a timeout did.                           *)
RootCauseReported ==
  [][ can' = can /\ traj.reason = "NONE" /\ traj'.reason = "QUICK_STOP"
        => cause = "QUICK_STOP" ]_vars

=============================================================================
