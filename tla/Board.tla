-------------------------------- MODULE Board --------------------------------
(***************************************************************************)
(* The places where the CAN link and the tasks and interrupts of the       *)
(* firmware hand work to each other, which share no state: the numbered    *)
(* frames of both directions of the link, bus-off recovery, the receive    *)
(* ring of the CAN bus, the serial log, the buffer of the drives' reports  *)
(* and the mailboxes of the drives, once with buffers enough for all and   *)
(* once with few.  They stand side by side: part is chosen at the start,   *)
(* that part runs, the others keep the state they start in.                *)
(***************************************************************************)
EXTENDS HostSession

CONSTANTS
  \* of the device and its session with the host, see DeviceSession
  HeartbeatPeriod, PositionTimeout, HeartbeatTimeout, BootTicks, MaxLives,
  MaxLosses,
  \* of bus-off recovery, see CanBusOff
  Delay, TxDepth, StopFails, StartFails,
  \* of the receive ring, see CanRxRing
  RingFrames, RingDepth, IndexMod, FifoDepth,
  \* of the log and of the reports, see UartLog and TxPdoSnapshot
  LogDepth, AbortFails, ReportSlaves, ReportBuffers, Tries, SeqMod, MaxCaptures,
  \* of the mailboxes, see CyclicMailbox; the small pool serves noisy drives
  N, Objects, PoolSize, SmallPoolSize, Noisy, MaxCalls, MaxLost

VARIABLES
  part,
  device, wire, host, busOff, losses, quiet,
  ctl, hal, irq, pending, age, task, fails,
  fifo, ring, writeIndex, readIndex, ringDropped, reader, given,
  logQueue, logPc, uart, dma, sem, event, logFails,
  buffer, publish, consumed, rd, reported, captures,
  free, content, queue, coembxin, rmp, last, inbox, mbxTaken, outbox,
  pc, call, sdop, mbxIn, result, lost, failed

deviceVars == <<device, wire, host, busOff, losses, quiet>>
busOffVars == <<ctl, hal, irq, pending, age, task, fails>>
ringVars == <<fifo, ring, writeIndex, readIndex, ringDropped, reader, given>>
logVars == <<logQueue, logPc, uart, dma, sem, event, logFails>>
snapVars == <<buffer, publish, consumed, rd, reported, captures>>
mbxVars == <<free, content, queue, coembxin, rmp, last, inbox, mbxTaken, outbox,
             pc, call, sdop, mbxIn, result, lost, failed>>
boardVars == <<part, vars, deviceVars, busOffVars, ringVars, logVars, snapVars,
               mbxVars>>

Device == INSTANCE DeviceSession
ASSUME BoardSession == Device!SessionAssumption

BusOff == INSTANCE CanBusOff
ASSUME BoardBusOff == BusOff!BusOffAssumption

Ring == INSTANCE CanRxRing
          WITH Depth <- RingDepth, Frames <- RingFrames, dropped <- ringDropped
ASSUME BoardRing == Ring!RingAssumption

(* A transfer that outlasts the 100 ms has stalled (UartLog).              *)
Log == INSTANCE UartLog
         WITH Depth <- LogDepth, Late <- FALSE,
              queue <- logQueue, pc <- logPc, fails <- logFails
ASSUME BoardLog == Log!LogAssumption

Snapshot == INSTANCE TxPdoSnapshot
              WITH Slaves <- ReportSlaves, Buffers <- ReportBuffers
ASSUME BoardSnapshot == Snapshot!SnapshotAssumption

Mailbox == INSTANCE CyclicMailbox WITH Noisy <- {}, taken <- mbxTaken
SmallPool == INSTANCE CyclicMailbox
               WITH PoolSize <- SmallPoolSize, MaxLost <- 0, taken <- mbxTaken
ASSUME BoardMailbox ==
  /\ Mailbox!MailboxAssumption /\ Mailbox!PoolIsAmple
  /\ SmallPool!MailboxAssumption

BoardInit ==
  /\ part \in {"host", "device", "bus-off", "ring", "log", "snapshot", "mailbox",
               "small pool"}
  /\ Init /\ Device!Init /\ BusOff!Init /\ Ring!Init /\ Log!Init /\ Snapshot!Init
  /\ IF part = "small pool" THEN SmallPool!Init ELSE Mailbox!Init
  /\ part # "ring" => \A i \in DOMAIN ring : ring[i] = CHOOSE f \in RingFrames : TRUE

LinkVars == <<vars, deviceVars, busOffVars>>
LogAndRing == <<ringVars, logVars>>
HostPart ==
  /\ part = "host" /\ Next
  /\ UNCHANGED <<part, deviceVars, busOffVars, LogAndRing, snapVars, mbxVars>>
DevicePart ==
  /\ part = "device" /\ Device!Next
  /\ UNCHANGED <<part, vars, busOffVars, LogAndRing, snapVars, mbxVars>>
BusOffPart ==
  /\ part = "bus-off" /\ BusOff!Next
  /\ UNCHANGED <<part, vars, deviceVars, LogAndRing, snapVars, mbxVars>>
RingPart ==
  /\ part = "ring" /\ Ring!Next
  /\ UNCHANGED <<part, LinkVars, logVars, snapVars, mbxVars>>
LogPart ==
  /\ part = "log" /\ Log!Next
  /\ UNCHANGED <<part, LinkVars, ringVars, snapVars, mbxVars>>
SnapshotPart ==
  /\ part = "snapshot" /\ Snapshot!Next
  /\ UNCHANGED <<part, LinkVars, LogAndRing, mbxVars>>
MailboxPart ==
  /\ \/ part = "mailbox" /\ Mailbox!Next
     \/ part = "small pool" /\ SmallPool!Next
  /\ UNCHANGED <<part, LinkVars, LogAndRing, snapVars>>
BoardNext ==
  HostPart \/ DevicePart \/ BusOffPart \/ RingPart \/ LogPart \/ SnapshotPart
  \/ MailboxPart

(* Each part has the fairness that its module states for it.               *)
BoardSpec ==
  /\ BoardInit /\ [][BoardNext]_boardVars
  /\ WF_busOffVars(part = "bus-off" /\ BusOff!BSP_CAN_Process)
  /\ WF_busOffVars(part = "bus-off" /\ BusOff!Tick)
  /\ WF_busOffVars(part = "bus-off" /\ BusOff!HAL_FDCAN_ErrorStatusCallback)
  /\ WF_ringVars(part = "ring" /\ Ring!TryReceive)
  /\ WF_logVars(part = "log" /\ Log!Hardware)
  /\ WF_logVars(part = "log" /\ Log!Process)
  /\ WF_snapVars(part = "snapshot" /\ Snapshot!ProcessTxPdoReport)
  /\ WF_mbxVars(part = "mailbox" /\ Mailbox!Handler)
  /\ WF_mbxVars(part = "mailbox" /\ Mailbox!SendEnds)
  /\ WF_mbxVars(part = "mailbox" /\ Mailbox!ReceiveEnds)
  /\ WF_mbxVars(part = "mailbox" /\ Mailbox!Prepare)
  /\ WF_mbxVars(part = "mailbox" /\ Mailbox!Compare)
  /\ WF_mbxVars(part = "small pool" /\ SmallPool!Handler)

----------------------------------------------------------------------------
(* The host takes the arm for ready on data of one life of the device, and *)
(* in bounded time after a restart (DeviceSession).                        *)
ReadyIsReal ==
  Device!TypeOK /\ Device!ReadyOnOneLife /\ Device!ReadyInTime

(* What the receive ring promises of the frames, see CanRxRing.            *)
ImplementsFifo == Ring!ImplementsFifo

(* A frame that comes twice is acted on once (HostSession); no bus-off is  *)
(* forgotten, whenever its interrupt comes (CanBusOff); the log's buffer   *)
(* is released before it is filled again, and what is printed of the       *)
(* drives is one snapshot, once (UartLog, TxPdoSnapshot).                  *)
BoardSafe ==
  /\ TypeOK /\ TakenOnce
  /\ BusOff!TypeOK /\ BusOff!BusOffRemembered
  /\ Ring!TypeOK /\ Log!LogSafe /\ Snapshot!SnapshotSafe

(* No buffer of the mailbox pool is lost or in two hands, and calls get    *)
(* their own answers until one has failed; when the pool runs out, still   *)
(* no buffer is in two hands (CyclicMailbox).                              *)
MailboxSafe ==
  /\ part = "mailbox" => Mailbox!MailboxSafe
  /\ part = "small pool" => SmallPool!NoBufferTwice

(* A request that was given up is never written to a drive and does not    *)
(* stay in the queue (CyclicMailbox).                                      *)
GivenUpIsGone ==
  Mailbox!NoLateWrite /\ (part = "mailbox" => Mailbox!QueueDrains)

(* Nothing stays stuck: a bus-off ends, and only a bus-off makes recovery  *)
(* stop the controller; the log's queue is emptied, the drives' reports    *)
(* get printed, and a quiet drive's answer is read next to a noisy one.    *)
NothingIsStuck ==
  /\ BusOff!OnlyStoppedWhenOff /\ BusOff!BusOffRecovers
  /\ Log!LogFlows /\ Snapshot!SnapshotsPrinted
  /\ part = "small pool" => SmallPool!QuietIsRead
=============================================================================
