# A verification development of the Elfin3 / RDK X5 / STM32H743 motion stack

This directory models the motion path of a six-axis arm: a ROS 2 host (RDK X5)
streams joint targets over CAN FD to a controller (STM32H743, FreeRTOS), which
plays them to three dual-axis servo slaves over EtherCAT. Modelled are the
firmware's trajectory buffer with the tasks around it, the start of the
EtherCAT bus up to enabled axes, the mailboxes of the drives, the Ethernet port
under them, the hand-overs
between the firmware's tasks and interrupts, the host's scheduler with its
callers, the session between host and device, and the two nodes that take an
operator's commands. The modules are checked with TLC on small instances; eight
modules hold theorems that TLAPS checks for every value of the constants.

`STM` below is `src/六轴机械臂/下位机stm32/`, `ROS` is
`src/六轴机械臂/上位机ros2/src/`.

## 1. Inventory

| Part | Code | State it keeps | Operations | Talks to |
|---|---|---|---|---|
| Trajectory buffer | `STM App/Src/robot_trajectory.c` | ring of points, expected/accepted/executed sequence, staged point, generation, HOLD reason | reset-and-push, push, require-reset, take, stage, confirm, cancel, status | CAN layer (producer), EtherCAT runtime (consumer) |
| CAN application | `STM App/Src/app_can.c` | sequence trackers, double-buffered snapshots of 0x180-0x183, timeout flags, safety request, diagnostic ring, send schedule | ProcessRx, CheckTimeout, ProcessTx, ClearSafetyRequest, QueueDiagnostic | trajectory buffer, CAN BSP, EtherCAT runtime (reads flags and safety request) |
| EtherCAT runtime | `STM App/Src/ECAT_runtime.c` | drive state machine, WKC failure count, RxPDO image, brake sequence and its SDO job, TxPDO snapshots | operational exchange, CiA402 enable and rollback, HandleTest, brake steps, SAFE_OP/OP ramp | SOEM, trajectory buffer, CAN flags |
| EtherCAT application | `STM App/Src/ECAT.c`, `ECAT_sdo.c`, `ECAT_pdo_*.c`, `ECAT_runtime_sdo.c` | application FSM from WAIT_LINK to OPERATIONAL or ERROR | Process, SDO worker | SOEM, runtime |
| Tasks | `STM Core/Src/freertos.c` | none | 2 ms EtherCAT task (High), 1 ms CAN task (Normal), SDO worker, UART log task | all of the above |
| Board support | `STM BSP/Src/*.c` | CAN receive ring, bus-off back-off, key debouncing, Ethernet descriptors | interrupt callbacks, Process, TryReceive | CAN layer, SOEM |
| UART log | `STM App/Src/app_uart_log.c` | message queue, last DMA event | Write, Process, completion interrupts | FreeRTOS queue |
| CSP scheduler | `ROS elfin3_canfd_driver/src/csp_scheduler.cpp` | stream state, local queue, last firmware status, credits | submit, start, finish, abort, fault, recover; worker thread | ros2_control system, CAN FD transport |
| ros2_control system | `ROS elfin3_canfd_driver/src/elfin3_canfd_system.cpp` | feedback snapshots and ages, motion gate, communication hold | read, write, receive loop, management services | scheduler, controller manager |
| Motion command node | `ROS elfin3_motion_command/src/motion_command_node.cpp` | command state, pending goal, cancel flag | goal, cancel, accepted, stop, worker | MoveIt, CAN FD HOLD service, supervisor |
| Jog | `ROS elfin3_jog/src/*.cpp` | control mode, key freshness, fault flags | enter, exit, reset, command, watchdog, fault | controller manager, driver services |
| Supervisor, console, benchmark | `ROS elfin3_supervisor`, `elfin3_console`, `elfin3_ab_benchmark` | latest messages | readiness checks, menus, reports | everyone, read only |
| Vendored and assets | `STM Middlewares`, `STM Drivers`, meshes, launch files | - | - | - |

### How they interact

1. The host sends 0x180 frames: RESET+APPLY opens a stream, APPLY continues it
   with the next sequence number, HOLD ends it. 0x181 QUICK_STOP and 0x183
   heartbeats come in between.
2. The CAN task parses them into the trajectory buffer and publishes when the
   last command and heartbeat arrived; `APP_CAN_CheckTimeout` turns silence
   into flags and a latched safety request.
3. Every 2 ms the EtherCAT task exchanges one frame, confirms the point staged
   in the cycle before, and in TEST looks at the safety request, the drives and
   the host before it takes the next point, stages it and writes it into the
   RxPDO image.
4. 0x204 reports depth, counters, sequence numbers and the HOLD reason; the
   host's scheduler computes its credit from them.

### What is hard here

* The EtherCAT task preempts the CAN task between any two of its critical
  sections; the CAN task never preempts the EtherCAT task.
* A point is taken, staged, sent and confirmed in different cycles, and the
  stream can be ended or replaced between any two of these.
* Everything wraps: 8-bit sequence numbers, the ring, the generation, the tick.
* Exchanges fail and are tolerated up to a limit; hosts fall silent; late
  frames race timeouts.
* On the host, the scheduler sends outside its lock, and three other threads
  call into it meanwhile.
* Interrupts come between any two accesses of a task that shares a ring, a
  buffer, a flag or a peripheral with them, without a lock.
* An answer from the bus names a slot and nothing else; answers come late, twice
  or not at all, and wait unread in the receive descriptors.
* SDO transfers time out without telling whether they were done, and their
  answers come late; slaves fall back, vanish, return and obey late; host and
  controller restart without telling each other.
* The nodes that take commands look at a mode, a key or an active command,
  then wait for a service for seconds, then act on what they saw.

### What correctness means, per part

* Buffer: a bounded FIFO that only a RESET opens, gapless playback, reports that
  never run ahead, only fresh points, the first HOLD cause kept.
* CAN layer and runtime: no point loaded without a live host; a stop is final;
  silence is noticed in bounded time; the drives get the stop; reports match
  what the drives were sent.
* Session: after a restart of either end the other one hears it again in bounded
  time, acts on no frame twice, and never judges by the data of two lives.
* EtherCAT: no layout in force half written; no slave ahead of the master's
  checks; a failed start withdrawn; zeros never reported as positions; brakes
  commanded once and answers never confused; controlwords in the order of
  CiA402; one faulty axis stops all of them.
* Ethernet port: an exchange takes no answer but its own, gives its slot back and
  ends.
* Mailboxes: no buffer lost or owned twice, no abandoned request written late,
  no answer taken for another call's until one call has failed.
* Hand-overs: no frame lost without a count, no bus-off forgotten, no buffer
  filled while the DMA reads it, no torn report.
* Scheduler: the firmware's ring never overflows; a stream that was opened is
  always closed by a HOLD; an aborted stream does not resume by itself; a fault
  is not downgraded; a RESET is never sent into a playing stream.
* Modes and commands: one owner of the arm, no fault of a jog mode swallowed;
  one command at a time, a cancelled one does not start to move, every one ends.

## 2. Modules

| Module | Models | Role |
|---|---|---|
| `TrajectoryContext` | the functions of `robot_trajectory.c` as pure operators on the context record | used by every module that touches the buffer |
| `TrajectoryStream` | what the buffer promises, abstractly | abstract specification |
| `RobotTrajectory` | the buffer between an arbitrary producer and the EtherCAT task's call pattern | component, refines `TrajectoryStream` |
| `MotionLoop` | CAN task, EtherCAT cycle and tick around the buffer | composition |
| `CspScheduler` | the methods and decisions of `csp_scheduler.cpp` as operators on a record | used by `HostStream` |
| `HostStream` | worker, control loop, management and receive threads, bus, and the firmware's buffer | composition, host side |
| `SequenceTracker` | the filter in front of a numbered stream, host and firmware | used by the two sessions |
| `HostSession`, `DeviceSession` | frames of the host as the firmware takes them; feedback of the device as the host takes it | components |
| `BoundedFifo` | a bounded queue that refuses and counts | abstract specification |
| `CanRxRing` | the lock-free receive ring of `bsp_can.c` | component, refines `BoundedFifo` |
| `CanBusOff` | bus-off, its interrupt, and the recovery | component |
| `UartLog` | log task, DMA transfer, its interrupts and its abort | component |
| `TxPdoSnapshot` | the double buffer between the EtherCAT task and the reporter | component |
| `PdoMapping` | rewriting and verifying a drive's process data layout | component |
| `EcatMaster` | `ECAT_Process` from the link to OPERATIONAL, and its slaves | component |
| `BrakeRelease` | the brake sequence, its SDO jobs, the worker, the closing of the context | component |
| `DriveEnable` | the CiA402 enable sequence and its rollbacks | component |
| `CyclicMailbox` | the mailbox handler, its buffer pool and queue, SDO calls of one message | component |
| `EthPort` | the slots of `nicdrv.c`, process data and register exchanges, the receive descriptors | component |
| `JogMode` | jog mode manager, keyboard node, controllers and controller manager | component |
| `MotionCommand` | the life of a motion command: goals, cancellations, stops, the worker | component |
| `EtherCAT` | layout, start of the bus, brakes, enable sequence and port side by side | composition of components that share no state |
| `Board` | sessions, bus-off, ring, log, snapshots and mailboxes side by side | composition of components that share no state |
| `CommandNodes` | jog mode and motion commands side by side | composition of components that share no state |
| `TrajectoryContextProofs` | - | lemmas about the operators of that library |
| `RobotTrajectoryProofs`, `MotionLoopProofs`, `HostStreamProofs`, `EtherCATProofs`, `CyclicMailboxProofs`, `BoardProofs`, `CommandNodesProofs` | - | theorems about the module of that name (section 5); `HostStreamProofs` has the lemmas about `CspScheduler` too |
| `MCRobotTrajectory`, `MCMotionLoop`, `MCHostStream`, `MCEtherCAT`, `MCBoard`, `MCCommands` | - | TLC instances of the module of that name |

`PROJECT.json` maps every definition to the lines it translates.

### TrajectoryContext

One record field per field of `robot_trajectory_context` that the control
depends on; `executed`, `accepted`, `staged` fold a value and its valid flag
into `NoSeq` or a number, and the pure statistics counters are left out. Each
critical section is one operator from context to context (`Push`, `Take`,
`Stage`, ...) with a companion that gives the returned code (`PushResult`,
`TakeResult`, `CanStage`). Ring arithmetic, wraps and the order of the checks
are the code's. `CancelTrajectory` paths are `RequireReset` with its reason.

### RobotTrajectory

The producer may call anything at any time with any sequence number. The
consumer follows `ECAT_RuntimeExchangeOperational` and `ECAT_RuntimeHandleTest`:
Confirm, then a hold or Take, then Stage. Unlike in the firmware, where the
EtherCAT task is not preempted by the CAN task, the producer may act between
the consumer's calls: the buffer's generation check exists for that, and the
buffer must be right without relying on the priorities.

### MotionLoop

The CAN task is cut at its critical sections and shared stores (`can.pc`); an
EtherCAT cycle may come between any two of them, because `defaultTask` has the
higher priority. A cycle is two steps: the frame is sent (`CycleStart`), and the
cycle ends with an answer, within `AnswerTicks`, or without one, at any time
within `PollTicks`. In between `ecx_waitinframe` polls at high priority
(`nicdrv.c:274`, `ECAT_runtime.c:871`): the tick goes on and the CAN task does
not run. `PollTicks` is EC_TIMEOUTRET, 2 ms and not less than the period, so that
the next cycle is due at the end of one whose frame was lost, and follows at once
(`Due`; an overdue release is dropped, `freertos.c:216`). The CAN task is sure to
have run between two cycles only when the first one ended well (`CanServed`);
after a lost frame it may run or not. `LoopAssumption` says that an answered
frame leaves the CAN task a tick of the period: with the code's period of 2 ms,
that it is back in the tick it was sent in.

Ages replace time stamps: the age of the published command, the published
heartbeat and the stamp a parser has taken but not published yet. They saturate
at `Late`, beyond the two times that tolerated losses can keep the CAN task away
(`Starved`), where no code distinguishes them. The RxPDO image is the sequence number it carries and its
controlword class. `sent` and `cause` are history variables. What a drive does
in the enable sequence is abstracted to "enabling" (see `DriveEnable`);
frames rejected before they change state and the 0x181/0x182 requests nothing
consumes are left out; a queued point may be expired or not at any Take, which
over-approximates the validity that `RobotTrajectory` models exactly.

### CspScheduler and HostStream

`CspScheduler` is to the scheduler what `TrajectoryContext` is to the buffer:
one record for what its mutex protects, one operator per critical section. A
target is a count in the queue; `ahead` is the difference of the two counters
the credit is computed from; the firmware's four event counters are one
nondeterministic fact, and so are the freshness of a point, of the status and
of the acknowledgement. The scheduler assumes the firmware's capacity and
prefill target, which the code compares with its constants.

`HostStream` interleaves the threads at the granularity of the locks. The
worker takes three steps per frame (choose under the mutex, send without it,
book under it); `write()` takes one per call into the scheduler, because it
holds no lock between them; `read()` and the reset service hold the state
mutex, which also keeps the receive thread out (`StateMutexFree`). The steps of
`read()` that set the gate and read the state are one: no step of another
thread between them gives a result that another order of whole steps does not.
The firmware is the buffer of `TrajectoryContext`, driven by the frames, by an
EtherCAT task that takes points or ends streams, and by a timeout that latches
the safety request at any time; `MotionLoop` models when it really does. The
reports travel through a one-place mailbox that a newer report overwrites.

Not modelled: life cycle transitions (an ERROR from read or write makes the
controller manager deactivate the component; here the loop goes on), a restart
of the firmware, the stand-alone `driver_node.cpp`, and requests that never
reach the scheduler (enable, fault reset). The 0x181 frames of disable and hold
have no effect on the firmware's buffer and are left out.

### HostSession, DeviceSession and SequenceTracker

Both ends put the same filter in front of a numbered stream: a number is taken
if it is ahead of the last one by less than half the range. `HostSession` is the
firmware's end: a new host process numbers its frames from 0 again (the members
of `elfin3_canfd_system.hpp:172`), a quick stop bypasses the filter but moves the
number, frames are lost, or come twice when the sender's controller misses the
acknowledgement and retransmits. `MaxUnseen < Half - 1` bounds the numbers in a
row that the filter does not see; without it the numbers say nothing.
`DeviceSession` is the host's end: position and heartbeat stand for all streams
of the device; a heartbeat after a silence longer than the heartbeat timeout
starts a new device session, which forgets the trackers and the data.
`SessionAssumption` takes from the code's times that both timeouts (50 and
300 ms) are shorter than `BootTicks`, since the bus needs seconds to become
operational, and that a heartbeat (100 ms) comes less often than a position
(2 ms) and more often than it times out. Frames of one tick arrive before the
next. `RecoveryTicks`, the bound on being ready again, is tight.

### CanRxRing, CanBusOff, UartLog, TxPdoSnapshot

Each cuts the lower side, a task, at its accesses to shared memory or registers,
and lets the higher side, an interrupt or the EtherCAT task, come in between as
one step. `CanBusOff` contains `HAL_FDCAN_Stop` and `HAL_FDCAN_Start` as far as
they decide what happens to the flag and to waiting frames; that opening the
configuration (CCCR.CCE) drops the transmit requests is the controller's, and
`Send` is what the code does with the FIFO. `UartLog` contains the DMA abort of
the HAL, split where the interrupts it races with can come; a transfer ends,
fails, or stalls. With `Late` a transfer may end during its own abort, which
needs a transfer of more than 100 ms (section 6). `TxPdoSnapshot` identifies a
snapshot with its sequence number; captures during one pass of the reader are
bounded by `MaxCaptures`, fewer than its attempts.

### PdoMapping and EcatMaster

`PdoMapping` is one drive, since they are configured one after the other and
share nothing. A transfer fails with or without effect; with `Silent` a drive
may acknowledge a write and ignore it; `Restart` begins again on whatever the
interrupted configuration left. `LayoutAssumption` says that no PDO is mapped
twice, as in `ECAT_explicit_pdo_maps`, and that an object has room for what it
held and shall hold. A drive may have been delivered with any other layout, with
PDOs in force that the firmware does not know and does not touch. `EcatMaster` has one action per step of
`ECAT_Process`, split where a step waits for the bus. Slaves fall, vanish,
return, refuse and obey late; `ecx_statecheck` of slave 0 or-s the states of
those that answer, as SOEM does; the working counter is complete in SAFE-OP
too; SOEM's work between two state changes succeeds or fails; closing the
context is modelled in `BrakeRelease`.

A request for a state, whether sent to all or to one, reaches any of the slaves
or none (`Reach`), because nobody looks at whether it did. `ecx_config_init` is
cut where slaves may obey or fall in between: `DetectSlaves` sends the INIT
broadcasts, whose results are ignored (`ec_config.c:94`), and counts the
answers, which may be lost too (`:97`); `StepDiscover` asks each slave for
PRE-OP (`ConfigInit`), after a check of INIT whose result is discarded (`:372`),
and fails if the count was wrong. A slave that heard none of this stays in the
state it is in, SAFE-OP and OP included, or follows a request from before.
`told` is a history variable: the slaves that some request of this start has
reached. What protects the layout of a slave in SAFE-OP or OP is the check of
PRE-OP, slave by slave (`ECAT_runtime.c:326`).

### BrakeRelease and DriveEnable

`BrakeRelease` begins where `EcatMaster` is OPERATIONAL and ends where
`DriveEnable` begins. The EtherCAT task preempts the SDO worker between any two
of its steps; a transfer fails with or without its effect; a cycle is lost or
an axis leaves its state at any point. The waiting times of 10 ms are cycles.
That a transfer reported as successful had its effect is an assumption, which
late answers qualify (section 6, mailbox). `DriveEnable` abstracts modes,
positions and velocities to two conditions, `csp` and `settled`, which come and
go; an exchange that fails may have reached some of the axes.

### CyclicMailbox

The handler runs after each good cycle, polls and never yields, so one call is
one action; the worker is cut into its critical sections (send, receive,
expire, compare). One SDO call follows another, as the worker makes them. The
drives, which may answer late, lose a datagram or send emergencies (`Noisy`
drives), are external. The pool of 32 buffers is scaled down: `Board` has an
instance with enough of them and one with few. Noted while reading: when
`ecx_SDOread` finds no free buffer it returns at once and leaves a late answer
it has read with the caller (`ec_coe.c:188`), and a flood of incoming messages
keeps requests from being written, which is why `QueueDrains` excepts noisy
drives.

### EthPort

One exchange follows another, because only the EtherCAT task uses the port.
Process data are one frame or, where a slave refuses LRW, two, sent first and
waited for in order; a register access is sent again while its total time
lasts. `ReadData` and `TakeFrame` are two steps, since the HAL gives the
descriptor back to the DMA before `ETH_Raw_Receive` copies the frame: when
every descriptor is filled in between, the copy is of the newest frame
(`Copied`). The age of a frame counts the exchanges begun since its request and
is a history variable. That an answer is at most `Late` exchanges on its way is
an assumption about the bus, without which the slots say nothing. A frame waits
behind at most as many others as there are descriptors, and each exchange reads
at least one, so an answer is read less than `Late + Descriptors` exchanges
after its own; an exchange uses at most two slots. `PortAssumption`,
`Slots > 2 * Late + Descriptors + 1`, is what the theorem needs of it (section
5). It is one more than necessary: with two descriptors and `Late = 1` the
property holds of five slots already, and fails with four. The code has sixteen
slots and four descriptors, so that answers may be five exchanges late.

Noted while reading: a wait drops the answers of other slots
(`nicdrv.c:321`), so that of two frames of process data both are lost when the
first one is.

### JogMode and MotionCommand

Both follow the callback groups: the callbacks of one mutually exclusive group
run one after another, and a handler that waits for a service keeps all others
out for as long. `JogMode` keeps the latest message per topic (depth 1), lets
the controller manager serve requests in order even after the client gave up
(external), and lets a switch be made, refused or half made. `MotionCommand`
runs the worker between the callbacks, with a poll of `cancel_requested_`
wherever the code has one. `HoldOnCancel` is TRUE as `real_moveit.launch.py:201`
sets it (the default in `motion_command.yaml:27` is FALSE, see section 6); a
HOLD that was accepted is served and stays latched until the operator's reset,
and two HOLDs under way count as one. A HOLD may also not be requested at all,
since its service is not ready or the request throws; the cancel callback
ignores that (`motion_command_node.cpp:730`) and has MoveIt stop the arm. Of a
goal `halted` remembers which it was, and whether the arm had moved by then. Planning and kinematics are a choice
between going on and giving up; the node's shutdown is left out.

Definitions whose comment starts with "Mutant" are deliberately wrong versions
of the operator they precede and take part in no specification; see section 4.

## 3. Runs

| Run | Instance | Shows |
|---|---|---|
| `queue` | ring of 2, 3 sequence numbers, 2 generations, tick modulo 4; 1.03 million states | a well-formed buffer, gapless playback, HOLD, first cause, freshness, refinement of `TrajectoryStream` |
| `control_loop` | one frame per CAN pass, timeouts of a few ticks, period and poll time of 2 ticks, two lost frames tolerated; 3.96 million states | dead man's switch, finality of a stop, bounded detection of silence, report against drives |
| `stop_reaches_drives` | RESET, quick stop, heartbeats; fairness | a latched request ends in a quick stop controlword |
| `root_cause` | no quick stop frames at all | **violated**: the reported cause of a stop is not the root cause (section 6) |
| `host_flow` | ring of 3, prefill 2, watermark 2, two frames under way; lost frames, failed sends, lost links, hold and quick stop services | the credit never overflows the ring; a stream comes to rest only behind its HOLD |
| `host_restart` | the same ring, one frame under way; failed sends, bad commands, device faults, lost links, hold and reset services | no RESET into a playing stream; a fault is not downgraded; only the reset service ends an abnormal state |
| `host_phase_ends` | a ring of 2; fairness | waiting for the acknowledgement or the final HOLD ends |
| `abandoned_stream` | no failures at all | **violated**: an abort in the send window of the first RESET leaves the firmware's stream open (section 6) |
| `hold_before_start` | hold service inside write() | **violated**: an abort between write()'s look at the state and its start is overwritten (section 6) |
| `ethercat` | a drive of three PDOs and one that ignores writes, two slaves on the bus, the brakes of three slaves, two axes, a port of six slots; 191 thousand states | layouts, the start of the bus, brakes, controlwords, answers on the port, and that each of them ends |
| `board` | ten numbers per stream, three lives of the device, three failing restarts, a ring of 4, a log of 3, two drives; 407 thousand states | sessions, bus-off, ring, log, snapshots, mailboxes, and that nothing stays stuck |
| `commands` | a command timeout of 2 ticks, two switch requests; two servers, two goals, one stop, a HOLD that is requested or not; 615 thousand states | one owner of the arm, faults of a jog mode, one command, cancellations, ends |

`ethercat`, `board` and `commands` explore components side by side that share no
state in the code: a variable (`part`, `node`) is chosen at the start, that part
runs, and the others keep the one state they start in. Such a run is the union
of the parts' state graphs, no interleaving is lost because none exists between
them, and each part has exactly the fairness its module states. In `ethercat`
the parts but the port follow one another in time; each starts in every state that its
predecessors may leave. An invariant of a resting part holds of its initial
state only, so that a property never holds for lack of a run: the mutants of
section 4 break it within this very run. Liveness under a part's own fairness
is stated for the part that runs. `EtherCAT`, `Board` and `CommandNodes` are
such compositions for any constants, about which section 5 has theorems;
`MCEtherCAT`, `MCBoard` and `MCCommands` give them values.

Bounds. In `queue` the ring has two slots and three sequence numbers, so that
both wrap and an index is off by one in every way it can be; the prefill fills
the ring, and one empty cycle is bridged. `MaxAge` keeps a point from outliving
half of the tick's range, as 2^32 ms do in the code. The theorems of section 5
cover every other value. In `MotionLoop` timeouts keep their order (command
before heartbeat); the EtherCAT period and the poll time, of two CAN periods, and
the rollback limit of 3 are the code's, and the rollback limit is smaller than
the fault limit. `Starved` is then five ticks, and the ages that are allowed ten
ticks beyond their timeouts. The bound is tight: with one tick less for either age
`OnlyWithLiveHost` fails in this run. `MaxFrames` bounds what one CAN pass
finds queued; more frames are reached over several passes. `MayStillPlay` (a
state constraint of `control_loop`) cuts behaviours after the drives left TEST
for good, where the EtherCAT task no longer touches the buffer; the liveness run
has no constraint. `View` drops ring slots that hold no queued point: they are
written before they are read again.

In `HostStream`, `Services` and `Troubles` choose what may happen, `WireLimit`
bounds the frames on their way (the bus is faster than the 2 ms period), and
`Overlap` names the services that may run between the two lines of `write()`
that read the state and start a stream: it is empty in `host_restart`, so that
`RestartNeedsReset` says that this window is the only way around the reset
service. `StatusLife` replaces the 100 ms after which a status is too old to
start a stream on: filling the local queue takes about 28 ms, so only a few
streams can be started on one status, and a report on its way is not older
than one of them. Without this bound a report could be as old as a whole turn
of the sequence numbers, which the code's timeouts exclude:
`SequenceAssumption`, `WireLimit + 2 * StatusLife + 4 < SeqMod`, is what the
theorems need of it, and holds amply of the code's 256 numbers. The firmware's
prefill is larger than one, as in the code (8): with one, a RESET point would
be played at once, and `NoResetWhileRunning` would be false. The view forgets
counters relative to which nothing is compared any more: sequence numbers are
taken relative to the next one, generations as an order among those that are
remembered.

In `ethercat`, two slaves are the fewest of which one can be ahead of the
other, and of which one can hide in an or-ed state; the limits keep their order
(three bad cycles roll back, five give up). `View` forgets of the start of the
bus what no step to come depends on: how many probes were sent, once they are
over; who was told of this start, once SAFE-OP is asked for; and in ERROR all
but which slaves are there. Two states that it identifies have the same steps
before them, so that it takes nothing from liveness either. The port has as few slots as
`PortAssumption` allows, and a request is sent at most twice. The brakes have
the robot's three slaves. In `board`, a tick of the device is its position period and the times
keep their order; `StopFails` is 0 because nothing retries a failed stop
(section 6), `Late` is FALSE for the same reason; the ring's index wraps after
two rounds; one datagram or two are lost. In `commands`, `MaxRequests` is one
more than the requests a client waits for, so that one that was given up meets
its successor; two kinds of goals are as good as three, since the servers differ
only in their kind.

Fairness. `FairSpec` of `MotionLoop`: weak fairness of the CAN task, the
EtherCAT task and the tick. Both tasks block only on `osDelayUntil`, and the
polling for a frame has its timeout. The CAN task has the time between EtherCAT
cycles; that lost frames take it away costs no fairness, because after
`FaultLimit` of them there are no more cycles. `HostStream`: the worker thread, a loop around `sleep_until`,
keeps taking steps and the bus keeps delivering (or losing) frames; its
acknowledgement timeout is the step `DecideAckLate`. `BrakeRelease`: the EtherCAT
task and the worker run, and a drive that was commanded shows it; no transfer
needs to succeed. `EcatMaster`: `ECAT_Process` keeps being called once there is a
link; the bus and the slaves owe nothing. `DriveEnable`: the task runs; the axes
owe nothing. `EthPort`: a wait polls and looks at its timer; no answer need
come. `CanBusOff`: the CAN task, the clock and the interrupt run; that the bus
falls idle is not assumed. `CanRxRing`, `TxPdoSnapshot`: the reading task
runs. `UartLog`: the log task runs, and the hardware ends, fails or stalls each
transfer. `CyclicMailbox`: the handler is called, and the worker's bounded waits
end. `JogMode`: strong fairness of the manager's timers, because the executor
takes ready timers and subscriptions before services, and may be kept from them
only by handlers that end; weak fairness of the clock and of the bounded waits.
`MotionCommand`: the worker, and the messages under way.

Deadlock is checked in every run but two. In `ethercat` every sequence is over at
some time, and a bus in ERROR stays there until power is cut. In `commands` the
bound on the goals ends every behaviour of the motion command node.

## 4. Properties and what would break them

Each property of a passing run has at least one mutated operator that TLC shows
to break it, so none holds by the shape of the model alone. A property that
joins several statements has one for each of the statements that matter.

| Property | Broken by |
|---|---|
| `BufferSafe` | a push that ignores the capacity; a hold that keeps the queue; accepting any sequence number ahead |
| `ExecutedStepsByOne` | accepting any sequence number ahead |
| `PlaybackConsecutive` | a RESET that keeps the executed report; staging for any stream |
| `HoldUntilReset` | staging for any stream |
| `FirstReasonKept` | overwriting the reason |
| `ImplementsStream` | playback without prefill |
| `OnlyFreshPoints` | a signed tick comparison |
| `LoopSafe` | a push that ignores the capacity; reporting at staging time; a confirmation that leaves the staged point |
| `SilenceLatches` | judging only RUNNING streams |
| `OnlyWithLiveHost`, `StopIsFinal` | HandleTest skipping one of its checks; for the first, also one lost frame more that is tolerated |
| `LatchStopsDrives` | a quick stop that never writes its controlword |
| `FlowSafe` | acknowledgements counted twice; a credit without the points under way |
| `StreamEndsWithHold` | a stream that is ended without waiting for its HOLD |
| `NoResetWhileRunning` | a start that does not look at the firmware's state |
| `FaultNeverDowngraded` | an abort that lowers the state a HOLD leads to |
| `RestartNeedsReset` | a write that an abnormal state does not block |
| `PhaseEnds` | a HOLD that is booked only for streams that ended normally |
| `CommandedOnce` | a write that is repeated when it was not answered |
| `BrakesSafe` | a step that does not wait for the slot; a rollback that drops a job under work; closing under a transfer; taking the second feedback for the first |
| `BrakesEnd` | trying to close the context once only |
| `LayoutSafe` | rewriting a map that an assignment names; trusting writes without reading back |
| `MasterSafe` | configuring while the slaves climb by themselves; the or-ed state taken for each slave's; a snapshot before the first exchange; slots taken from the first one each time; a slot kept when no answer came; an answer of any slot |
| `StartIsProven` | judging by the or-ed state; giving up without taking the request back |
| `MasterEnds` | a wait without its limit; bad cycles tolerated for ever; a poll that does not look at the timer |
| `WordsSafe` | a rollback that keeps the word; a request repeated every cycle |
| `FaultStopsAll` | one state of the sequence that does not look for faults |
| `HeardAgain` | accepting the next number only |
| `ReadyIsReal` | a verdict that takes any heartbeat; a session that keeps the trackers |
| `BoardSafe` | accepting a number again; stopping without dropping the requests; sending unchecked; an abort that leaves the DMA running; a snapshot written in place; one marked as printed too late; a ring with an off-by-one |
| `MailboxSafe` | a ticket or a buffer given back without the other; an overrun that keeps its buffer; a send that expires as if done; one written last in first out |
| `ImplementsFifo` | a slot released before its frame was copied |
| `GivenUpIsGone` | a removed request still pending; a written one kept |
| `NothingIsStuck` | stopping a controller that does not know it is off; one attempt to read a snapshot; waiting for a transfer that was refused; serving always the first drive; an interrupt that starts recovery unread |
| `MoveItModeIsMoveIt` | a switch given up as if nothing had happened |
| `FaultNeverIgnored` | a reset that does not clear the hold flag |
| `OneCommand` | accepting while the last command stops |
| `CancelledStandsStill` | noting a cancellation too late; a cancellation that tells MoveIt only; one that tells the HOLD service only |
| `StopsOnSilence` | a fault that is raised only while active |
| `GoalsEnd` | a cancellation that takes its goal out of the worker's hands |

## 5. Proofs

The theorems hold for every value of the constants under the named assumptions
of their modules, which say no more than the code's constants do.

**Trajectory buffer** (`ContextAssumption`, `TickAssumption`: the capacity is
smaller than the sequence modulus, the prefill lies within the capacity, the
age bound within the tick's range). `RobotTrajectoryProofs`: `TypeCorrect`,
`BufferCorrect`, `PlaybackCorrect`, `ExecutedCorrect`, `HoldCorrect`,
`ReasonCorrect`, `FreshnessCorrect`, and `Refinement`,
`Spec => ImplementsStream`. `IInv` conjoins the type, the agreement of flags and
indices, the consecutive queue, the playback chain and, for the consumer's local
copies, that a point in hand of the current generation is the one before the
queue's head. `PlaybackConsecutive` alone is not inductive: Stage needs to know
that nothing is staged when a point is in hand, and Take needs the ring to agree
with its indices to know what the head is. `TrajectoryContextProofs` proves,
operator by operator, that the context invariants are preserved and what each
call returns; `RobotTrajectoryProofs` lifts them to the actions (`IInvHolds`),
and the action properties follow from `IInv` and the effect of each step
(`StepEffects`). The refinement proves that the queue as a sequence (`Queued`) is
appended to by Push and loses its head by Take, across the wrap of the ring, so
that each action is one abstract step or a stutter.

**Control loop** (`MotionLoopProofs`, `LoopAssumption`). `LoopIsSafe`,
`SilenceIsNoticed`, `StopsAreFinal`, `DeadMansSwitch`: every safety property of
the run `control_loop`, for every buffer, timeout, period and limit. The
invariant `IInv` has three parts. `Chain` and `DriveInv` follow a point from the
queue to the drives: the staged point is the one in the image and precedes the
queue, and image and drives are at the executed point or the one behind it; only
together are they inductive, because the report of one cycle is the image of the
one before. `LocalsInv` says what the CAN task's locals, read in an earlier
critical section, still guarantee after EtherCAT cycles in between: a HOLD seen
lasts until the task itself ends it. `HeartbeatInv` and `CommandInv` bound the
ages while no timeout was noticed, by the step of the pass and the ticks that may
have come since it began (`canLag`). `LagInv` bounds these: since a cycle that
ended well, after which the CAN task has run, each lost frame has taken a poll at
most, and TEST tolerates fewer than `RollbackLimit`. So the lag of a cycle that
ends well is at most `Starved`, and a timeout that one pass has just missed is
noticed by the next: the properties allow `2 * Starved`. With the code's numbers
that is ten milliseconds beyond each timeout. `DeadMansSwitch` assumes a prefill of at least two points (the code has
8): with one, a cycle can load the first point of a stream between the reset of
the buffer and the stamping of the command that brought it, and TLC finds that
violation when the run is given `Prefill = 1`.

**Host stream** (`HostStreamProofs`; `ContextAssumption`,
`SchedulerAssumption`, `StreamAssumption`, `SequenceAssumption`).
`StreamIsFlowSafe`, `StreamsEndWithHold`, `FaultsStand`, `ResetsFindNoneRunning`,
`RestartsNeedReset`: every safety property of `host_flow` and `host_restart`,
for every ring, watermark, queue and number of frames under way, and with all
services and failures at once, which no run explores together. The credit alone
is far from inductive, because the scheduler counts on a status that is old,
of a stream it must recognise by its numbers. `StreamInv` says so:

* `Traced`: while the counters are tracked, the points sent and not known to be
  accepted are at least those on the wire, in the worker's hands, and accepted
  since the status; the firmware holds at most what the status said and those.
* `Quiet`: otherwise the firmware holds at most the one point of a RESET, and no
  point is on its way to it.
* `Answered`: a report that carries the number of the RESET is about the stream
  that this RESET opened.
* `Nears`: a number the firmware may still report was sent less than `SeqMod`
  frames ago, so that no later RESET can have the same one. `Ago` counts the
  frames since, `Budget` those the host may still send before it must have seen
  a newer status; the bound grows with the age of the status.
* `InOrder` and `Phases`: frames on the wire are the last ones sent, in order,
  none that applies a point behind a RESET; which frame each state may have in
  hand.

Three hypotheses are theirs. The reset service does not come between the two
lines of `write()` that look at the state and start a stream
(`"reset" \notin Overlap`); nothing in the code rules it out, but the window
would have to outlast a failed RESET, an operator's call and another RESET; then
`FaultNeverDowngraded` is false (section 6). `RestartsNeedReset` wants no service
at all in that window (`Overlap = {}`), and the run `hold_before_start` shows
that it must. `ResetsFindNoneRunning` wants `Prefill > 1`, as in the code.

**EtherCAT** (`EtherCATProofs`). `LayoutIsSafe`, `MasterIsSafe`,
`IsProvenAtStart`, `WordsStaySafe` and `BrakesAsideSafe`: all safety properties
of the run `ethercat`, of the composition as TLC runs it. `PartsAside` shows
that each of its steps is a step of one part and leaves the others alone.

* Layout of a drive (`LayoutAssumption`, of both drives): `LayoutIsSafe`, for any
  lists of PDOs and entries and whatever the drive held. What passes is what is
  wanted because the reading has seen every transfer agree (`Checked`, `Seen`),
  and a reading begins anew after every write; that needs nothing of the writes,
  so that it holds of a drive that ignores them too. That no assignment is in
  force over a map in pieces is `LayoutMapped`: both assignments are off, or
  every map is whole. `LayoutBegun` says from which transfer on they are off,
  `LayoutDone` which maps, and which entries of the one at hand, are written by
  then; that no PDO is mapped twice is needed there. `LayoutRewriting` and
  `LayoutVerifying` say which transfer stands where in the two lists.
* Start of the bus (`MasterAssumption`): `BusIsSafe`. That no slave is in OP
  while the master is below it does not follow from what the slaves are, because
  a slave obeys late, or never heard what it was asked: `InStep` also says what
  each slave that was `told` something still has to do, and that one that was not
  was found in PRE-OP by the check of every slave, so that it can move only by the
  one request it may have had from before (`Deaf`); `SafeAsked` says which request a failing start has behind it. `Known` and `Waits` tie the loops over the slaves to the states
  read so far, which a slave may have left since; `Opened` ties the context and
  the mailboxes to the state of the master, `Counted` the bad cycles to it, and
  `InputsReal` says from when on the inputs are the slaves'.
* Brakes (`BrakeAssumption`): `BrakesAreSafe`, `IsCommandedOnce`,
  `TransfersEndFirst`, `JobsAreAsked`, for every number of slaves, waiting time
  and tolerance. That no command is sent twice needs to be known of commands not
  yet sent: the invariant counts, for axes ahead of the sequence nothing, for
  the current one nothing that a step to come will send, and that a write
  waiting in the slot was not done yet (`NothingAhead`, `NothingToCome`,
  `NotYetSent`); `Slot` and `Copied` tie the worker to the slot, `AskedFor` the
  slot to the step. `BrakesAreSafe` also needs the course of the sequence
  (`Course`): axes ahead of it are at rest and untouched, axes behind it at rest
  and done with, the one at hand was sent exactly what the steps so far send
  (`SentAt`) and holds the command the last answered write left (`CommandAt`); a
  feedback seen cleared under a CLEAR stays cleared, because the drive sets it
  on a command only. `BadCounted` relates lost cycles to the rollback.
* Enable sequence (no assumption): `WordsAreSafe`. The word that is staged is one
  the state of the sequence permits (`Staged`, `Staging`), and each axis holds it
  or a word it may follow, whichever of the axes an exchange reached
  (`Lagging`). A request is granted once (`OneGrant`): the states behind it are
  reached with it only, so that what was given up has no request left to start
  from. `Dispatched` says of every handler at once what it stages.
* Ethernet port (`PortAssumption`): `PortIsSafe`. A frame that nobody waits for
  belongs to a slot given back; it is harmless as long as the numbering has not
  come round to that slot. `Away` bounds how many slots were given out since, by
  where the frame is: on the wire by its age (`OnTheWire`), in a descriptor by
  its place (`InTheRing`), copied by both (`InHand`). Two facts make that
  inductive: an exchange that begins moves everything on by at most two slots,
  and one that ends has read at least one descriptor (`Begun`, `Slack`).

**Board** (`BoardProofs`). `BoardIsSafe`, the invariant `BoardSafe` of the run
`board`, and its parts for the parts' own specifications. `SideBySide` shows that
each step of the composition is a step of one part and leaves the others alone
(for the two mailboxes `MailboxSteps` does).

* Session of the host (`HalfAssumption`, `MaxUnseenAssumption`): `IsHeardAgain`,
  `IsTakenOnce`, `HostSessionTyped`. `Bounded` relates the refused frames to the
  distance around the circle of numbers: each refused frame comes one step closer
  to the half that is taken.
* Session of the device (`HalfAssumption`, `SessionAssumption`):
  `FeedbackOnBoard`, the invariant `ReadyIsReal`. `Lives` says that what the host
  holds of an earlier life is older than the present one or out of date, hence
  out of date before the axes are operational again; `LivesInFlight` says the
  same of frames on their way. For the bounded time, `Streak` follows the
  periods in which nothing is lost: a heartbeat that is not followed up is older
  than the streak, so that it times out, and the next one starts a new session
  (`HeartbeatDue`); a position that is refused leaves one refusal fewer to come
  (`Refusals`, `PositionDue`), and their number is what `RecoveryTicks` adds to
  the boot time.
* Bus-off (`BusOffAssumption`): `BusOffIsRemembered`, `StopsOnlyWhenOff`. What
  makes the clearing of the flag behind a restart harmless is not in the
  property: a controller just restarted has nothing to transmit, hence cannot go
  off the bus, and the task that clears the flag is the one that sends. The
  invariant says that at each step between the two.
* Ring (`RingAssumption`): its types for every depth and wrap of the indices;
  that a depth divides the range of the indices is what keeps their difference
  the number of waiting frames. `RingIsAQueue`: the ring implements `BoundedFifo`
  but for its fairness, which stays with the run `board` (`ImplementsFifo`). That
  depth is also what makes the slots between the indices lie in one order across
  the wrap (`Places`, `QueueShape`); then what the handler writes is the queue's
  end (`QueueAppend`), what the task releases its head (`QueueTail`), and the
  frame it copied before is still in the slot (`Copied`).
* Log (`LogAssumption`): `LogIsSafe`. As long as every abort worked, the buffer on
  the task's stack is released between messages and the next start is accepted.
  `LogPhases` says what UART and DMA are at each step of the task.
* Snapshots (`SnapshotAssumption`): `SnapshotIsSafe`, for every number of
  buffers, tries and captures below a wrap of the numbers. What the reader has
  copied so far is of its number unless the writer has gone on since (`Copying`,
  `Gap`).

**Mailboxes** (`CyclicMailboxProofs`, `MailboxAssumption`). The ring of free
buffers, the transmit queue and the drives' queues are sequences; what the
handler does to its queue, which it filters and turns in one call, is said once
(`Turned`): an injective function tells which entry each one left was.
`InOrder`, the order of a finite set of numbers, is what makes that provable
without an induction over the queue (`OrderOf`, `KeptOf`, `BuffersOfRemoved`).

* Of every pool, however small, and every behaviour of the drives:
  `BuffersApart` and `GivenUpIsNotWritten`. The invariant is `BaseInv`: no buffer
  is in two places (`Apart`), and the one entry of the queue not marked for
  removal is the request of the call that waits for it (`Ticketed`), which is
  why a marked one is never written.
* Of a pool with `PoolIsAmple`: `AmpleIsSafe`. That the worker compares an answer
  with its own request (`RequestIsKept`) is the hard part, because the buffer of
  a written request is free again and will be written into. What saves it is
  that the pool is a ring: when the request is written, its buffer is the last
  of the free ones, and there are more of those in front than there are messages
  still to come and reads that may still fail (`Asked`, `WrittenLast`), each of
  which takes one from the front. To count the messages: a drive's answers and
  the requests behind them are one line (`Lines`); on all lines and among the
  answers kept for the worker each call occurs at most once, and none that has
  not begun (`Traced`); every buffer is in the pool, in the queue, which has an
  entry per call at most, or kept (`Counted`). Until a call has failed, all of
  them belong to the call under way (`Own`).
* `MailboxOnBoard` and `GivenUpOnBoard` carry both to the run `board`: the
  invariant `MailboxSafe`, and the action property `NoLateWrite` of
  `GivenUpIsGone`, for the ample pool and the small one.

`PoolIsAmple`, `PoolSize >= 2 * MaxCalls + MaxLost`, counts over a whole
behaviour: with the code's 32 buffers the theorem covers, for example, ten calls
of which answers are late or lost with twelve datagrams lost besides. The bound
is enough and not necessary; it is not an upper limit on calls in the code, and
beyond it `AmpleIsSafe` says nothing, while the two theorems without it go on to
hold. That something like it is needed shows in the small pool of section 6,
where an answer is compared with a buffer used again.

**Commands** (`CommandNodesProofs`). `JogModeBesideCommands`, `CommandsAreOne`
and `CancelledStands`: the invariants of the run `commands`.

* Jog mode (`JogModeAssumption`): `MoveItKeepsTheArm`, `FaultsAreHandled`,
  `JogModeTyped`. `ExitIsLast` is needed for the induction: a switch back to
  MoveIt that is waited for is the last of the requests, so that no earlier one
  can come after it.
* Motion commands: `CommandsAreExclusive`, `EarlyCancelsAreSafe` and
  `StopsAreEffective`, whether the HOLD is configured or not and can be requested
  or not. A goal for which no HOLD was sent is stopped by MoveIt if it moved by
  then; of one told just ahead of its motion the theorem says nothing, because
  the code stops nothing then (section 6). The invariant says that all goals but the last have ended,
  which state the node is in at each stage of the worker, and that an early
  cancellation keeps the flag set until its goal ends.

Every safety property of a passing run is stated by a theorem. Model-checked
only is liveness (`LatchStopsDrives`,
`PhaseEnds`, `BrakesEnd`, `MasterEnds`, `FaultStopsAll`, `NothingIsStuck`,
`StopsOnSilence`, `GoalsEnd`, the fairness of `ImplementsFifo`), which is out
of TLAPS's reach.

## 6. Findings and disagreements

Three have a run of their own:

* `root_cause`: the comment at `ECAT_runtime.c:2163` says the status keeps the
  first root cause of a quick stop. HandleTest derives the cause from live
  flags, and a late frame clears the timeout flag without clearing the latched
  request, so a stop by timeout can be reported as QUICK_STOP.
* `abandoned_stream`: the comment at `csp_scheduler.cpp:316` says that an abort
  before the RESET was acknowledged finds nothing under way. The worker may be
  sending that RESET just then; the firmware opens the stream, the host rests,
  no HOLD follows, and the firmware's command timeout latches.
* `hold_before_start`: the comment at `elfin3_canfd_system.cpp:497` says a new
  command alone never leaves an abnormal state. `write()` reads the state and
  starts the stream under two separate locks, and `start_trajectory` refuses
  FAULT only.

More were met while modelling. Each is a formula over the module named, false in
the instance given, which a reader can check by adding it to a configuration:

| Module, instance | Formula that fails | The source says, and does |
|---|---|---|
| `CanBusOff`, `StopFails = 1` | `pending ~> ~pending` | `bsp_can.c:603` promises that a failed stop is retried. A stop that times out leaves the HAL in ERROR (`stm32h7xx_hal_fdcan.c:2663`); later calls then neither stop nor start (`:634`), and the node stays off the bus. |
| `UartLog`, `Late = TRUE` | `pc = "judge" /\ event = "COMPLETE" => dma # "busy"` | `app_uart_log.c:123` drains a stale notification before a transfer. A transfer that ends between two accesses of its abort re-enables TCIE (`stm32h7xx_hal_uart.c:3664`), and its interrupt comes behind the drain. |
| `DriveEnable` | `controlword = 0` | `ECAT.c:30` says that only controlword 0 is verified and no enable sequence executed; the runtime runs all of it. |
| `PdoMapping` | an action property: after `disable` both assignments have count 0 | `ECAT_pdo_map.c:1281` logs "assignments left disabled" although both results of the disabling writes are ignored. |
| `EcatMaster` | past the SAFE-OP check every slave is in SAFE-OP | `ECAT_runtime.c:419` says so of OK; the or-ed state of those that answer is taken, and a silent slave in PRE-OP passes (the later check of every slave in OP stops the start). |
| `EcatMaster` | in OP_REQUEST the output is not the zero target | `ECAT.c:21` says the target is the actual position; after a lost exchange it is the zero of the cleared image (the drives are disabled). |
| `EcatMaster` | in OPERATIONAL what was seen of a slave is its state | `ECAT_runtime.c:637` says heartbeat byte 3 reflects the actual state; nothing refreshes it in OPERATIONAL. |
| `EcatMaster` | `probes <= 50` with the code's `ProbeCount` | `ECAT.c:10` says 50 probes, `ECAT.c:62` sends 200. |
| `HostStream`, `Overlap = {"reset"}` | `FaultNeverDowngraded` | `elfin3_canfd_system.cpp:498` again: that write reads the state and starts under two locks. If `write()` is held up between its look at the state and its start for as long as a failed RESET, an operator's reset and the next RESET take, it starts over a stream whose HOLD to FAULT is being sent. |
| `JogMode` | `mode = "FAULT" /\ ~hold => ~(active = "jog" /\ jog = "move")` | `jog_mode_manager.cpp:260` says FAULT keeps motion commands away; a switch whose answer came too late is still made. |
| `JogMode` | `mode = "JOG_IDLE" => active = "jog"` | The supervisor (`:574`) takes JOG_IDLE to mean that; a reset after a refused switch enters JOG_IDLE with MoveIt's controller active. |
| `JogMode`, with a history variable | an escape in a jog mode does not end in MOVEIT | `keyboard_teleop.cpp:141` says a reset is still required; an escape while `exit` waits is forgotten. |
| `JogMode`, with a history variable | the watchdog fires on silence only | `jog_mode_manager.cpp:308` says every arrival is noted; no callback runs while a service is awaited. |
| `JogMode`, with a history variable | a key held across the switch never moves the arm | `jog_mode_manager.cpp:238` checks released keys before two waits, and not after them. |
| `MotionCommand` | a served stop cancels the goal it was asked for | `motion_command_node.cpp:1011` says "accepted for the active motion command"; the cancel-all names no goal and may meet the next one. |
| `MotionCommand` | a goal reported as cancelled does not move the arm after the cancellation | With the default of the parameter (`HoldOnCancel = FALSE`), or a HOLD that cannot be requested, a motion that begins just after MoveIt's stop runs to its end (`:730`, `:1305`). |
| `CyclicMailbox` | `result.answer = Answer(call)` when a call succeeds, also after a failed one | `ec_coe.c:196` calls the mailbox counter a session handle, but an answer is judged by service and index only: a late answer of the same object passes. |
| `EthPort` | `answer \in {0, NoAnswer}` | `nicdrv.c:316` says that an answer with the slot's index is that of the request. Setting the port up again starts the numbering again and leaves the descriptors as they are (`:63`), so an answer from before can be taken. |
| `CyclicMailbox`, a small pool | the answer has the request's index | `ec_coe.c:247` compares with a buffer that was given back to the pool and may hold the answer itself. With 32 buffers it takes 31 other messages within the call's 80 ms. |

Facts that contradict no statement but matter to a reader: nothing calls
`APP_CAN_ClearSafetyRequest`, so every timeout is final until a restart; the
executed report may lag the drives by the one point whose frame was on the wire
when a stream ended; a quick stop that is latched while the enable sequence runs
acts on no drive before all of them are enabled (`ECAT_runtime.c:2164`); an abort
of the log's transfer that times out leaves `gState` busy, and every later
message is dropped unsent (`app_uart_log.c:141`); a stream that is reset and
faults again between two looks of the 10 ms timer publishes no fault
(`elfin3_canfd_system.cpp:1192`); the control mode is looked at when a goal is
accepted and not again (`motion_command_node.cpp:686`); a failed final HOLD is
not repeated (`csp_scheduler.cpp:714`); a cancellation that comes between the
last look at the flag and `execute()` while the HOLD service is unavailable stops
nothing, and the arm runs the motion to its end (`motion_command_node.cpp:730`,
`:1305`); a slave that no request of this start has reached may follow an
earlier one to SAFE-OP while layouts are rewritten, behind the check of PRE-OP
(`ECAT_runtime.c:326`); two tolerated lost frames keep the CAN task from running
for four milliseconds (`ECAT_runtime.c:871`).

## 7. Not modelled

* Conversions and arithmetic without control state: packing of 0x200-0x204,
  `robot_joint.c` (only `ROBOT_JOINT_GetConfig` has callers), the jog
  controller's positions, kinematics and planning, which are floating point.
* Segmented SDO transfers, which this firmware never asks for, and the rest of
  SOEM and HAL: assumptions of the modules that call them.
* `bsp_key.c`, whose press events nothing reads; the diagnostics of `ECAT_diag.c` and
  `app_eth_debug.c`; LAN8720 and RS485 support; start-up in `main.c`.
* On the host: life cycle transitions of the ros2_control system, the
  stand-alone `driver_node.cpp`, the supervisor (stateless checks), the console,
  launch files, meshes, simulation and benchmark.

The repository contains the vendored HAL, CMSIS, FreeRTOS and SOEM, which are
most of its lines; of these only what the firmware's own protocols hang on is
modelled.

What is left to do: the mailbox for calls without number, where the bound on the pool would
count what failed calls left behind instead of all calls; a reading of SOEM's
slave configuration, which `EcatMaster` takes to succeed or fail.
