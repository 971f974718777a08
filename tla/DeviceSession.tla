--------------------------- MODULE DeviceSession ---------------------------
(***************************************************************************)
(* The feedback of the device as the host takes it: position feedback      *)
(* 0x201 with every cycle, the device heartbeat 0x203 with every           *)
(* HeartbeatPeriod-th.  The device may restart at any time: its numbers    *)
(* start at 0 again, and its axes are operational only BootTicks later.    *)
(* The host is not told; a heartbeat after a silence longer than the       *)
(* heartbeat timeout makes it start a new device session.                  *)
(*                                                                         *)
(* Time is counted in position periods.  MaxLives bounds the restarts,     *)
(* MaxLosses the frames lost in one life.                                  *)
(***************************************************************************)
EXTENDS SequenceTracker, Sequences

CONSTANTS HeartbeatPeriod, PositionTimeout, HeartbeatTimeout, BootTicks,
          MaxLives, MaxLosses

(* What the theorems assume of them (BoardProofs).  The bus takes seconds  *)
(* to reach OP, the heartbeat times out after 300 ms, the position after   *)
(* 50: both timeouts are below BootTicks.  Heartbeats come less often than *)
(* positions and oftener than they time out.                               *)
SessionAssumption ==
  /\ HeartbeatPeriod \in Nat /\ HeartbeatPeriod >= 2
  /\ PositionTimeout \in Nat /\ HeartbeatTimeout \in Nat /\ BootTicks \in Nat
  /\ HeartbeatPeriod <= HeartbeatTimeout
  /\ PositionTimeout < BootTicks /\ HeartbeatTimeout < BootTicks
  /\ MaxLives \in Nat \ {0} /\ MaxLosses \in Nat

VARIABLES
  device,  \* life, up, ticks since boot, next numbers, ticks to the heartbeat
  wire,    \* frames sent and not yet dispatched
  host,    \* trackers, has_ flags, ages, latest heartbeat, life of the data
  busOff,  \* bus_off_
  losses,  \* frames lost in this life
  quiet    \* ticks the device has been up with nothing lost

vars == <<device, wire, host, busOff, losses, quiet>>

(* The longest the host takes to be ready: the device boots, a position    *)
(* refused by its number is taken half the range later, and the frame that *)
(* clears the bus-off is one more.                                         *)
RecoveryTicks == BootTicks + Half + HeartbeatPeriod

Operational == device.boot = BootTicks

Frames == [kind : {"position", "heartbeat"}, number : Numbers,
           operational : BOOLEAN, life : 1 .. MaxLives]

TypeOK ==
  /\ device \in [life : 1 .. MaxLives, up : BOOLEAN, boot : 0 .. BootTicks,
                 position : Numbers, heartbeat : Numbers,
                 due : 0 .. (HeartbeatPeriod - 1)]
  /\ wire \in Seq(Frames) /\ Len(wire) <= 2
  /\ host \in [position : Trackers, heartbeat : Trackers,
               hasPosition : BOOLEAN, hasHeartbeat : BOOLEAN,
               positionAge : 0 .. PositionTimeout + 1,
               heartbeatAge : 0 .. HeartbeatTimeout + 1,
               operational : BOOLEAN,
               positionLife : 1 .. MaxLives, heartbeatLife : 1 .. MaxLives]
  /\ busOff \in BOOLEAN
  /\ losses \in 0 .. MaxLosses
  /\ quiet \in 0 .. RecoveryTicks

Init ==
  /\ device = [life |-> 1, up |-> TRUE, boot |-> 0, position |-> 0,
               heartbeat |-> 0, due |-> 0]
  /\ wire = <<>>
  /\ host = [position |-> Fresh, heartbeat |-> Fresh,
             hasPosition |-> FALSE, hasHeartbeat |-> FALSE,
             positionAge |-> 0, heartbeatAge |-> 0, operational |-> FALSE,
             positionLife |-> 1, heartbeatLife |-> 1]
  /\ busOff = FALSE
  /\ losses = 0
  /\ quiet = 0

-----------------------------------------------------------------------------
(* The device                                                              *)

Older(age, timeout) == IF age > timeout THEN age ELSE age + 1

TimePasses ==
  host' = [host EXCEPT !.positionAge = Older(@, PositionTimeout),
                       !.heartbeatAge = Older(@, HeartbeatTimeout)]

Frame(kind, number) ==
  [kind |-> kind, number |-> number, operational |-> Operational, life |-> device.life]

(* APP_CAN_ProcessTx: the position first, the heartbeat last; a number is  *)
(* used up once its frame is in the transmit queue.                        *)
ProcessTx(lost) ==
  LET sent == IF device.due = 0 THEN {"position", "heartbeat"} ELSE {"position"}
  IN  /\ device.up /\ wire = <<>>
      /\ lost \subseteq sent
      /\ losses' = losses + (IF lost = {} THEN 0 ELSE 1)
      /\ losses' <= MaxLosses
      /\ quiet' = IF lost # {} THEN 0
                  ELSE IF quiet < RecoveryTicks THEN quiet + 1 ELSE quiet
      /\ wire' = (IF "position" \in sent \ lost
                  THEN <<Frame("position", device.position)>> ELSE <<>>)
                 \o (IF "heartbeat" \in sent \ lost
                     THEN <<Frame("heartbeat", device.heartbeat)>> ELSE <<>>)
      /\ device' = [device EXCEPT
           !.position = Following(@),
           !.heartbeat = IF device.due = 0 THEN Following(@) ELSE @,
           !.due = IF @ = 0 THEN HeartbeatPeriod - 1 ELSE @ - 1,
           !.boot = IF @ < BootTicks THEN @ + 1 ELSE @]
      /\ TimePasses
      /\ UNCHANGED busOff

Stop ==
  /\ device.up /\ device.life < MaxLives
  /\ device' = [device EXCEPT !.up = FALSE]
  /\ quiet' = 0
  /\ UNCHANGED <<wire, host, busOff, losses>>

Silence ==
  /\ ~device.up /\ wire = <<>>
  /\ TimePasses
  /\ UNCHANGED <<device, wire, busOff, losses, quiet>>

(* APP_CAN_Init zeroes every number; all frames are due at once.           *)
Start ==
  /\ ~device.up
  /\ device' = [life |-> device.life + 1, up |-> TRUE, boot |-> 0,
                position |-> 0, heartbeat |-> 0, due |-> 0]
  /\ losses' = 0
  /\ UNCHANGED <<wire, host, busOff, quiet>>

-----------------------------------------------------------------------------
(* The host                                                                *)

(* Mutant: the trackers live on.                                           *)
NewSessionKeepingNumbers(h) == [h EXCEPT !.hasPosition = FALSE]

NewSession(h) ==
  [h EXCEPT !.hasPosition = FALSE, !.position = Fresh, !.heartbeat = Fresh]

TakePosition(f) ==
  IF f.operational /\ Accepts(host.position, f.number)
  THEN [host EXCEPT !.position = Take(@, f.number), !.hasPosition = TRUE,
                    !.positionAge = 0, !.positionLife = f.life]
  ELSE host

TakeHeartbeat(f) ==
  LET h == IF host.hasHeartbeat /\ host.heartbeatAge > HeartbeatTimeout
           THEN NewSession(host) ELSE host
  IN  IF Accepts(h.heartbeat, f.number)
      THEN [h EXCEPT !.heartbeat = Take(@, f.number), !.hasHeartbeat = TRUE,
                     !.heartbeatAge = 0, !.operational = f.operational,
                     !.heartbeatLife = f.life]
      ELSE h

(* receive_loop and dispatch: any frame clears the bus-off.                *)
Dispatch ==
  /\ wire # <<>>
  /\ wire' = Tail(wire)
  /\ host' = IF Head(wire).kind = "position"
             THEN TakePosition(Head(wire)) ELSE TakeHeartbeat(Head(wire))
  /\ busOff' = FALSE
  /\ UNCHANGED <<device, losses, quiet>>

(* An error frame of the interface.                                        *)
BusOff ==
  /\ wire = <<>>
  /\ busOff' = TRUE
  /\ quiet' = 0
  /\ UNCHANGED <<device, wire, host, losses>>

Next ==
  \/ \E lost \in SUBSET {"position", "heartbeat"} : ProcessTx(lost)
  \/ Stop \/ Silence \/ Start
  \/ Dispatch \/ BusOff

Spec == Init /\ [][Next]_vars

-----------------------------------------------------------------------------
(* Mutant: the age of the heartbeat is not looked at.                      *)
ReadyWithOldHeartbeat ==
  /\ ~busOff /\ host.hasPosition /\ host.hasHeartbeat
  /\ host.positionAge <= PositionTimeout
  /\ host.operational

(* motion_ready_locked, as far as the age and the life of the data go.     *)
MotionReady ==
  /\ ~busOff /\ host.hasPosition /\ host.hasHeartbeat
  /\ host.positionAge <= PositionTimeout
  /\ host.heartbeatAge <= HeartbeatTimeout
  /\ host.operational

(* The host never takes the arm for ready on a heartbeat of one life of    *)
(* the device and a position of another, however the restart falls.        *)
ReadyOnOneLife == MotionReady => host.positionLife = host.heartbeatLife

(* Once the device is up and nothing is lost, the host is ready in bounded *)
(* time, whatever numbers the trackers still hold from an earlier life.    *)
ReadyInTime == quiet = RecoveryTicks /\ wire = <<>> => MotionReady
=============================================================================
