------------------------------ MODULE CanBusOff ------------------------------
(***************************************************************************)
(* Bus-off and its recovery: the FDCAN controller, the error status        *)
(* interrupt of bsp_can.c and the CAN task, which sends and restarts.      *)
(*                                                                         *)
(* The interrupt comes between any two of the task's steps.  A controller  *)
(* goes bus-off only while it transmits; it sets CCCR.INIT by itself then, *)
(* and leaves bus-off once INIT is cleared and the bus was idle.  Opening  *)
(* its configuration (CCCR.CCE) drops its transmit requests.               *)
(***************************************************************************)
EXTENDS Naturals

CONSTANTS
  Delay,       \* BSP_CAN_RECOVERY_DELAY_MS
  TxDepth,     \* hfdcan1.Init.TxFifoQueueElmtsNbr
  StopFails,   \* bound: times HAL_FDCAN_Stop times out
  StartFails   \* bound: times BSP_CAN_Start fails after a stop

(* What the theorems assume of them (BoardProofs).                         *)
BusOffAssumption ==
  /\ Delay \in Nat \ {0} /\ TxDepth \in Nat \ {0}
  /\ StopFails \in Nat /\ StartFails \in Nat

VARIABLES
  ctl,      \* the controller: INIT, bus-off (PSR.BO), transmit requests
  hal,      \* hfdcan1.State
  irq,      \* the bus-off interrupt is pending
  pending,  \* bsp_can_bus_off_pending
  age,      \* ticks since bsp_can_bus_off_tick, saturated at Delay
  task,     \* where the CAN task is
  fails     \* stops and starts that may still fail
vars == <<ctl, hal, irq, pending, age, task, fails>>

(* After APP_CAN_Init.                                                     *)
Init ==
  /\ ctl = [init |-> FALSE, off |-> FALSE, requests |-> 0]
  /\ hal = "BUSY" /\ irq = FALSE /\ pending = FALSE /\ age = 0
  /\ task = "idle" /\ fails = [stop |-> StopFails, start |-> StartFails]

----------------------------------------------------------------------------
(* The controller and the bus.                                             *)
Transmitting == ~ctl.init /\ ~ctl.off /\ ctl.requests > 0

Transmitted ==
  /\ Transmitting
  /\ ctl' = [ctl EXCEPT !.requests = @ - 1]
  /\ UNCHANGED <<hal, irq, pending, age, task, fails>>

GoBusOff ==
  /\ Transmitting
  /\ ctl' = [ctl EXCEPT !.off = TRUE, !.init = TRUE] /\ irq' = TRUE
  /\ UNCHANGED <<hal, pending, age, task, fails>>

(* The change of the status flag interrupts as well.                       *)
LeaveBusOff ==
  /\ ctl.off /\ ~ctl.init
  /\ ctl' = [ctl EXCEPT !.off = FALSE] /\ irq' = TRUE
  /\ UNCHANGED <<hal, pending, age, task, fails>>

Tick ==
  /\ age < Delay
  /\ age' = age + 1
  /\ UNCHANGED <<ctl, hal, irq, pending, task, fails>>

----------------------------------------------------------------------------
(* The interrupt.                                                          *)

(* Mutant: the status is not read back.                                    *)
ErrorStatusUnread ==
  /\ irq /\ irq' = FALSE
  /\ IF ~pending
     THEN pending' = TRUE /\ age' = 0
     ELSE UNCHANGED <<pending, age>>
  /\ UNCHANGED <<ctl, hal, task, fails>>

HAL_FDCAN_ErrorStatusCallback ==
  /\ irq /\ irq' = FALSE
  /\ IF ctl.off /\ ~pending
     THEN pending' = TRUE /\ age' = 0
     ELSE UNCHANGED <<pending, age>>
  /\ UNCHANGED <<ctl, hal, task, fails>>

----------------------------------------------------------------------------
(* The CAN task; each step one access the interrupt may separate.          *)

(* Mutant: the free level of the transmit FIFO is not looked at.           *)
SendUnchecked ==
  /\ task = "idle" /\ ~pending /\ hal = "BUSY"
  /\ ctl' = [ctl EXCEPT !.requests = @ + 1]
  /\ UNCHANGED <<hal, irq, pending, age, task, fails>>

(* BSP_CAN_Send, of a valid frame, accepted.                               *)
Send ==
  /\ task = "idle" /\ ~pending /\ hal = "BUSY" /\ ctl.requests < TxDepth
  /\ ctl' = [ctl EXCEPT !.requests = @ + 1]
  /\ UNCHANGED <<hal, irq, pending, age, task, fails>>

(* BSP_CAN_Process: the delay is over.                                     *)
Due ==
  /\ task = "idle" /\ pending /\ age = Delay
  /\ task' = "stop"
  /\ UNCHANGED <<ctl, hal, irq, pending, age, fails>>

(* Mutant: stopping keeps the transmit requests.                           *)
StopKeepsRequests ==
  \/ /\ ctl' = [ctl EXCEPT !.init = TRUE] /\ hal' = "READY"
     /\ UNCHANGED fails
  \/ /\ fails.stop > 0 /\ hal' = "ERROR"
     /\ fails' = [fails EXCEPT !.stop = @ - 1]
     /\ UNCHANGED ctl

(* HAL_FDCAN_Stop of a running controller, which may time out.             *)
HAL_FDCAN_Stop ==
  \/ /\ ctl' = [ctl EXCEPT !.init = TRUE, !.requests = 0]
     /\ hal' = "READY" /\ UNCHANGED fails
  \/ /\ fails.stop > 0 /\ hal' = "ERROR"
     /\ fails' = [fails EXCEPT !.stop = @ - 1]
     /\ UNCHANGED ctl

Failed == age' = 0 /\ task' = "idle"

(* Mutant: a controller that is stopped already is stopped again.          *)
ProcessStopAlways ==
  /\ task = "stop"
  /\ \/ /\ hal = "BUSY" /\ HAL_FDCAN_Stop
        /\ IF hal' = "READY" THEN task' = "start" /\ UNCHANGED age ELSE Failed
     \/ /\ hal # "BUSY" /\ Failed
        /\ UNCHANGED <<ctl, hal, fails>>
  /\ UNCHANGED <<irq, pending>>

ProcessStop ==
  /\ task = "stop"
  /\ \/ /\ hal = "BUSY" /\ HAL_FDCAN_Stop
        /\ IF hal' = "READY" THEN task' = "start" /\ UNCHANGED age ELSE Failed
     \/ /\ hal # "BUSY" /\ task' = "start"
        /\ UNCHANGED <<ctl, hal, age, fails>>
  /\ UNCHANGED <<irq, pending>>

(* The checks and the configuration in BSP_CAN_Start, up to HAL_FDCAN_Start *)
ProcessStart ==
  /\ task = "start"
  /\ \/ /\ hal = "READY"
        /\ hal' = "BUSY" /\ ctl' = [ctl EXCEPT !.init = FALSE]
        /\ task' = "started" /\ UNCHANGED <<age, fails>>
     \/ /\ hal = "READY" /\ fails.start > 0
        /\ fails' = [fails EXCEPT !.start = @ - 1]
        /\ Failed /\ UNCHANGED <<ctl, hal>>
     \/ /\ hal # "READY"
        /\ Failed /\ UNCHANGED <<ctl, hal, fails>>
  /\ UNCHANGED <<irq, pending>>

(* BSP_CAN_Start clears the flag, and BSP_CAN_Process clears it again.     *)
Clear(from, to) ==
  /\ task = from /\ task' = to /\ pending' = FALSE
  /\ UNCHANGED <<ctl, hal, irq, age, fails>>

ClearInStart == Clear("started", "recovered")
ClearInProcess == Clear("recovered", "idle")

BSP_CAN_Process ==
  Due \/ ProcessStop \/ ProcessStart \/ ClearInStart \/ ClearInProcess

Next ==
  \/ Transmitted \/ GoBusOff \/ LeaveBusOff \/ Tick
  \/ HAL_FDCAN_ErrorStatusCallback
  \/ Send \/ BSP_CAN_Process

Spec == Init /\ [][Next]_vars

(* The CAN task runs every millisecond, interrupts are taken and time      *)
(* passes; nothing is assumed of the bus.                                  *)
FairSpec ==
  /\ Spec
  /\ WF_vars(BSP_CAN_Process) /\ WF_vars(Tick)
  /\ WF_vars(HAL_FDCAN_ErrorStatusCallback)

----------------------------------------------------------------------------
(* Every variable has its type, the transmit FIFO its depth (bsp_can.c:451) *)
TypeOK ==
  /\ ctl \in [init : BOOLEAN, off : BOOLEAN, requests : 0..TxDepth]
  /\ hal \in {"READY", "BUSY", "ERROR"}
  /\ irq \in BOOLEAN /\ pending \in BOOLEAN /\ age \in 0..Delay
  /\ task \in {"idle", "stop", "start", "started", "recovered"}
  /\ fails \in [stop : 0..StopFails, start : 0..StartFails]

(* A controller that took itself off the bus is known to be off, or its    *)
(* interrupt is about to say so (bsp_can.c:529): the clearing of the flag  *)
(* behind a restart, twice, at :377 and :643, never forgets a bus-off,     *)
(* although the interrupt may come between the restart and either.         *)
BusOffRemembered == ctl.init => pending \/ irq

(* Recovery stops only a controller that is off the bus: it never throws   *)
(* away the transmit requests of a working one, not even when the          *)
(* interrupt of the recovery itself comes late (bsp_can.c:530).            *)
OnlyStoppedWhenOff ==
  [][task = "stop" /\ task' = "start" => ctl.off /\ ctl.init]_vars

(* Every bus-off ends with a controller that takes part in the bus again.  *)
BusOffRecovers == ctl.init ~> ~ctl.init
=============================================================================
