------------------------------ MODULE CanRxRing ------------------------------
(***************************************************************************)
(* Reception in bsp_can.c: the interrupt handler moves frames from the     *)
(* controller's FIFO 0 into a software ring, the CAN task takes them out.  *)
(* The ring has no lock: each side owns one free-running uint32_t index    *)
(* and publishes it after its memory barrier.                              *)
(*                                                                         *)
(* The handler preempts the task between any two of the task's accesses,   *)
(* which are the steps below, never the other way round: a frame is moved  *)
(* in one step.  That the task may run between two frames of one interrupt *)
(* is two interrupts.                                                      *)
(***************************************************************************)
EXTENDS Naturals, Sequences

CONSTANTS
  Frames,      \* what a frame may carry
  Depth,       \* BSP_CAN_RX_QUEUE_DEPTH, a power of two
  IndexMod,    \* 2^32, where an index and a counter wrap: a multiple of Depth
  FifoDepth    \* hfdcan1.Init.RxFifo0ElmtsNbr

(* What the theorems assume of them (BoardProofs).                         *)
RingAssumption ==
  /\ Depth \in Nat \ {0} /\ FifoDepth \in Nat
  /\ IndexMod \in Nat /\ \E k \in 2 .. IndexMod : IndexMod = k * Depth

Indices == 0..IndexMod - 1

VARIABLES
  fifo,       \* the controller's FIFO 0
  ring,       \* bsp_can_rx_queue
  writeIndex, \* bsp_can_rx_write_index
  readIndex,  \* bsp_can_rx_read_index
  dropped,    \* bsp_can_stats.rx_queue_dropped
  reader,     \* the task inside BSP_CAN_TryReceive: step, its copy of the
              \* read index, and *frame
  given       \* the frame the last call returned to APP_CAN_ProcessRx
vars == <<fifo, ring, writeIndex, readIndex, dropped, reader, given>>

Succ(i) == (i + 1) % IndexMod
(* write_index - read_index in uint32_t.                                   *)
Pending(w, r) == (w + IndexMod - r) % IndexMod
Slot(i) == i % Depth

Init ==
  /\ fifo = <<>>
  /\ ring \in [0..Depth - 1 -> Frames] /\ writeIndex = 0 /\ readIndex = 0
  /\ dropped = 0
  /\ reader = [pc |-> "idle", index |-> 0, frame |-> "none"]
  /\ given = "none"

(* The controller stores an accepted frame; a full FIFO loses it.          *)
Arrive(f) ==
  /\ fifo' = IF Len(fifo) < FifoDepth THEN Append(fifo, f) ELSE fifo
  /\ UNCHANGED <<ring, writeIndex, readIndex, dropped, reader, given>>

(* Mutant: a full ring takes one more.                                     *)
PushInclusive ==
  IF Pending(writeIndex, readIndex) > Depth
  THEN /\ dropped' = Succ(dropped)
       /\ UNCHANGED <<ring, writeIndex>>
  ELSE /\ ring' = [ring EXCEPT ![Slot(writeIndex)] = Head(fifo)]
       /\ writeIndex' = Succ(writeIndex)
       /\ UNCHANGED dropped

(* The handler takes the oldest frame out of FIFO 0 ...                    *)
Push ==
  IF Pending(writeIndex, readIndex) >= Depth
  THEN /\ dropped' = Succ(dropped)
       /\ UNCHANGED <<ring, writeIndex>>
  ELSE /\ ring' = [ring EXCEPT ![Slot(writeIndex)] = Head(fifo)]
       /\ writeIndex' = Succ(writeIndex)
       /\ UNCHANGED dropped

Drain ==
  /\ fifo # <<>>
  /\ Push
  /\ fifo' = Tail(fifo)
  /\ UNCHANGED <<readIndex, reader, given>>

(* Mutant: the slot is released before it is copied.                       *)
LookAndRelease ==
  /\ reader.pc = "idle" /\ readIndex # writeIndex
  /\ reader' = [reader EXCEPT !.pc = "copy", !.index = readIndex]
  /\ readIndex' = Succ(readIndex)
  /\ UNCHANGED <<fifo, ring, writeIndex, dropped, given>>

(* BSP_CAN_TryReceive up to its barrier: is a frame there?                 *)
Look ==
  /\ reader.pc = "idle" /\ readIndex # writeIndex
  /\ reader' = [reader EXCEPT !.pc = "copy", !.index = readIndex]
  /\ UNCHANGED <<fifo, ring, writeIndex, readIndex, dropped, given>>

Copy ==
  /\ reader.pc = "copy"
  /\ reader' = [reader EXCEPT !.pc = "publish",
                              !.frame = ring[Slot(reader.index)]]
  /\ UNCHANGED <<fifo, ring, writeIndex, readIndex, dropped, given>>

Publish ==
  /\ reader.pc = "publish"
  /\ readIndex' = Succ(reader.index)
  /\ reader' = [reader EXCEPT !.pc = "idle"]
  /\ given' = reader.frame
  /\ UNCHANGED <<fifo, ring, writeIndex, dropped>>

TryReceive == Look \/ Copy \/ Publish

Next == (\E f \in Frames : Arrive(f)) \/ Drain \/ TryReceive
Spec == Init /\ [][Next]_vars
(* The CAN task empties the ring in every one of its 1 ms passes.          *)
FairSpec == Spec /\ WF_vars(TryReceive)

(* The indices stay at most a queue length apart (bsp_can.c:132), also     *)
(* across their wrap, and every variable has its type.                     *)
TypeOK ==
  /\ fifo \in Seq(Frames) /\ Len(fifo) <= FifoDepth
  /\ ring \in [0..Depth - 1 -> Frames]
  /\ writeIndex \in Indices /\ readIndex \in Indices /\ dropped \in Indices
  /\ Pending(writeIndex, readIndex) <= Depth
  /\ reader \in [pc : {"idle", "copy", "publish"}, index : Indices,
                 frame : Frames \cup {"none"}]
  /\ given \in Frames \cup {"none"}

(* The frames between the two indices, oldest first.                       *)
Queued ==
  [n \in 1..Pending(writeIndex, readIndex) |->
     ring[Slot((readIndex + n - 1) % IndexMod)]]

(* Every queued frame reaches the task, once, in the order of arrival, and *)
(* the ring refuses only the newest, only when it is full, and counts it   *)
(* (bsp_can.c:127 and :232), whatever the handler interrupts.              *)
Fifo == INSTANCE BoundedFifo
          WITH queue <- Queued, out <- given, CountMod <- IndexMod
ImplementsFifo == Fifo!Spec
=============================================================================
