------------------------------- MODULE UartLog -------------------------------
(***************************************************************************)
(* The serial log of app_uart_log.c: any task queues a message, the log    *)
(* task takes one at a time and has the DMA send it from a buffer on its   *)
(* own stack, and the DMA and UART interrupts of the HAL tell it the end.  *)
(* The interrupts come between any two of the log task's steps.            *)
(*                                                                         *)
(* Abstracted: the text, and which message is which: what matters is       *)
(* whether the DMA still reads the buffer when the task fills it again.    *)
(***************************************************************************)
EXTENDS Naturals

CONSTANTS
  Depth,       \* APP_UART_LOG_QUEUE_DEPTH
  Late,        \* TRUE: a transfer may outlast the 100 ms and still end
  AbortFails   \* bound: times HAL_DMA_Abort times out

(* What the theorems assume of them (BoardProofs).                         *)
LogAssumption == Depth \in Nat /\ AbortFails \in Nat

VARIABLES
  queue,  \* messages in app_uart_log_queue
  pc,     \* where the log task is
  uart,   \* huart8: gState, CR3.DMAT, CR1.TCIE, last byte in the shifter
  dma,    \* the stream: idle, busy, or with an interrupt pending
  sem,    \* app_uart_log_tx_event_semaphore
  event,  \* app_uart_log_tx_event
  fails   \* aborts that may still fail
taskVars == <<pc, queue, fails>>
vars == <<taskVars, uart, dma, sem, event>>

Steps == {"get", "drain", "clear", "start", "wait", "judge",
          "abort", "abortDmat", "abortDma"}

Init ==
  /\ queue = 0 /\ pc = "get" /\ fails = AbortFails
  /\ uart = [ready |-> TRUE, dmat |-> FALSE, tcie |-> FALSE, shifts |-> FALSE]
  /\ dma = "idle" /\ sem = FALSE /\ event = "NONE"

----------------------------------------------------------------------------
(* The peripherals.  A stalled transfer never ends by itself.              *)
DmaTurns(from, to) ==
  /\ dma = from /\ dma' = to
  /\ UNCHANGED <<taskVars, sem, event>>

TransferEnds == DmaTurns("busy", "done") /\ uart' = [uart EXCEPT !.shifts = TRUE]
TransferFails == DmaTurns("busy", "error") /\ UNCHANGED uart
TransferStalls == DmaTurns("busy", "stalled") /\ UNCHANGED uart

(* UART_DMATransmitCplt                                                    *)
DmaComplete ==
  /\ DmaTurns("done", "idle")
  /\ uart' = [uart EXCEPT !.dmat = FALSE, !.tcie = TRUE]

Notify(what) == event' = what /\ sem' = TRUE

(* UART_DMAError, then APP_UART_LOG_TxErrorFromIsr.                        *)
DmaError ==
  /\ dma = "error" /\ dma' = "idle"
  /\ uart' = IF uart.dmat /\ ~uart.ready
             THEN [uart EXCEPT !.ready = TRUE, !.tcie = FALSE] ELSE uart
  /\ Notify("ERROR")
  /\ UNCHANGED taskVars

(* The last byte is out: with TCIE set, UART_EndTransmit_IT and            *)
(* APP_UART_LOG_TxCompleteFromIsr.                                         *)
TransmitComplete ==
  /\ uart.shifts /\ dma # "busy"
  /\ IF uart.tcie
     THEN /\ uart' = [uart EXCEPT !.shifts = FALSE, !.tcie = FALSE,
                                  !.ready = TRUE]
          /\ Notify("COMPLETE")
     ELSE /\ dma # "done"
          /\ uart' = [uart EXCEPT !.shifts = FALSE] /\ UNCHANGED <<sem, event>>
  /\ UNCHANGED <<taskVars, dma>>

Hardware ==
  \/ TransferEnds \/ TransferFails \/ TransferStalls
  \/ DmaComplete \/ DmaError \/ TransmitComplete

----------------------------------------------------------------------------
(* APP_UART_LOG_Write by any task; a full queue refuses.                   *)
Write ==
  /\ queue < Depth /\ queue' = queue + 1
  /\ UNCHANGED <<pc, fails, uart, dma, sem, event>>

Go(from, to) == pc = from /\ pc' = to /\ UNCHANGED fails

(* The message is copied over the buffer of the one before.                *)
Get ==
  /\ queue > 0 /\ queue' = queue - 1
  /\ Go("get", "drain") /\ UNCHANGED <<uart, dma, sem, event>>

Drain ==
  /\ Go("drain", "clear") /\ sem' = FALSE
  /\ UNCHANGED <<queue, uart, dma, event>>

Clear ==
  /\ Go("clear", "start") /\ event' = "NONE"
  /\ UNCHANGED <<queue, uart, dma, sem>>

(* Mutant: a refused message is tried again.                               *)
StartOrRetry ==
  /\ IF uart.ready /\ dma = "idle"
     THEN /\ Go("start", "wait") /\ dma' = "busy"
          /\ uart' = [uart EXCEPT !.ready = FALSE, !.dmat = TRUE]
     ELSE Go("start", "drain") /\ UNCHANGED <<uart, dma>>
  /\ UNCHANGED <<queue, sem, event>>

(* HAL_UART_Transmit_DMA; when it refuses, the message is dropped.         *)
Start ==
  /\ IF uart.ready /\ dma = "idle"
     THEN /\ Go("start", "wait") /\ dma' = "busy"
          /\ uart' = [uart EXCEPT !.ready = FALSE, !.dmat = TRUE]
     ELSE Go("start", "get") /\ UNCHANGED <<uart, dma>>
  /\ UNCHANGED <<queue, sem, event>>

Notified ==
  /\ sem /\ sem' = FALSE
  /\ Go("wait", "judge") /\ UNCHANGED <<queue, uart, dma, event>>

(* 100 ms are three times what the longest message takes.                  *)
TimedOut ==
  /\ ~sem /\ (dma = "stalled" \/ Late)
  /\ Go("wait", "abort") /\ UNCHANGED <<queue, uart, dma, sem, event>>

Judge ==
  /\ Go("judge", IF event = "COMPLETE" THEN "get" ELSE "abort")
  /\ UNCHANGED <<queue, uart, dma, sem, event>>

(* HAL_UART_AbortTransmit, in the order of its register accesses.          *)
Abort ==
  /\ Go("abort", "abortDmat") /\ uart' = [uart EXCEPT !.tcie = FALSE]
  /\ UNCHANGED <<queue, dma, sem, event>>

AbortDmat ==
  /\ IF uart.dmat
     THEN Go("abortDmat", "abortDma") /\ uart' = [uart EXCEPT !.dmat = FALSE]
     ELSE Go("abortDmat", "get") /\ uart' = [uart EXCEPT !.ready = TRUE]
  /\ UNCHANGED <<queue, dma, sem, event>>

(* Mutant: the stream is left alone.                                       *)
AbortDmaKept ==
  /\ pc = "abortDma" /\ pc' = "get"
  /\ uart' = [uart EXCEPT !.ready = TRUE] /\ UNCHANGED <<fails, dma>>
  /\ UNCHANGED <<queue, sem, event>>

AbortDma ==
  /\ pc = "abortDma" /\ pc' = "get"
  /\ \/ /\ dma' = "idle" /\ uart' = [uart EXCEPT !.ready = TRUE]
        /\ UNCHANGED fails
     \/ /\ fails > 0 /\ fails' = fails - 1 /\ dma \in {"busy", "stalled"}
        /\ UNCHANGED <<uart, dma>>
  /\ UNCHANGED <<queue, sem, event>>

Process ==
  \/ Get \/ Drain \/ Clear \/ Start \/ Notified \/ TimedOut \/ Judge
  \/ Abort \/ AbortDmat \/ AbortDma

Next == Hardware \/ Write \/ Process
Spec == Init /\ [][Next]_vars

(* Interrupts are taken, a transfer ends or stalls, and the log task gets  *)
(* the processor between the others' periods.                              *)
FairSpec == Spec /\ WF_vars(Hardware) /\ WF_vars(Process)

----------------------------------------------------------------------------
(* Every variable has its type, and the queue its depth.                   *)
TypeOK ==
  /\ queue \in 0..Depth /\ pc \in Steps /\ fails \in 0..AbortFails
  /\ uart \in [ready : BOOLEAN, dmat : BOOLEAN, tcie : BOOLEAN,
               shifts : BOOLEAN]
  /\ dma \in {"idle", "busy", "done", "error", "stalled"}
  /\ sem \in BOOLEAN /\ event \in {"NONE", "COMPLETE", "ERROR"}

Aborted == fails = AbortFails

(* The buffer is on the log task's stack (app_uart_log.c:98): when the     *)
(* task is back for the next message nothing reads it any more, as long as *)
(* every abort of a stalled transfer worked.                               *)
BufferReleased == Aborted /\ pc \in {"get", "drain"} => dma = "idle"

(* A message taken from the queue is sent: neither an error nor a stalled  *)
(* transfer leaves the UART or its stream in a state that refuses the next *)
(* one (app_uart_log.c:129).                                               *)
StartAccepted == Aborted /\ pc = "start" => uart.ready /\ dma = "idle"

(* The three together: the buffer on the stack is released before it is    *)
(* filled again, and the next transfer is accepted.                        *)
LogSafe == TypeOK /\ BufferReleased /\ StartAccepted

(* Messages in the queue are taken, whatever becomes of those before them. *)
LogFlows == queue = Depth ~> queue < Depth
=============================================================================
