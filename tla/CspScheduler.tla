---------------------------- MODULE CspScheduler ----------------------------
(***************************************************************************)
(* The host's CSP scheduler (csp_scheduler.cpp) as a data type: the state  *)
(* its mutex protects, one operator per method, and the decisions the      *)
(* worker thread takes in one locked cycle.  Every operator is one         *)
(* critical section; HostStream interleaves them.                          *)
(*                                                                         *)
(* Time is a fact handed in or chosen by the caller (is the point fresh,   *)
(* is the status fresh, is the acknowledgement late); targets are counted, *)
(* not stored; statistics and the refill period are left out, and so are   *)
(* the remote's four event counters, which the caller gives as one fact.   *)
(***************************************************************************)
EXTENDS TrajectoryContext

CONSTANTS
  Reserve,       \* kRemoteQueueReserve
  High,          \* remote_high_watermark_
  StartPrefill,  \* kCspStartPrefillPointCount
  LocalCapacity, \* target_queue_capacity_
  CountMod       \* number of accepted_count values (uint16_t: 2^16)

(* The constructor's checks, and a wire counter that cannot lap itself.    *)
ASSUME SchedulerAssumption ==
  /\ Reserve \in Nat /\ High \in Nat \ {0} /\ High <= Capacity - Reserve
  /\ StartPrefill \in Nat \ {0}
  /\ LocalCapacity \in Nat /\ StartPrefill <= LocalCapacity
  /\ CountMod \in Nat /\ CountMod > 2 * Capacity

StreamStates == {"Idle", "StartPending", "ResetAwaitingAck", "Streaming",
                 "Finishing", "Holding", "ResetRequired", "Fault"}

(* The fields of the 0x204 report the scheduler reads; a sequence number   *)
(* whose valid flag is clear is NoSeq.                                     *)
TrajectoryStatus ==
  [state : {"IDLE", "PREFILL", "RUNNING", "HOLD"}, resetRequired : BOOLEAN,
   expected : Seqs \cup {NoSeq}, accepted : Seqs \cup {NoSeq},
   generation : Gens, depth : 0..Capacity, count : 0..CountMod - 1,
   latched : BOOLEAN]

ZeroStatus ==
  [state |-> "IDLE", resetRequired |-> FALSE, expected |-> NoSeq,
   accepted |-> NoSeq, generation |-> 0, depth |-> 0, count |-> 0,
   latched |-> FALSE]

(* ahead is apply_points_sent_ - apply_points_accepted_: an APPLY may be   *)
(* acknowledged before its sender has booked it.                           *)
Scheduler ==
  [state : StreamStates, terminal : StreamStates, enabled : BOOLEAN,
   queue : 0..LocalCapacity, hasTarget : BOOLEAN, lastSent : BOOLEAN,
   tracking : BOOLEAN, ahead : -1..Capacity, lastCount : 0..CountMod - 1,
   generation : Gens, genBefore : Gens, resetSeq : Seqs,
   available : BOOLEAN, status : TrajectoryStatus]

NewScheduler ==
  [state |-> "Idle", terminal |-> "Holding", enabled |-> FALSE, queue |-> 0,
   hasTarget |-> FALSE, lastSent |-> FALSE, tracking |-> FALSE, ahead |-> 0,
   lastCount |-> 0, generation |-> 0, genBefore |-> 0, resetSeq |-> 0,
   available |-> FALSE, status |-> ZeroStatus]

-----------------------------------------------------------------------------
(* submit_target.                                                          *)
AcceptsPoints(s) == s.state \in {"StartPending", "ResetAwaitingAck", "Streaming"}

CanSubmit(s) == AcceptsPoints(s) => s.queue < LocalCapacity

Submit(s) ==
  [s EXCEPT !.hasTarget = TRUE, !.queue = IF AcceptsPoints(s) THEN @ + 1 ELSE @]

(* Mutant: what a report acknowledges is counted again by the next one.    *)
UpdateRemoteStatusTwice(s, r) ==
  LET delta == (r.count - s.lastCount) % CountMod
      news  == /\ s.tracking /\ r.generation = s.generation
               /\ r.accepted # NoSeq /\ 2 * delta < CountMod
  IN  [s EXCEPT !.status = r, !.available = TRUE,
                !.ahead = IF news /\ @ >= 0 THEN @ - delta ELSE @]

(* update_remote_status: remember the report; while a stream is tracked,   *)
(* what it newly accepted is no longer ahead of it.                        *)
UpdateRemoteStatus(s, r) ==
  LET delta == (r.count - s.lastCount) % CountMod
      news  == /\ s.tracking /\ r.generation = s.generation
               /\ r.accepted # NoSeq /\ 2 * delta < CountMod
  IN  [s EXCEPT !.status = r, !.available = TRUE,
                !.ahead = IF news THEN @ - delta ELSE @,
                !.lastCount = IF news THEN r.count ELSE @]

(* What start_trajectory and recover_trajectory share: forget the stream,  *)
(* queue the latest target.                                                *)
Restart(s) ==
  [s EXCEPT !.queue = IF s.hasTarget THEN 1 ELSE 0, !.lastSent = FALSE,
            !.tracking = FALSE, !.ahead = 0, !.state = "StartPending"]

(* start_trajectory and recover_trajectory: when they succeed.             *)
CanStart(s) == s.enabled /\ s.state # "Fault"
CanRecover(s) == s.enabled /\ s.state \in {"ResetRequired", "Fault"}

(* Mutant: the stream ends without its HOLD.                               *)
BeginHoldAtOnce(s, terminal) ==
  [s EXCEPT !.queue = 0, !.terminal = terminal, !.state = terminal]

(* begin_hold_locked.                                                      *)
BeginHold(s, terminal) ==
  [s EXCEPT !.queue = 0, !.terminal = terminal,
            !.state = IF s.lastSent THEN "Finishing" ELSE terminal]

(* finish_trajectory.                                                      *)
Finish(s) ==
  CASE s.state = "StartPending" -> [s EXCEPT !.queue = 0, !.state = "Holding"]
    [] s.state \in {"ResetAwaitingAck", "Streaming"} -> BeginHold(s, "Holding")
    [] OTHER -> s

(* Mutant: an abort turns the fault that a HOLD leads to into less.        *)
AbortDowngrades(s) ==
  CASE s.state = "Fault" -> s
    [] s.state = "Finishing" -> [s EXCEPT !.terminal = "ResetRequired"]
    [] s.state \in {"ResetAwaitingAck", "Streaming"} -> BeginHold(s, "ResetRequired")
    [] OTHER -> [s EXCEPT !.queue = 0, !.state = "ResetRequired"]

(* abort_trajectory.                                                       *)
Abort(s) ==
  CASE s.state = "Fault" -> s
    [] s.state = "Finishing" ->
         [s EXCEPT !.terminal = IF @ = "Fault" THEN @ ELSE "ResetRequired"]
    [] s.state \in {"ResetAwaitingAck", "Streaming"} -> BeginHold(s, "ResetRequired")
    [] OTHER -> [s EXCEPT !.queue = 0, !.state = "ResetRequired"]

(* mark_fault.                                                             *)
MarkFault(s) ==
  IF s.state \in {"ResetAwaitingAck", "Streaming", "Finishing"}
  THEN BeginHold(s, "Fault")
  ELSE [s EXCEPT !.queue = 0, !.state = "Fault"]

-----------------------------------------------------------------------------
(* The worker's conditions, for a status that is fresh.                    *)

(* Mutant: the remote's state is not looked at.                            *)
RemoteAllowsResetAnyState(s) == s.available /\ ~s.status.latched

(* remote_allows_reset, and that there is a status at all.                 *)
RemoteAllowsReset(s) ==
  s.available /\ s.status.state \in {"IDLE", "HOLD"} /\ ~s.status.latched

Active(r) == r.state \in {"PREFILL", "RUNNING"}

(* reset_accepted: the report answers the RESET that was sent, and nothing *)
(* later.                                                                  *)
ResetAccepted(s) ==
  /\ s.available /\ Active(s.status)
  /\ s.status.accepted = s.resetSeq
  /\ s.status.expected = SeqInc(s.resetSeq)
  /\ ~s.status.resetRequired /\ ~s.status.latched
  /\ s.status.generation # s.genBefore

(* reset_safety_fault, safety_fault.                                       *)
SafetyFault(s) == s.available /\ s.status.latched

(* remote_fault, apart from the event counters and the progress timeout.   *)
StreamGone(s) ==
  \/ ~s.available \/ ~Active(s.status)
  \/ s.status.resetRequired \/ s.status.latched
  \/ s.status.generation # s.generation

Unacknowledged(s) == IF s.ahead > 0 THEN s.ahead ELSE 0

(* Mutant: points that are under way are forgotten.                        *)
RoomByDepth(s) == s.status.depth < High

(* occupied_or_in_flight below the high watermark, which the constructor   *)
(* keeps within the credit limit.                                          *)
Room(s) == s.status.depth + Unacknowledged(s) < High

(* The acknowledgement arrived: start counting from this report.           *)
StartStreaming(s) ==
  [s EXCEPT !.state = "Streaming", !.generation = s.status.generation,
            !.lastCount = s.status.count, !.ahead = 0, !.tracking = TRUE]

(* Mutant: only a stream that ended normally comes to rest.                *)
BookHoldAfterFinish(s) ==
  IF s.state = "Finishing" /\ s.terminal = "Holding"
  THEN [s EXCEPT !.state = s.terminal] ELSE s

(* What the worker books, under the lock again, once a frame was sent.     *)
BookHold(s) ==
  IF s.state = "Finishing" THEN [s EXCEPT !.state = s.terminal] ELSE s

BookReset(s, seq) ==
  IF s.state = "StartPending"
  THEN [s EXCEPT !.lastSent = TRUE, !.resetSeq = seq, !.state = "ResetAwaitingAck"]
  ELSE [s EXCEPT !.lastSent = TRUE]

BookApply(s) == [s EXCEPT !.lastSent = TRUE, !.ahead = @ + 1]

=============================================================================
