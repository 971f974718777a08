-------------------------- MODULE RobotTrajectory --------------------------
(***************************************************************************)
(* robot_trajectory.c between its two users: the CAN receive task, which   *)
(* produces points, and the EtherCAT task, which takes one point per       *)
(* process-data cycle, stages it for the next frame and confirms it once   *)
(* that frame has been exchanged.  The functions of the file are atomic    *)
(* (PRIMASK); between two calls of the consumer the producer may do        *)
(* anything the file's interface allows.                                   *)
(***************************************************************************)
EXTENDS TrajectoryContext, Sequences

CONSTANTS
  Targets,     \* joint target vectors
  Validities,  \* values of validity_ms the host uses (never 0: app_can.c)
  TickMod,     \* values of the millisecond tick (uint32_t: 2^32)
  MaxAge,      \* bound: no queued point grows older than this many ticks
  ZeroTarget   \* the target vector of a zeroed slot

ASSUME TickAssumption ==
  /\ TickMod \in Nat /\ MaxAge \in Nat /\ MaxAge < TickMod
  /\ Validities \subseteq Nat \ {0}
  /\ ZeroTarget \in Targets

Ticks == 0..TickMod - 1

(* ROBOT_TrajectoryPoint.                                                  *)
Point == [seq : Seqs, target : Targets, validity : Validities \cup {0},
          received : Ticks]

ZeroPoint == [seq |-> 0, target |-> ZeroTarget, validity |-> 0, received |-> 0]

VARIABLES
  traj,      \* robot_trajectory_context
  now,       \* HAL_GetTick()
  consumer,  \* the EtherCAT task's place in its cycle
  taken      \* its local copies: the point it took and that point's generation

vars == <<traj, now, consumer, taken>>

(* Unsigned tick difference.                                               *)
Elapsed(t1, t0) == (t1 - t0) % TickMod

(* Mutant: a signed comparison, wrong once the tick has wrapped.           *)
ExpiredSigned(p) == now - p.received >= p.validity

Expired(p) == Elapsed(now, p.received) >= p.validity

Init ==
  /\ traj = InitContext(ZeroPoint)
  /\ now = 0
  /\ consumer = "confirm"
  /\ taken = [point |-> ZeroPoint, gen |-> 0]

-----------------------------------------------------------------------------
(* The producer: one 0x180 frame, or a 0x181 quick stop.                   *)

ProducerHold(cause) ==
  /\ traj' = RequireReset(traj, cause)
  /\ UNCHANGED <<now, consumer, taken>>

ProducerReset(p) ==
  /\ traj' = ResetAndPush(traj, p)
  /\ UNCHANGED <<now, consumer, taken>>

ProducerPush(p) ==
  /\ traj' = Push(traj, p)
  /\ UNCHANGED <<now, consumer, taken>>

(* app_can.c stamps the point when it parses the frame.                    *)
NewPoints == [seq : Seqs, target : Targets, validity : Validities,
              received : {now}]

Producer ==
  \/ \E cause \in {"EXPLICIT_0X180", "QUICK_STOP"} : ProducerHold(cause)
  \/ \E p \in NewPoints : ProducerReset(p) \/ ProducerPush(p)

-----------------------------------------------------------------------------
(* The consumer: one EtherCAT cycle is Confirm, then either a hold or a    *)
(* Take, then, if a point was taken, Stage.                                *)

(* A successful exchange confirms what the previous cycle staged.          *)
ConsumerConfirm ==
  /\ consumer = "confirm"
  /\ traj' = ConfirmExecution(traj)
  /\ consumer' = "take"
  /\ UNCHANGED <<now, taken>>

(* The exchange failed too often, or the cycle found a reason to hold.     *)
ConsumerHold(cause) ==
  /\ consumer \in {"confirm", "take"}
  /\ traj' = RequireReset(traj, cause)
  /\ consumer' = "confirm"
  /\ UNCHANGED <<now, taken>>

ConsumerTake ==
  /\ consumer = "take"
  /\ LET expired == Expired(HeadPoint(traj))
         got     == TakeResult(traj, expired) = "POINT"
     IN  /\ traj' = Take(traj, expired)
         /\ consumer' = IF got THEN "stage" ELSE "confirm"
         /\ taken' = IF got
                     THEN [point |-> HeadPoint(traj), gen |-> traj.generation]
                     ELSE taken
  /\ UNCHANGED now

(* Staging fails only if the stream changed since the Take; the caller     *)
(* then holds and gives up EtherCAT operation.                             *)
ConsumerStage ==
  /\ consumer = "stage"
  /\ traj' = Stage(traj, taken.point.seq, taken.gen)
  /\ consumer' = IF CanStage(traj, taken.gen) THEN "confirm" ELSE "failed"
  /\ UNCHANGED <<now, taken>>

ConsumerGiveUp ==
  /\ consumer = "failed"
  /\ traj' = RequireReset(traj, "INTERNAL_ERROR")
  /\ consumer' = "lost"
  /\ UNCHANGED <<now, taken>>

Consumer ==
  \/ ConsumerConfirm
  \/ \E cause \in {"CSP_TIMEOUT", "ETHERCAT_NOT_OP"} : ConsumerHold(cause)
  \/ ConsumerTake
  \/ ConsumerStage
  \/ ConsumerGiveUp

(* Time passes.                                                            *)
Tick ==
  /\ \A i \in 1..traj.count :
       Elapsed(now, traj.points[SlotAt(traj, i)].received) < MaxAge
  /\ now' = (now + 1) % TickMod
  /\ UNCHANGED <<traj, consumer, taken>>

Next == Producer \/ Consumer \/ Tick

Spec == Init /\ [][Next]_vars

-----------------------------------------------------------------------------
(* The variables have their types.                                         *)
TypeOK ==
  /\ traj \in Context(Point)
  /\ now \in Ticks
  /\ consumer \in {"confirm", "take", "stage", "failed", "lost"}
  /\ taken \in [point : Point, gen : Gens]

(* The flags, the queue depth and the ring indices of the context never    *)
(* contradict each other, whatever order the two tasks' calls come in.     *)
FlagsAgree == ContextFlagsAgree(traj)

(* The consumer holds a point of the stream being played, not yet staged.  *)
InHand == consumer = "stage" /\ IsCurrent(traj, taken.gen)

(* The queue holds the accepted points in order: consecutive sequence      *)
(* numbers, ending at the last accepted one, across every wrap.            *)
QueueConsecutive == ContextQueueConsecutive(traj)

(* The buffer is well formed: what the three comments above say, together. *)
BufferSafe == TypeOK /\ FlagsAgree /\ QueueConsecutive

(* Executed, staged, in hand and queued points of a stream follow each     *)
(* other without a gap or a repetition: no point is skipped, and none is   *)
(* sent to the drives or reported twice.                                   *)
PlaybackConsecutive ==
  ~traj.resetRequired =>
    /\ InHand => SeqInc(taken.point.seq) = NextToPlay(traj)
    /\ traj.staged.seq # NoSeq => SeqInc(traj.staged.seq) = NextToPlay(traj)
    /\ traj.executed # NoSeq =>
         SeqInc(traj.executed) =
           IF traj.staged.seq # NoSeq THEN traj.staged.seq
           ELSE IF InHand THEN taken.point.seq
           ELSE NextToPlay(traj)
    /\ traj.staged.seq # NoSeq => ~InHand

(* Within one generation the executed sequence number reported to the host *)
(* moves forward one point at a time and is never taken back.              *)
ExecutedStepsByOne ==
  [][ traj'.generation = traj.generation /\ traj.executed # NoSeq =>
        \/ traj'.executed = traj.executed
        \/ traj'.executed = SeqInc(traj.executed) ]_vars

(* Only a RESET point of the host leaves HOLD, and until then nothing is   *)
(* handed out, staged or reported executed, whatever the host still sends. *)
HoldUntilReset ==
  [][ traj.state = "HOLD" =>
        \/ traj'.generation # traj.generation /\ traj'.state = "PREFILL"
        \/ /\ traj'.state = "HOLD"
           /\ traj'.executed = traj.executed
           /\ traj'.staged.seq = NoSeq
           /\ taken' = taken ]_vars

(* The reason reported to the host is the first one since the stream ended *)
(* and only a new stream erases it.                                        *)
FirstReasonKept ==
  [][ traj.reason # "NONE" /\ traj'.generation = traj.generation
        => traj'.reason = traj.reason ]_vars

(* A point is handed to the drives only before its validity has run out:   *)
(* fewer than validity ticks lead from its reception to now, also when the *)
(* tick counter wrapped in between.                                        *)
OnlyFreshPoints ==
  [][ consumer' = "stage" /\ consumer # "stage" =>
        \E age \in 0..taken'.point.validity - 1 :
          (taken'.point.received + age) % TickMod = now ]_vars

(* The buffer implements the abstract stream.                              *)
Stream == INSTANCE TrajectoryStream WITH
  Item    <- Point,
  Cause   <- HoldReasons,
  open    <- ~traj.resetRequired,
  playing <- traj.state = "RUNNING",
  pending <- Queued(traj),
  cause   <- traj.reason,
  out     <- taken.point

ImplementsStream == Stream!StreamSpec

=============================================================================
