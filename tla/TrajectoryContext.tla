------------------------- MODULE TrajectoryContext -------------------------
(***************************************************************************)
(* The trajectory buffer of the STM32 firmware (robot_trajectory.c) as a   *)
(* data type: the context record and one operator per function of the      *)
(* file.  Every function of the file is one PRIMASK critical section, so   *)
(* each operator is one atomic step of whatever task calls it.             *)
(*                                                                         *)
(* The operators are shared by RobotTrajectory, which lets a producer and  *)
(* a consumer call them in any order, and MotionLoop, which calls them     *)
(* where the CAN task and the EtherCAT task do.                            *)
(*                                                                         *)
(* A definition whose comment starts with "Mutant" is a plausible wrong    *)
(* version of the one after it; nothing uses it, and the README says which *)
(* property tells the two apart.                                           *)
(*                                                                         *)
(* Left out: the diagnostic counters and the last-received/last-rejected   *)
(* fields of the 0x204 report, which no branch of the code reads.          *)
(***************************************************************************)
EXTENDS Integers

CONSTANTS
  Capacity,  \* ROBOT_TRAJECTORY_BUFFER_CAPACITY
  Prefill,   \* ROBOT_TRAJECTORY_PREFILL_COUNT
  Grace,     \* ROBOT_TRAJECTORY_EMPTY_GRACE_CYCLES
  SeqMod,    \* number of sequence values (uint8_t: 256)
  GenMod     \* number of generation values (uint32_t: 2^32)

ASSUME ContextAssumption ==
  /\ Capacity \in Nat /\ Capacity > 1
  /\ Prefill \in 1..Capacity
  /\ Grace \in Nat
  /\ SeqMod \in Nat /\ SeqMod > Capacity
  /\ GenMod \in Nat /\ GenMod > 1

Slots == 0..Capacity - 1
Seqs  == 0..SeqMod - 1
Gens  == 0..GenMod - 1

(* The HOLD reasons the firmware produces (0x204 field).                   *)
HoldReasons ==
  {"EXPLICIT_0X180", "QUICK_STOP", "QUEUE_UNDERRUN", "QUEUE_OVERFLOW",
   "SEQUENCE_ERROR", "POINT_EXPIRED", "CSP_TIMEOUT", "HOST_TIMEOUT",
   "ETHERCAT_NOT_OP", "DRIVE_NOT_CSP", "DRIVE_FAULT", "INTERNAL_ERROR"}

(* A sequence field whose valid flag is 0.                                 *)
NoSeq == -1

NoStaged == [seq |-> NoSeq, gen |-> 0]

(* Unsigned increments: sequence, generation and ring index wrap.          *)
SeqInc(s) == IF s = SeqMod - 1 THEN 0 ELSE s + 1
GenInc(g) == IF g = GenMod - 1 THEN 0 ELSE g + 1
SlotInc(i) == IF i + 1 >= Capacity THEN 0 ELSE i + 1

(* The type of the context when the ring holds elements of Point.          *)
Context(Point) ==
  [state         : {"IDLE", "PREFILL", "RUNNING", "HOLD"},
   resetRequired : BOOLEAN,
   sequenceValid : BOOLEAN,
   expected      : Seqs,
   head          : Slots,
   tail          : Slots,
   count         : 0..Capacity,
   grace         : 0..Grace,
   points        : [Slots -> Point],
   staged        : [seq : Seqs \cup {NoSeq}, gen : Gens],
   reason        : HoldReasons \cup {"NONE"},
   generation    : Gens,
   accepted      : Seqs \cup {NoSeq},
   executed      : Seqs \cup {NoSeq}]

-----------------------------------------------------------------------------
(* ROBOT_TrajectoryInit: memset, then IDLE and reset_required.             *)
InitContext(zero) ==
  [state         |-> "IDLE",
   resetRequired |-> TRUE,
   sequenceValid |-> FALSE,
   expected      |-> 0,
   head          |-> 0,
   tail          |-> 0,
   count         |-> 0,
   grace         |-> 0,
   points        |-> [i \in Slots |-> zero],
   staged        |-> NoStaged,
   reason        |-> "NONE",
   generation    |-> 0,
   accepted      |-> NoSeq,
   executed      |-> NoSeq]

(* Mutant: the queue survives the HOLD.                                    *)
RequireResetKeepsQueue(t, cause) ==
  [t EXCEPT !.state         = "HOLD",
            !.resetRequired = TRUE,
            !.sequenceValid = FALSE,
            !.expected      = 0,
            !.grace         = 0,
            !.staged        = NoStaged,
            !.reason        = IF @ = "NONE" THEN cause ELSE @]

(* Mutant: the last reason wins.                                           *)
RequireResetLastReason(t, cause) ==
  [RequireResetKeepsQueue(t, cause) EXCEPT !.head = 0, !.tail = 0, !.count = 0,
                                           !.reason = cause]

(* ROBOT_TrajectoryRequireResetWithReason, and the same block inlined in   *)
(* Push and Take: drop the queue, invalidate the sequence, keep the first  *)
(* reason.                                                                 *)
RequireReset(t, cause) ==
  [t EXCEPT !.state         = "HOLD",
            !.resetRequired = TRUE,
            !.sequenceValid = FALSE,
            !.expected      = 0,
            !.head          = 0,
            !.tail          = 0,
            !.count         = 0,
            !.grace         = 0,
            !.staged        = NoStaged,
            !.reason        = IF @ = "NONE" THEN cause ELSE @]

(* ROBOT_TrajectoryIsHold.                                                 *)
IsHold(t) == t.state = "HOLD"

(* Mutant: the executed point of the previous stream stays reported.       *)
ResetAndPushKeepsExecuted(t, p) ==
  [t EXCEPT !.state         = "PREFILL",
            !.resetRequired = FALSE,
            !.sequenceValid = TRUE,
            !.expected      = SeqInc(p.seq),
            !.head          = 0,
            !.tail          = 1,
            !.count         = 1,
            !.grace         = 0,
            !.points[0]     = p,
            !.staged        = NoStaged,
            !.reason        = "NONE",
            !.generation    = GenInc(@),
            !.accepted      = p.seq]

(* ROBOT_TrajectoryResetAndPush: unconditionally start a new generation    *)
(* whose queue is the one point p.                                         *)
ResetAndPush(t, p) ==
  [t EXCEPT !.state         = "PREFILL",
            !.resetRequired = FALSE,
            !.sequenceValid = TRUE,
            !.expected      = SeqInc(p.seq),
            !.head          = 0,
            !.tail          = 1,
            !.count         = 1,
            !.grace         = 0,
            !.points[0]     = p,
            !.staged        = NoStaged,
            !.reason        = "NONE",
            !.generation    = GenInc(@),
            !.accepted      = p.seq,
            !.executed      = NoSeq]

-----------------------------------------------------------------------------
(* Mutant: a full queue is not noticed.                                    *)
PushResultUnbounded(t, p) ==
  IF t.resetRequired \/ ~t.sequenceValid \/ t.state \notin {"PREFILL", "RUNNING"}
  THEN "RESET_REQUIRED"
  ELSE IF p.seq # t.expected THEN "SEQUENCE_ERROR"
  ELSE "OK"

(* Mutant: only a repeated sequence number is refused, a gap is not.       *)
PushResultForward(t, p) ==
  IF t.resetRequired \/ ~t.sequenceValid \/ t.state \notin {"PREFILL", "RUNNING"}
  THEN "RESET_REQUIRED"
  ELSE IF SeqInc(p.seq) = t.expected THEN "SEQUENCE_ERROR"
  ELSE IF t.count >= Capacity THEN "FULL"
  ELSE "OK"

(* ROBOT_TrajectoryPush: what the call returns ...                         *)
PushResult(t, p) ==
  IF t.resetRequired \/ ~t.sequenceValid \/ t.state \notin {"PREFILL", "RUNNING"}
  THEN "RESET_REQUIRED"
  ELSE IF p.seq # t.expected THEN "SEQUENCE_ERROR"
  ELSE IF t.count >= Capacity THEN "FULL"
  ELSE "OK"

(* ... the enqueue of a successful call ...                                *)
Enqueue(t, p) ==
  [t EXCEPT !.points[t.tail] = p,
            !.tail     = SlotInc(@),
            !.count    = @ + 1,
            !.grace    = IF t.state = "RUNNING" /\ t.count = 0 THEN 0 ELSE @,
            !.expected = SeqInc(p.seq),
            !.accepted = p.seq]

(* ... and the context it leaves.                                          *)
Push(t, p) ==
  CASE PushResult(t, p) = "RESET_REQUIRED" -> t
    [] PushResult(t, p) = "SEQUENCE_ERROR" -> RequireReset(t, "SEQUENCE_ERROR")
    [] PushResult(t, p) = "FULL"           -> RequireReset(t, "QUEUE_OVERFLOW")
    [] PushResult(t, p) = "OK"             -> Enqueue(t, p)

-----------------------------------------------------------------------------
(* Mutant: playback starts with the first point.                           *)
StartedAtOnce(t) ==
  IF t.state = "PREFILL" THEN [t EXCEPT !.state = "RUNNING", !.grace = 0] ELSE t

(* ROBOT_TrajectoryTake: playback starts once enough points are queued.    *)
Started(t) ==
  IF t.state = "PREFILL" /\ t.count >= Prefill
  THEN [t EXCEPT !.state = "RUNNING", !.grace = 0]
  ELSE t

(* What the call returns, when the head point's age has (expired) or has   *)
(* not reached its validity.                                               *)
TakeResult(t, expired) ==
  IF t.resetRequired \/ t.state = "HOLD" THEN "HOLD"
  ELSE IF Started(t).state # "RUNNING" THEN "WAIT"
  ELSE IF t.count = 0
       THEN IF Started(t).grace < Grace THEN "GRACE" ELSE "UNDERRUN"
  ELSE IF expired THEN "EXPIRED"
  ELSE "POINT"

(* The point a successful call hands out, and the context without it.      *)
HeadPoint(t) == t.points[t.head]

Dequeue(t) ==
  [t EXCEPT !.head = SlotInc(@), !.count = @ - 1, !.grace = 0]

(* The context the call leaves.  UNDERRUN and EXPIRED are the two ways in  *)
(* which the call itself enters HOLD; the caller sees both as HOLD.        *)
Take(t, expired) ==
  CASE TakeResult(t, expired) = "HOLD"     -> t
    [] TakeResult(t, expired) = "WAIT"     -> t
    [] TakeResult(t, expired) = "GRACE"    -> [Started(t) EXCEPT !.grace = @ + 1]
    [] TakeResult(t, expired) = "UNDERRUN" -> RequireReset(Started(t), "QUEUE_UNDERRUN")
    [] TakeResult(t, expired) = "EXPIRED"  -> RequireReset(Started(t), "POINT_EXPIRED")
    [] TakeResult(t, expired) = "POINT"    -> Dequeue(Started(t))

-----------------------------------------------------------------------------
(* The staged or taken point still belongs to the stream being played.     *)
IsCurrent(t, g) == g = t.generation /\ ~t.resetRequired /\ t.state = "RUNNING"

(* Mutant: a point of a stream that ended meanwhile can be staged.         *)
CanStageAnyStream(t, g) == t.staged.seq = NoSeq

(* ROBOT_TrajectoryStageExecution: whether it succeeds, and its effect.    *)
CanStage(t, g) == t.staged.seq = NoSeq /\ IsCurrent(t, g)

(* Mutant: a point counts as executed when it is staged.                   *)
StageReports(t, s, g) ==
  IF CanStage(t, g)
  THEN [t EXCEPT !.staged = [seq |-> s, gen |-> g], !.executed = s] ELSE t

Stage(t, s, g) ==
  IF CanStage(t, g) THEN [t EXCEPT !.staged = [seq |-> s, gen |-> g]] ELSE t

(* Mutant: the staged point is not forgotten once it is confirmed.         *)
ConfirmExecutionKeepsStaged(t) ==
  [t EXCEPT !.executed = IF t.staged.seq # NoSeq /\ IsCurrent(t, t.staged.gen)
                         THEN t.staged.seq ELSE @]

(* ROBOT_TrajectoryConfirmExecution: report the staged point as executed   *)
(* if its stream still plays; forget it in every case.                     *)
ConfirmExecution(t) ==
  [t EXCEPT !.executed = IF t.staged.seq # NoSeq /\ IsCurrent(t, t.staged.gen)
                         THEN t.staged.seq ELSE @,
            !.staged   = NoStaged]

-----------------------------------------------------------------------------
(* The i-th queued point, oldest first, and the queue as a sequence.       *)
SlotAt(t, i) ==
  IF t.head + i - 1 >= Capacity THEN t.head + i - 1 - Capacity ELSE t.head + i - 1

Queued(t) == [i \in 1..t.count |-> t.points[SlotAt(t, i)]]

(* The sequence number the next Take of t hands out, now or once pushed.   *)
NextToPlay(t) == IF t.count > 0 THEN HeadPoint(t).seq ELSE t.expected

(* Part of the invariant of every module that keeps a context: a sequence  *)
(* is valid, and no HOLD reason is latched, exactly while points may be    *)
(* pushed; without a stream the queue is empty and nothing is staged; the  *)
(* empty-queue grace only counts while playing an empty queue; head, tail  *)
(* and count delimit the same stretch of the ring.                         *)
ContextFlagsAgree(t) ==
  /\ t.resetRequired <=> t.state \in {"IDLE", "HOLD"}
  /\ t.sequenceValid <=> ~t.resetRequired
  /\ t.resetRequired => t.count = 0
  /\ ~t.resetRequired => t.reason = "NONE"
  /\ t.state = "HOLD" => t.reason # "NONE"
  /\ t.state = "PREFILL" => t.count > 0 /\ t.executed = NoSeq
  /\ t.grace > 0 => t.state = "RUNNING" /\ t.count = 0
  /\ t.staged.seq # NoSeq => IsCurrent(t, t.staged.gen)
  /\ t.tail = SlotAt(t, t.count + 1)

(* The queue holds consecutive sequence numbers that end right before the  *)
(* expected one, across the wrap of the ring and of the sequence number.   *)
ContextQueueConsecutive(t) ==
  ~t.resetRequired =>
    /\ \A i \in 1..t.count :
         SeqInc(t.points[SlotAt(t, i)].seq) =
           IF i = t.count THEN t.expected ELSE t.points[SlotAt(t, i + 1)].seq
    /\ t.expected = SeqInc(t.accepted)

=============================================================================
