-------------------------- MODULE MotionLoopProofs --------------------------
(***************************************************************************)
(* MotionLoop keeps its safety invariants and its dead man's switch for    *)
(* every buffer size, timeout, period and counter width.                   *)
(*                                                                         *)
(* The inductive invariant has four parts: the points on their way from    *)
(* the queue to the drives form one chain; the CAN task's locals say of    *)
(* the shared words what they did when they were read; the frames lost in  *)
(* a row bound the ticks since the CAN task woke; and the ages of what was *)
(* received are bounded as long as no timeout was noticed.                 *)
(***************************************************************************)
EXTENDS MotionLoop, TrajectoryContextProofs

(* The point staged precedes the queue, the executed one precedes both.    *)
Chain(t) ==
  ~t.resetRequired =>
    /\ t.staged.seq # NoSeq => SeqInc(t.staged.seq) = NextToPlay(t)
    /\ t.executed # NoSeq =>
         SeqInc(t.executed) =
           IF t.staged.seq # NoSeq THEN t.staged.seq ELSE NextToPlay(t)

Follows(s, e) == s \in {e, SeqInc(e)}

(* The staged point is the one in the image; the image and the drives are  *)
(* at the executed point or the one behind it.                             *)
DriveInv ==
  /\ drive # "notStaged"
  /\ drive # "lost" => bad < FaultLimit
  /\ traj.staged.seq # NoSeq => image.seq = traj.staged.seq
  /\ traj.executed # NoSeq =>
       /\ Follows(sent, traj.executed)
       /\ image.seq # NoSeq => Follows(image.seq, traj.executed)

(* The CAN task's locals, by the step it is at.                            *)
LocalsInv ==
  /\ can.pc # "publish" => can.stamp = 0
  /\ canLag < MaxLag => can.stamp <= canLag
  /\ can.cmd # "never" => can.pc \in {"isHold", "command"}
  /\ can.hb # "never" =>
       can.pc \in {"isHold", "command", "latchCommand", "heartbeat"}
  /\ can.hold => can.pc = "command" /\ IsHold(traj)
  /\ can.pc = "quickStop" => IsHold(traj)
  /\ can.pc = "latchCommand" => flags.timedOut
  /\ can.pc = "latchHeartbeat" => ~flags.online
  /\ flags.cmdReported \/ flags.hbReported => latch

(* The ticks that so many lost frames in a row take at most.               *)
Lost(n) == n * PollTicks

(* How long ago the CAN task woke, by the frames lost since a cycle ended  *)
(* well.  Between such a cycle and the next one it has run.                *)
LagInv ==
  /\ drive = "test" => bad < RollbackLimit
  /\ polling => ~Gone /\ 0 < canLag /\ canLag <= 1 + Lost(bad) + ecatLag
  /\ Due => 0 < canLag
  /\ ~polling /\ ~Gone /\ bad > 0 => canLag <= 1 + Lost(bad - 1) + ecatLag
  /\ ~polling /\ ~Gone /\ bad = 0 /\ ecatLag > AnswerTicks + 1 => canLag <= 1
  /\ ~polling /\ drive = "test" /\ bad = 0
       => canLag <= 1 + Lost(RollbackLimit - 1) + ecatLag

(* After a cycle that ended well the CAN task is sure to wake before the   *)
(* next one; elsewhere in TEST what it saw last is of use to a cycle.      *)
Calm    == ~polling /\ bad = 0 /\ ecatLag <= AnswerTicks + 1
Watched == drive = "test" /\ ~(Calm /\ canLag > 0)

(* An age that was below its timeout at the check of this pass (done), or  *)
(* at the check of the pass before it.                                     *)
Fresh(age, timeout, done) ==
  canLag < MaxLag /\ (done \/ Watched) =>
    age \in 0..(IF done THEN timeout - 1 ELSE timeout + Starved) + canLag

HbDone  == can.pc = "sleep"
CmdDone == can.pc \in {"heartbeat", "latchHeartbeat", "sleep"}

(* The stream was just opened and its command is not published yet.        *)
Opening ==
  can.pc = "publish" /\ (Prefill > 1 => traj.state = "PREFILL" /\ traj.count = 1)

HeartbeatInv ==
  /\ can.hb = "fresh" => Fresh(hbAge, HbTimeout, TRUE)
  /\ can.pc \in {"isHold", "command", "latchCommand", "heartbeat"} /\ can.hb = "never"
       => hbAge = Never
  /\ flags.online => Fresh(hbAge, HbTimeout, HbDone)
  /\ ~latch => hbAge = Never \/ Fresh(hbAge, HbTimeout, HbDone)

CommandInv ==
  /\ can.cmd = "fresh" => Fresh(cmdAge, CmdTimeout, TRUE)
  /\ can.pc \in {"isHold", "command"} /\ can.cmd = "never" => cmdAge = Never
  /\ ~flags.timedOut /\ ~IsHold(traj) =>
       Opening \/ Fresh(cmdAge, CmdTimeout, CmdDone)
  /\ ~latch /\ ~IsHold(traj) /\ can.pc # "publish" =>
       cmdAge = Never \/ Fresh(cmdAge, CmdTimeout, CmdDone)

BufferInv == ContextInv(Point, traj) /\ Chain(traj)

IInv ==
  /\ TypeOK /\ BufferInv /\ DriveInv
  /\ LocalsInv /\ LagInv /\ HeartbeatInv /\ CommandInv

-----------------------------------------------------------------------------
(* What the calls of the two tasks do to a context with a chain.           *)
LEMMA PointHasSeq == HasSeq(Point) /\ \A s \in Seqs : [seq |-> s] \in Point
BY DEF HasSeq, Point

LEMMA HoldEffect ==
  ASSUME NEW t, ContextInv(Point, t), NEW c \in HoldReasons
  PROVE  LET u == RequireReset(t, c) IN
         /\ ContextInv(Point, u) /\ Chain(u) /\ IsHold(u)
         /\ u.staged.seq = NoSeq /\ u.executed = t.executed
<1>1. ContextInv(Point, RequireReset(t, c))
  BY RequireResetInv
<1>2. /\ RequireReset(t, c).state = "HOLD" /\ RequireReset(t, c).resetRequired
      /\ RequireReset(t, c).staged = NoStaged
      /\ RequireReset(t, c).executed = t.executed
  BY DEF RequireReset, ContextInv, Context
<1> QED BY <1>1, <1>2 DEF Chain, IsHold, NoStaged

LEMMA ResetEffect ==
  ASSUME NEW t, ContextInv(Point, t), NEW p \in Point
  PROVE  LET u == ResetAndPush(t, p) IN
         /\ ContextInv(Point, u) /\ Chain(u)
         /\ u.state = "PREFILL" /\ u.count = 1
         /\ u.staged.seq = NoSeq /\ u.executed = NoSeq
<1>1. ContextInv(Point, ResetAndPush(t, p))
  BY ResetAndPushInv, PointHasSeq
<1>2. /\ ResetAndPush(t, p).state = "PREFILL" /\ ResetAndPush(t, p).count = 1
      /\ ResetAndPush(t, p).staged = NoStaged
      /\ ResetAndPush(t, p).executed = NoSeq
  BY DEF ResetAndPush, ContextInv, Context
<1> QED BY <1>1, <1>2 DEF Chain, NoStaged

LEMMA PushEffect ==
  ASSUME NEW t, ContextInv(Point, t), Chain(t), NEW p \in Point
  PROVE  LET u == Push(t, p) IN
         /\ ContextInv(Point, u) /\ Chain(u)
         /\ u.staged = t.staged \/ u.staged.seq = NoSeq
         /\ u.executed = t.executed
         /\ IsHold(t) => IsHold(u)
         /\ PushResult(t, p) # "OK" => u = t \/ IsHold(u)
<1>1. PushResult(t, p) \in {"RESET_REQUIRED", "SEQUENCE_ERROR", "FULL", "OK"}
  BY DEF PushResult
<1>2. CASE PushResult(t, p) = "RESET_REQUIRED"
  BY <1>2 DEF Push
<1>3. CASE PushResult(t, p) \in {"SEQUENCE_ERROR", "FULL"}
  <2>1. PICK c \in HoldReasons : Push(t, p) = RequireReset(t, c)
    BY <1>3 DEF Push, HoldReasons
  <2> QED BY <2>1, HoldEffect
<1>4. CASE PushResult(t, p) = "OK"
  <2> DEFINE u == Enqueue(t, p)
  <2>1. Push(t, p) = u
    BY <1>4 DEF Push
  <2>2. /\ NextToPlay(u) = NextToPlay(t) /\ u.state = t.state
        /\ u.resetRequired = t.resetRequired
        /\ u.staged = t.staged /\ u.executed = t.executed
    BY <1>4, PointHasSeq, EnqueueKeepsNext
  <2>3. ContextInv(Point, u)
    BY <1>4, PointHasSeq, EnqueueInv
  <2> HIDE DEF u
  <2> QED BY <1>4, <2>1, <2>2, <2>3 DEF Chain, IsHold
<1> QED BY <1>1, <1>2, <1>3, <1>4

LEMMA ConfirmEffect ==
  ASSUME NEW t, ContextInv(Point, t), Chain(t)
  PROVE  LET u == ConfirmExecution(t) IN
         /\ ContextInv(Point, u) /\ Chain(u)
         /\ u.staged.seq = NoSeq
         /\ u.executed = IF t.staged.seq # NoSeq THEN t.staged.seq ELSE t.executed
         /\ u.state = t.state /\ u.count = t.count
<1> DEFINE u == ConfirmExecution(t)
<1>1. ContextInv(Point, u)
  BY ConfirmInv
<1>2. t.staged.seq # NoSeq => IsCurrent(t, t.staged.gen)
  BY DEF ContextInv, ContextFlagsAgree
<1>3. /\ u.staged = NoStaged
      /\ u.executed = IF t.staged.seq # NoSeq THEN t.staged.seq ELSE t.executed
      /\ u.state = t.state /\ u.count = t.count
      /\ u.resetRequired = t.resetRequired
      /\ NextToPlay(u) = NextToPlay(t)
  BY <1>2 DEF ConfirmExecution, ContextInv, Context, NextToPlay, HeadPoint
<1> HIDE DEF u
<1>4. Chain(u)
  BY <1>3 DEF Chain, NoStaged
<1> QED BY <1>1, <1>3, <1>4 DEF u, NoStaged

(* A Take that hands out no point; a stream of one point still waits.      *)
LEMMA TakeEffect ==
  ASSUME NEW t, ContextInv(Point, t), Chain(t), NEW expired \in BOOLEAN,
         t.staged.seq = NoSeq, TakeResult(t, expired) # "POINT"
  PROVE  LET u == Take(t, expired) IN
         /\ ContextInv(Point, u) /\ Chain(u)
         /\ u.staged.seq = NoSeq /\ u.executed = t.executed
         /\ IsHold(t) => IsHold(u)
         /\ Prefill > 1 /\ t.state = "PREFILL" /\ t.count = 1 => u = t
<1> DEFINE s == Started(t)
           r == TakeResult(t, expired)
           u == Take(t, expired)
<1>0. r \in {"HOLD", "WAIT", "GRACE", "UNDERRUN", "EXPIRED"}
  BY TakeResults
<1>1. ContextInv(Point, u) /\ ContextInv(Point, s)
  BY TakeInv, StartedInv
<1>2. Prefill > 1 /\ t.state = "PREFILL" /\ t.count = 1 => r \in {"HOLD", "WAIT"}
  BY ContextAssumption DEF TakeResult, Started
<1>3. CASE r \in {"HOLD", "WAIT"}
  BY <1>1, <1>3 DEF Take
<1>4. r \notin {"HOLD", "WAIT"} => ~IsHold(t)
  BY DEF TakeResult, IsHold
<1>5. /\ s.resetRequired = t.resetRequired /\ s.executed = t.executed
      /\ s.staged = t.staged /\ NextToPlay(s) = NextToPlay(t)
  BY DEF ContextInv, Context, Started, NextToPlay, HeadPoint
<1>6. CASE r = "GRACE"
  <2>1. u = [s EXCEPT !.grace = @ + 1]
    BY <1>6 DEF Take
  <2> HIDE DEF s, u
  <2>2. /\ u.resetRequired = s.resetRequired /\ u.executed = s.executed
        /\ u.staged = s.staged /\ NextToPlay(u) = NextToPlay(s)
    BY <1>1, <2>1 DEF ContextInv, Context, NextToPlay, HeadPoint
  <2>3. Chain(u)
    BY <1>5, <2>2 DEF Chain
  <2> QED BY <1>1, <1>2, <1>4, <1>5, <1>6, <2>2, <2>3 DEF u
<1>7. CASE r \in {"UNDERRUN", "EXPIRED"}
  <2>1. PICK c \in HoldReasons : u = RequireReset(s, c)
    BY <1>7 DEF Take, HoldReasons
  <2> QED BY <1>1, <1>2, <1>5, <1>7, <2>1, HoldEffect
<1> QED BY <1>0, <1>3, <1>6, <1>7

(* A Take that hands out a point, followed by its Stage.                   *)
LEMMA StageEffect ==
  ASSUME NEW t, ContextInv(Point, t), Chain(t),
         t.staged.seq = NoSeq, TakeResult(t, FALSE) = "POINT"
  PROVE  LET n == Take(t, FALSE)
             q == HeadPoint(t).seq
             u == Stage(n, q, t.generation)
         IN  /\ CanStage(n, t.generation)
             /\ ContextInv(Point, u) /\ Chain(u)
             /\ u.staged.seq = q /\ q \in Seqs /\ u.executed = t.executed
             /\ t.executed # NoSeq => q = SeqInc(t.executed)
             /\ ~IsHold(t) /\ ~(t.state = "PREFILL" /\ t.count = 1 /\ Prefill > 1)
<1> DEFINE s == Started(t)
           n == Take(t, FALSE)
           q == HeadPoint(t).seq
           u == Stage(n, q, t.generation)
<1>1. /\ ContextInv(Point, s) /\ s.state = "RUNNING" /\ s.count > 0
      /\ s.head = t.head /\ s.points = t.points
  BY StartedInv, TakeResults
<1>2. n = Dequeue(s) /\ ContextInv(Point, n)
  BY TakeInv DEF Take
<1>3. /\ s.resetRequired = t.resetRequired /\ s.executed = t.executed
      /\ s.staged = t.staged /\ s.generation = t.generation
      /\ NextToPlay(s) = NextToPlay(t) /\ HeadPoint(s) = HeadPoint(t)
  BY DEF ContextInv, Context, Started, NextToPlay, HeadPoint
<1>4. ~s.resetRequired
  BY <1>1 DEF ContextInv, ContextFlagsAgree
<1>5. /\ HeadPoint(s) \in Point /\ q = NextToPlay(t)
      /\ SeqInc(q) = NextToPlay(n)
      /\ n.state = "RUNNING" /\ ~n.resetRequired
      /\ n.generation = t.generation /\ n.staged.seq = NoSeq
      /\ n.executed = t.executed
  <2> HIDE DEF s, n
  <2> QED BY <1>1, <1>2, <1>3, <1>4, DequeueAdvancesNext
<1>6. CanStage(n, t.generation)
  BY <1>5 DEF CanStage, IsCurrent
<1>7. q \in Seqs /\ q # NoSeq /\ t.generation \in Gens
  BY ContextAssumption, <1>3, <1>5 DEF Point, ContextInv, Context, Seqs, NoSeq
<1>8. ContextInv(Point, u)
  BY <1>2, <1>7, StageInv
<1>9. /\ u.staged.seq = q /\ u.executed = t.executed
      /\ u.resetRequired = n.resetRequired /\ NextToPlay(u) = NextToPlay(n)
  <2>1. u = [n EXCEPT !.staged = [seq |-> q, gen |-> t.generation]]
    BY <1>6 DEF Stage
  <2> HIDE DEF n, u
  <2> QED BY <1>2, <1>5, <2>1 DEF ContextInv, Context, NextToPlay, HeadPoint
<1>10. t.executed # NoSeq => q = SeqInc(t.executed)
  BY <1>3, <1>4, <1>5 DEF Chain
<1>11. ~IsHold(t) /\ ~(t.state = "PREFILL" /\ t.count = 1 /\ Prefill > 1)
  BY ContextAssumption DEF TakeResult, Started, IsHold
<1>12. Chain(u)
  <2> HIDE DEF n, u, q
  <2> QED BY <1>5, <1>7, <1>9, <1>10 DEF Chain
<1> QED BY <1>6, <1>7, <1>8, <1>9, <1>10, <1>11, <1>12

-----------------------------------------------------------------------------
(* The constants of the schedule.                                          *)
LEMMA LostFacts ==
  /\ Lost(0) = 0
  /\ \A n \in Nat : Lost(n) \in Nat /\ Lost(n + 1) = Lost(n) + PollTicks
  /\ \A m, n \in Nat : m <= n => Lost(m) <= Lost(n)
<1>1. PollTicks \in Nat
  BY LoopAssumption
<1>2. ASSUME NEW m \in Nat, NEW n \in Nat, m <= n PROVE Lost(m) <= Lost(n)
  <2>1. n - m \in Nat /\ (n - m) * PollTicks \in Nat
    BY <1>1, <1>2
  <2>2. Lost(n) = Lost(m) + (n - m) * PollTicks
    BY <1>1, <1>2 DEF Lost
  <2>3. Lost(m) \in Nat
    BY <1>1 DEF Lost
  <2> QED BY <2>1, <2>2, <2>3
<1> QED BY <1>1, <1>2 DEF Lost

LEMMA Schedule ==
  /\ EcatPeriod \in Nat /\ PollTicks \in Nat /\ AnswerTicks \in Nat
  /\ AnswerTicks + 1 < EcatPeriod /\ EcatPeriod <= PollTicks
  /\ RollbackLimit \in Nat \ {0} /\ RollbackLimit - 1 \in Nat
  /\ FaultLimit \in Nat /\ RollbackLimit < FaultLimit
  /\ Lost(RollbackLimit - 1) \in Nat
  /\ Starved \in Nat /\ Starved = 1 + Lost(RollbackLimit - 1) + AnswerTicks
  /\ Late = 2 * Starved + 1 /\ MaxLag = Starved + 2
<1>1. RollbackLimit \in Nat \ {0} /\ RollbackLimit - 1 \in Nat /\ AnswerTicks \in Nat
  BY LoopAssumption
<1>2. Lost(RollbackLimit - 1) \in Nat
  BY <1>1, LostFacts
<1>3. Starved = 1 + Lost(RollbackLimit - 1) + AnswerTicks
  BY DEF Starved, Lost
<1> QED BY <1>1, <1>2, <1>3, LoopAssumption DEF Late, MaxLag

LEMMA InitIInv == Init => IInv
<1> SUFFICES ASSUME Init PROVE IInv
  OBVIOUS
<1>1. ContextInv(Point, traj)
  BY InitContextInv, PointHasSeq, IncTypes DEF Init
<1>2. traj.state = "IDLE" /\ traj.resetRequired /\ traj.staged.seq = NoSeq /\ traj.executed = NoSeq
  BY DEF Init, InitContext, NoStaged
<1>3. TypeOK
  <2>1. /\ Never \in CmdAges /\ Never \in HbAges
        /\ 0 \in 0..MaxFrames /\ 0 \in 0..CmdTimeout + Late /\ 0 \in 0..FaultLimit
        /\ 0 \in 0..MaxLag /\ 0 \in 0..PollTicks
    BY LoopAssumption, Schedule DEF CmdAges, HbAges, Never
  <2>2. traj \in Context(Point)
    BY <1>1 DEF ContextInv
  <2> QED BY <2>1, <2>2 DEF Init, TypeOK
<1>4. BufferInv /\ DriveInv
  BY <1>1, <1>2, LoopAssumption DEF Init, BufferInv, Chain, DriveInv
<1>5. LocalsInv /\ HeartbeatInv /\ CommandInv
  BY DEF Init, LocalsInv, HeartbeatInv, CommandInv, Never
<1>6. LagInv
  BY Schedule DEF Init, LagInv, Due
<1> QED BY <1>3, <1>4, <1>5, <1>6 DEF IInv

(* What is known of the numbers.                                           *)
LEMMA Numbers ==
  IInv => /\ canLag \in 0..MaxLag /\ can.stamp \in 0..CmdTimeout + Late
          /\ can.frames \in 0..MaxFrames
          /\ cmdAge \in -1..CmdTimeout + Late /\ hbAge \in -1..HbTimeout + Late
          /\ CmdTimeout \in Nat \ {0} /\ HbTimeout \in Nat \ {0}
          /\ MaxFrames \in Nat /\ ecatLag \in 0..PollTicks /\ bad \in 0..FaultLimit
          /\ polling \in BOOLEAN /\ Starved \in Nat
          /\ Late = 2 * Starved + 1 /\ MaxLag = Starved + 2
BY LoopAssumption, Schedule DEF IInv, TypeOK, CmdAges, HbAges

(* How long ago the CAN task woke, where the drives are in TEST.           *)
LEMMA TestLag ==
  ASSUME IInv, drive = "test"
  PROVE  /\ ~polling => canLag <= Starved + 1
         /\ Due => canLag <= Starved /\ Watched
         /\ polling /\ ecatLag <= AnswerTicks => canLag <= Starved /\ Watched
<1>1. bad \in Nat /\ bad <= RollbackLimit - 1 /\ ~Gone /\ ecatLag \in Nat
      /\ ecatLag <= PollTicks /\ canLag \in Nat
  BY Numbers, Schedule DEF IInv, LagInv, Gone
<1>2. Lost(bad) \in Nat /\ Lost(bad) <= Lost(RollbackLimit - 1)
  BY <1>1, LostFacts, Schedule
<1>3. bad > 0 => Lost(bad - 1) \in Nat /\ Lost(bad) = Lost(bad - 1) + PollTicks
  <2>1. bad > 0 => bad - 1 \in Nat /\ bad = (bad - 1) + 1
    BY <1>1
  <2> QED BY <2>1, LostFacts
<1>4. CASE polling
  BY <1>1, <1>2, <1>4, Schedule DEF IInv, LagInv, Due, Calm, Watched
<1>5. CASE ~polling /\ bad = 0
  <2>1. ecatLag > AnswerTicks + 1 => canLag <= 1
    BY <1>1, <1>5 DEF IInv, LagInv
  <2>2. canLag <= 1 + Lost(RollbackLimit - 1) + ecatLag
    BY <1>1, <1>5 DEF IInv, LagInv
  <2>3. Due => ecatLag > AnswerTicks + 1
    BY <1>1, Schedule DEF Due
  <2> QED BY <1>1, <1>5, <2>1, <2>2, <2>3, Schedule DEF Calm, Watched
<1>6. CASE ~polling /\ bad > 0
  <2>1. canLag <= 1 + Lost(bad - 1) + ecatLag
    BY <1>1, <1>6 DEF IInv, LagInv
  <2>2. canLag <= Starved
    BY <1>1, <1>2, <1>3, <1>6, <2>1, Schedule
  <2> QED BY <1>1, <1>6, <2>2, Schedule DEF Calm, Watched
<1> QED BY <1>1, <1>4, <1>5, <1>6

-----------------------------------------------------------------------------
(* A cycle of the EtherCAT task.  It never ends a HOLD, and a stream of    *)
(* one point stays as it is unless the cycle ends it.                      *)
KeepsHold == IsHold(traj) => IsHold(traj')
KeepsOpening ==
  Prefill > 1 /\ traj.state = "PREFILL" /\ traj.count = 1 =>
    IsHold(traj') \/ (traj'.state = traj.state /\ traj'.count = traj.count)

LEMMA EcatWatch ==
  ASSUME IInv, UNCHANGED <<canVars, canLag>>, KeepsHold, KeepsOpening,
         Watched' => Watched
  PROVE  LocalsInv' /\ HeartbeatInv' /\ CommandInv'
<1>1. LocalsInv'
  BY DEF IInv, LocalsInv, canVars, KeepsHold
<1>2. HeartbeatInv'
  BY DEF IInv, HeartbeatInv, canVars, Fresh, HbDone
<1>3. CommandInv'
  BY DEF IInv, CommandInv, canVars, Fresh, CmdDone, KeepsHold, KeepsOpening,
         Opening, IsHold
<1> QED BY <1>1, <1>2, <1>3

Words  == {"enable", "run", "stop", "quickStop"}
Images == [seq : Seqs \cup {NoSeq}, word : Words]

(* A cycle ends well, with a loss, or with the end of EtherCAT operation.  *)
Verdict ==
  \/ bad' = 0 /\ ecatLag <= AnswerTicks /\ (drive' = "test" => bad < RollbackLimit)
  \/ bad' = bad + 1 /\ (drive' = "test" => drive = "test" /\ bad' < RollbackLimit)
  \/ drive' = "lost"

LEMMA StartKeeps == ASSUME IInv, CycleStart PROVE IInv'
<1>1. /\ Due /\ polling' = TRUE /\ ecatLag' = 0 /\ ~polling /\ ~Gone
      /\ UNCHANGED <<traj, canVars, canLag>> /\ UNCHANGED ecatVars
  BY DEF CycleStart, Due
<1>2. TypeOK' /\ BufferInv' /\ DriveInv'
  BY <1>1, LoopAssumption
     DEF IInv, TypeOK, canVars, ecatVars, BufferInv, DriveInv
<1>3. canLag <= 1 + Lost(bad)
  <2>1. bad \in Nat /\ ecatLag \in Nat /\ ecatLag <= PollTicks /\ canLag \in Nat
    BY Numbers, Schedule
  <2>2. CASE bad = 0
    BY <1>1, <2>1, <2>2, LostFacts, Schedule DEF Due, IInv, LagInv
  <2>3. CASE bad > 0
    <3>1. bad - 1 \in Nat /\ bad = (bad - 1) + 1
      BY <2>1, <2>3
    <3>2. Lost(bad) = Lost(bad - 1) + PollTicks /\ Lost(bad - 1) \in Nat
      BY <3>1, LostFacts
    <3>3. canLag <= 1 + Lost(bad - 1) + ecatLag
      BY <1>1, <2>3 DEF IInv, LagInv
    <3> QED BY <2>1, <3>2, <3>3, Schedule
  <2> QED BY <2>1, <2>2, <2>3
<1>4. LagInv'
  <2>1. Lost(bad) \in Nat
    BY Numbers, LostFacts
  <2> QED BY <1>1, <1>3, <2>1, Numbers DEF IInv, LagInv, Due, Gone, ecatVars
<1>5. Watched' => Watched
  <2>1. drive' = "test" => drive = "test"
    BY <1>1 DEF ecatVars
  <2> QED BY <1>1, <2>1, TestLag DEF Watched
<1>6. LocalsInv' /\ HeartbeatInv' /\ CommandInv'
  BY <1>1, <1>5, EcatWatch DEF KeepsHold, KeepsOpening
<1> QED BY <1>2, <1>4, <1>6 DEF IInv

LEMMA EcatEnd ==
  ASSUME IInv, Cycle, KeepsHold, KeepsOpening, BufferInv', DriveInv',
         drive' \in {"enabling", "test", "stopped", "lost", "notStaged"},
         bad' \in 0..FaultLimit, image' \in Images, sent' \in Seqs \cup {NoSeq},
         Verdict
  PROVE  IInv'
<1>1. UNCHANGED <<canVars, canLag, ecatLag>> /\ polling /\ polling' = FALSE
  BY DEF Cycle
<1>2. TypeOK'
  <2>1. /\ UNCHANGED <<can, cmdAge, hbAge, flags, latch, cause, canLag, ecatLag>>
        /\ polling' \in BOOLEAN /\ traj' \in Context(Point)
    BY <1>1 DEF canVars, BufferInv, ContextInv
  <2> QED BY <2>1 DEF IInv, TypeOK, Images, Words
<1>3. /\ 0 < canLag /\ canLag <= 1 + Lost(bad) + ecatLag
      /\ canLag \in Nat /\ bad \in Nat /\ ecatLag \in Nat
  BY <1>1, Numbers DEF IInv, LagInv
<1>4. LagInv'
  <2>1. CASE bad' = 0 /\ ecatLag <= AnswerTicks /\ (drive' = "test" => bad < RollbackLimit)
    <3>1. drive' = "test" => canLag <= 1 + Lost(RollbackLimit - 1) + ecatLag
      <4>1. bad < RollbackLimit => Lost(bad) \in Nat /\ Lost(bad) <= Lost(RollbackLimit - 1)
        BY <1>3, LostFacts, Schedule
      <4> QED BY <2>1, <4>1, <1>3, Schedule
    <3> QED BY <1>1, <1>3, <2>1, <3>1, Schedule DEF LagInv, Due, Gone
  <2>2. CASE bad' = bad + 1 /\ (drive' = "test" => drive = "test" /\ bad' < RollbackLimit)
    <3>1. bad' > 0 /\ bad' - 1 = bad
      BY <1>3, <2>2
    <3> QED BY <1>1, <1>3, <2>2, <3>1, Schedule DEF LagInv, Due, Gone
  <2>3. CASE drive' = "lost"
    BY <1>1, <1>3, <2>3 DEF LagInv, Due, Gone
  <2> QED BY <2>1, <2>2, <2>3 DEF Verdict
<1>5. Watched' => Watched
  BY <1>1, <1>3, Schedule DEF Verdict, Watched, Calm
<1> QED BY <1>1, <1>2, <1>4, <1>5, EcatWatch DEF IInv

(* What a successful exchange and the confirmation make of the chain.      *)
LEMMA AfterExchange ==
  ASSUME IInv
  PROVE  /\ ContextInv(Point, Confirmed) /\ Chain(Confirmed)
         /\ Confirmed.staged.seq = NoSeq
         /\ Confirmed.state = traj.state /\ Confirmed.count = traj.count
         /\ Sent \in Seqs \cup {NoSeq}
         /\ Confirmed.executed # NoSeq =>
              /\ Follows(Sent, Confirmed.executed)
              /\ image.seq # NoSeq => Follows(image.seq, Confirmed.executed)
<1>1. /\ ContextInv(Point, Confirmed) /\ Chain(Confirmed)
      /\ Confirmed.staged.seq = NoSeq
      /\ Confirmed.executed = IF traj.staged.seq # NoSeq THEN traj.staged.seq
                              ELSE traj.executed
      /\ Confirmed.state = traj.state /\ Confirmed.count = traj.count
  BY ConfirmEffect DEF IInv, BufferInv, Confirmed
<1>2. Sent \in Seqs \cup {NoSeq}
  BY DEF IInv, TypeOK, Sent
<1>3. Confirmed.executed # NoSeq =>
        /\ Follows(Sent, Confirmed.executed)
        /\ image.seq # NoSeq => Follows(image.seq, Confirmed.executed)
  BY <1>1 DEF IInv, DriveInv, Follows, Sent
<1> QED BY <1>1, <1>2, <1>3

(* A cycle that exchanges, confirms and ends the stream.                   *)
LEMMA ExchangeAndHold ==
  ASSUME IInv, Exchanged, NEW c \in HoldReasons,
         traj' = RequireReset(Confirmed, c),
         drive = "test", drive' \in {"test", "stopped", "lost"},
         image' \in Images, image'.seq \in {image.seq, NoSeq}
  PROVE  IInv'
<1>1. /\ BufferInv' /\ IsHold(traj') /\ traj'.staged.seq = NoSeq
      /\ traj'.executed = Confirmed.executed
  BY AfterExchange, HoldEffect DEF BufferInv
<1>2. Cycle /\ bad' = 0 /\ sent' = Sent /\ 0 < FaultLimit /\ 0 \in 0..FaultLimit
  BY LoopAssumption DEF Exchanged
<1>3. DriveInv'
  BY <1>1, <1>2, AfterExchange DEF DriveInv
<1>4. Verdict
  BY <1>2 DEF Exchanged, Verdict, IInv, LagInv
<1> QED BY <1>1, <1>2, <1>3, <1>4, AfterExchange, EcatEnd DEF KeepsHold, KeepsOpening

LEMMA HoldCauses ==
  /\ \A c \in HoldReasons : HoldCause(c) \in HoldReasons
  /\ {"QUICK_STOP", "CSP_TIMEOUT", "DRIVE_FAULT", "INTERNAL_ERROR",
      "DRIVE_NOT_CSP", "ETHERCAT_NOT_OP"} \subseteq HoldReasons
BY DEF HoldCause, HoldReasons

LEMMA ImageTypes ==
  ASSUME IInv
  PROVE  /\ image \in Images
         /\ \A w \in Words : LET i == [image EXCEPT !.word = w]
                              IN  i \in Images /\ i.seq = image.seq
         /\ LET i == [image EXCEPT !.seq = NoSeq] IN i \in Images /\ i.seq = NoSeq
BY DEF IInv, TypeOK, Images, Words

LEMMA CycleMissingKeeps == ASSUME IInv, CycleMissing PROVE IInv'
<1>1. /\ BufferInv' /\ IsHold(traj') /\ traj'.staged.seq = NoSeq
      /\ traj'.executed = traj.executed
  BY HoldEffect, HoldCauses DEF CycleMissing, BufferInv, IInv
<1>2. Cycle /\ drive' = "lost" /\ UNCHANGED <<bad, image, sent>>
  BY DEF CycleMissing
<1>3. DriveInv'
  BY <1>1, <1>2 DEF IInv, DriveInv
<1> QED BY <1>1, <1>2, <1>3, EcatEnd
        DEF IInv, TypeOK, KeepsHold, KeepsOpening, Images, Words, Verdict

LEMMA CycleFailedKeeps == ASSUME IInv, CycleFailed PROVE IInv'
<1>1. /\ Cycle /\ bad' = bad + 1 /\ sent' \in {sent, Sent}
      /\ traj' \in {traj, RequireReset(traj, "ETHERCAT_NOT_OP")}
      /\ image' \in {image, [image EXCEPT !.word = "stop"]}
  BY DEF CycleFailed
<1>0. drive \in {"enabling", "test", "stopped"}
  BY <1>1 DEF IInv, TypeOK, LagInv, Cycle, Gone
<1>2. /\ drive' \in {"enabling", "test", "stopped", "lost"}
      /\ drive' # "lost" => bad' < FaultLimit
      /\ drive' = "test" => drive = "test" /\ ~AtLimit
  <2>1. drive \in {"enabling", "test", "stopped"}
    BY <1>0
  <2>2. bad' \in Nat /\ FaultLimit \in Nat
    BY <1>1, LoopAssumption DEF IInv, TypeOK
  <2> QED BY <2>1, <2>2 DEF CycleFailed
<1>3. bad' \in 0..FaultLimit
  BY <1>0, <1>1, LoopAssumption DEF IInv, TypeOK, DriveInv
<1>4. /\ BufferInv' /\ KeepsHold /\ KeepsOpening
      /\ traj'.staged.seq \in {traj.staged.seq, NoSeq}
      /\ traj'.executed = traj.executed
  <2>1. CASE traj' = traj
    BY <2>1 DEF IInv, BufferInv, KeepsHold, KeepsOpening
  <2>2. CASE traj' = RequireReset(traj, "ETHERCAT_NOT_OP")
    <3>1. /\ ContextInv(Point, traj') /\ Chain(traj') /\ IsHold(traj')
          /\ traj'.staged.seq = NoSeq /\ traj'.executed = traj.executed
      BY <2>2, HoldEffect, HoldCauses DEF IInv, BufferInv
    <3> QED BY <3>1 DEF BufferInv, KeepsHold, KeepsOpening
  <2> QED BY <1>1, <2>1, <2>2
<1>5. image' \in Images /\ image'.seq = image.seq
  BY <1>1, ImageTypes DEF Words
<1>6. sent' \in Seqs \cup {NoSeq}
  BY <1>1 DEF IInv, TypeOK, Sent
<1>7. DriveInv'
  BY <1>1, <1>2, <1>4, <1>5 DEF IInv, DriveInv, Sent
<1>8. Verdict
  BY <1>1, <1>2, Numbers, Schedule DEF Verdict, AtLimit
<1> QED BY <1>1, <1>2, <1>3, <1>4, <1>5, <1>6, <1>7, <1>8, EcatEnd

(* A cycle outside TEST only exchanges and confirms.                       *)
LEMMA ConfirmOnlyKeeps ==
  ASSUME IInv, Exchanged, traj' = Confirmed,
         drive' \in {"enabling", "test", "stopped", "lost"},
         drive' = "test" => bad < RollbackLimit,
         image' \in Images, image'.seq = image.seq
  PROVE  IInv'
<1>1. Cycle /\ bad' = 0 /\ sent' = Sent /\ 0 < FaultLimit /\ 0 \in 0..FaultLimit
  BY LoopAssumption DEF Exchanged
<1>2. BufferInv' /\ KeepsHold /\ KeepsOpening
  BY AfterExchange DEF BufferInv, KeepsHold, KeepsOpening, IsHold
<1>3. DriveInv'
  BY <1>1, AfterExchange DEF DriveInv
<1>4. Verdict
  BY <1>1 DEF Exchanged, Verdict
<1> QED BY <1>1, <1>2, <1>3, <1>4, AfterExchange, EcatEnd

LEMMA TestNoPointKeeps ==
  ASSUME IInv, NEW expired \in BOOLEAN, TestNoPoint(expired) PROVE IInv'
<1>1. /\ Exchanged /\ traj' = Take(Confirmed, expired) /\ drive' = "test"
      /\ image' \in {image, [image EXCEPT !.seq = NoSeq]}
      /\ TakeResult(Confirmed, expired) # "POINT"
  BY DEF TestNoPoint, MayTake
<1>2. Cycle /\ bad' = 0 /\ sent' = Sent /\ 0 < FaultLimit /\ 0 \in 0..FaultLimit
  BY <1>1, LoopAssumption DEF Exchanged
<1>3. /\ ContextInv(Point, traj') /\ Chain(traj')
      /\ traj'.staged.seq = NoSeq /\ traj'.executed = Confirmed.executed
      /\ IsHold(Confirmed) => IsHold(traj')
      /\ Prefill > 1 /\ Confirmed.state = "PREFILL" /\ Confirmed.count = 1
           => traj' = Confirmed
  BY <1>1, AfterExchange, TakeEffect
<1>4. BufferInv' /\ KeepsHold /\ KeepsOpening
  BY <1>3, AfterExchange DEF BufferInv, KeepsHold, KeepsOpening, IsHold
<1>5. image' \in Images /\ image'.seq \in {image.seq, NoSeq}
  BY <1>1, ImageTypes
<1>6. DriveInv'
  BY <1>1, <1>2, <1>3, <1>5, AfterExchange DEF DriveInv
<1>7. Verdict
  BY <1>1, <1>2 DEF Exchanged, Verdict, IInv, LagInv, TestNoPoint, MayTake
<1> QED BY <1>1, <1>2, <1>4, <1>5, <1>6, <1>7, AfterExchange, EcatEnd

LEMMA TestPointKeeps == ASSUME IInv, TestPoint PROVE IInv'
<1> DEFINE next == Take(Confirmed, FALSE)
           q    == HeadPoint(Confirmed).seq
           g    == Confirmed.generation
<1>1. /\ CanStage(next, g)
      /\ ContextInv(Point, Stage(next, q, g)) /\ Chain(Stage(next, q, g))
      /\ Stage(next, q, g).staged.seq = q /\ q \in Seqs
      /\ Stage(next, q, g).executed = Confirmed.executed
      /\ Confirmed.executed # NoSeq => q = SeqInc(Confirmed.executed)
      /\ ~IsHold(Confirmed)
      /\ ~(Confirmed.state = "PREFILL" /\ Confirmed.count = 1 /\ Prefill > 1)
  BY AfterExchange, StageEffect DEF TestPoint
<1>2. /\ Exchanged /\ traj' = Stage(next, q, g)
      /\ image' = [seq |-> q, word |-> "run"] /\ drive' = "test"
  BY <1>1 DEF TestPoint, MayTake
<1>3. Cycle /\ bad' = 0 /\ sent' = Sent /\ 0 < FaultLimit /\ 0 \in 0..FaultLimit
  BY <1>2, LoopAssumption DEF Exchanged
<1>4. BufferInv' /\ KeepsHold /\ KeepsOpening
  BY <1>1, <1>2, AfterExchange DEF BufferInv, KeepsHold, KeepsOpening, IsHold
<1>5. image' \in Images
  BY <1>1, <1>2 DEF Images, Words
<1>6. DriveInv'
  BY <1>1, <1>2, <1>3, AfterExchange DEF DriveInv, Follows
<1>7. Verdict
  BY <1>2, <1>3 DEF Exchanged, Verdict, IInv, LagInv, TestPoint, MayTake
<1> QED BY <1>2, <1>3, <1>4, <1>5, <1>6, <1>7, AfterExchange, EcatEnd

LEMMA EcatKeeps == ASSUME IInv, EcatCycle PROVE IInv'
<1>1. CASE CycleMissing
  BY <1>1, CycleMissingKeeps
<1>2. CASE CycleFailed
  BY <1>2, CycleFailedKeeps
<1>3. CASE CycleEnabling \/ CycleStopped
  <2>0. bad \in Nat /\ RollbackLimit \in Nat
    BY Numbers, Schedule
  <2>1. /\ Exchanged /\ traj' = Confirmed
        /\ drive' \in {"enabling", "test", "stopped", "lost"}
        /\ drive' = "test" => bad < RollbackLimit
        /\ image' \in {image, [image EXCEPT !.word = "stop"]}
    BY <1>3 DEF CycleEnabling, CycleStopped
  <2> QED BY <2>1, ImageTypes, ConfirmOnlyKeeps DEF Words
<1>4. CASE TestQuickStop
  <2>1. /\ Exchanged /\ traj' = RequireReset(Confirmed, HoldCause("QUICK_STOP"))
        /\ drive = "test" /\ drive' = "test" /\ image' = [image EXCEPT !.word = "quickStop"]
    BY <1>4 DEF TestQuickStop
  <2> QED BY <2>1, HoldCauses, ImageTypes, ExchangeAndHold DEF Words
<1>5. CASE TestDriveFault
  <2>1. PICK c \in HoldReasons : traj' = RequireReset(Confirmed, c)
    BY <1>5, HoldCauses DEF TestDriveFault
  <2>2. Exchanged /\ drive = "test" /\ drive' = "stopped" /\ image' = [image EXCEPT !.word = "stop"]
    BY <1>5 DEF TestDriveFault
  <2> QED BY <2>1, <2>2, ImageTypes, ExchangeAndHold DEF Words
<1>6. CASE TestNotCsp
  <2>1. /\ Exchanged /\ traj' = RequireReset(Confirmed, "DRIVE_NOT_CSP")
        /\ drive = "test" /\ drive' = "lost" /\ image' = image
    BY <1>6 DEF TestNotCsp
  <2> QED BY <2>1, HoldCauses, ImageTypes, ExchangeAndHold
<1>7. CASE TestTimeoutHold
  <2>1. /\ Exchanged /\ traj' = RequireReset(Confirmed, HoldCause("CSP_TIMEOUT"))
        /\ drive = "test" /\ drive' = "test" /\ image' = [image EXCEPT !.seq = NoSeq]
    BY <1>7 DEF TestTimeoutHold
  <2> QED BY <2>1, HoldCauses, ImageTypes, ExchangeAndHold
<1>8. ASSUME NEW expired \in BOOLEAN, TestNoPoint(expired) PROVE IInv'
  BY <1>8, TestNoPointKeeps
<1>9. CASE TestPoint
  BY <1>9, TestPointKeeps
<1> QED BY StartKeeps, <1>1, <1>2, <1>3, <1>4, <1>5, <1>6, <1>7, <1>8, <1>9
        DEF EcatCycle, HandleTest

-----------------------------------------------------------------------------
(* The CAN task.  It leaves the process data alone, stages nothing and     *)
(* reports nothing executed.                                               *)
LEMMA CanDrive ==
  ASSUME IInv, UNCHANGED ecatVars,
         traj'.staged.seq \in {traj.staged.seq, NoSeq},
         traj'.executed \in {traj.executed, NoSeq}
  PROVE  DriveInv'
BY DEF IInv, DriveInv, ecatVars

Pcs == {"sleep", "rx", "publish", "quickStop", "isHold", "command",
        "latchCommand", "heartbeat", "latchHeartbeat"}
Judgements == {"never", "fresh", "late"}
CanTypes ==
  [pc : Pcs, frames : 0..MaxFrames, stamp : 0..CmdTimeout + Late,
   cmd : Judgements, hb : Judgements, hold : BOOLEAN]

LEMMA CanTyped ==
  IInv => /\ can \in CanTypes
          /\ can.pc \in {"rx", "publish", "quickStop", "sleep"} =>
               can.cmd = "never" /\ can.hb = "never" /\ can.hold = FALSE
BY DEF IInv, TypeOK, CanTypes, Pcs, Judgements, LocalsInv

(* The next frame is taken from the queue: only the pc of the locals       *)
(* changes, and no judgement is pending.                                   *)
LEMMA FrameTaken ==
  ASSUME IInv, NEW kind, NEW pc \in {"rx", "publish", "quickStop"}, NextFrame(kind, pc)
  PROVE  /\ can.pc = "rx" /\ can'.pc = pc /\ can' \in CanTypes
         /\ can'.stamp = 0 /\ can'.cmd = "never" /\ can'.hb = "never"
         /\ can'.hold = FALSE
<1>1. /\ can.pc = "rx" /\ can.frames > 0
      /\ can' = [can EXCEPT !.pc = pc, !.frames = @ - 1]
  BY DEF NextFrame
<1>2. can.frames - 1 \in 0..MaxFrames
  BY <1>1, Numbers
<1>3. can.stamp = 0
  BY <1>1 DEF IInv, LocalsInv
<1> QED BY <1>1, <1>2, <1>3, CanTyped DEF CanTypes, Pcs

LEMMA RxKeeps ==
  ASSUME IInv, NEW kind, NEW pc \in {"rx", "publish", "quickStop"}, NextFrame(kind, pc),
         UNCHANGED <<cmdAge, flags, latch, cause, ecatVars, timeVars>>,
         hbAge' \in {hbAge, 0},
         BufferInv',
         traj'.staged.seq \in {traj.staged.seq, NoSeq},
         traj'.executed \in {traj.executed, NoSeq},
         pc = "quickStop" => IsHold(traj'),
         \/ KeepsHold
         \/ pc = "publish" /\ traj'.state = "PREFILL" /\ traj'.count = 1
  PROVE  IInv'
<1>1. /\ can.pc = "rx" /\ can'.pc = pc /\ can' \in CanTypes
      /\ can'.stamp = 0 /\ can'.cmd = "never" /\ can'.hb = "never"
      /\ can'.hold = FALSE
  BY FrameTaken
<1>2. /\ UNCHANGED <<cmdAge, flags, latch, cause, canLag, ecatLag, polling>>
      /\ UNCHANGED ecatVars /\ UNCHANGED <<drive, bad>>
      /\ Watched' = Watched
  BY DEF timeVars, ecatVars, Watched, Calm
<1>3. TypeOK'
  <2>1. hbAge' \in HbAges
    BY Numbers DEF IInv, TypeOK, HbAges
  <2> QED BY <1>1, <1>2, <2>1
          DEF IInv, TypeOK, ecatVars, BufferInv, ContextInv, CanTypes, Pcs, Judgements
<1>4. DriveInv'
  BY <1>2, CanDrive
<1>5. LocalsInv'
  BY <1>1, <1>2, Numbers DEF IInv, LocalsInv
<1>6. HeartbeatInv'
  BY <1>1, <1>2, Numbers DEF IInv, HeartbeatInv, Fresh, HbDone
<1>7. CommandInv'
  BY <1>1, <1>2, Numbers
     DEF IInv, CommandInv, Fresh, CmdDone, Opening, KeepsHold, IsHold
<1>8. LagInv'
  BY <1>2 DEF IInv, LagInv, Due, Gone
<1> QED BY <1>3, <1>4, <1>5, <1>6, <1>7, <1>8 DEF IInv

LEMMA RxHoldKeeps ==
  ASSUME IInv, RxHold \/ RxQuickStop PROVE IInv'
<1>1. /\ {"EXPLICIT_0X180", "QUICK_STOP"} \subseteq HoldReasons
      /\ ContextInv(Point, traj)
  BY DEF HoldReasons, IInv, BufferInv
<1>2. PICK c \in HoldReasons : traj' = RequireReset(traj, c)
  BY <1>1 DEF RxHold, RxQuickStop
<1>3. /\ BufferInv' /\ IsHold(traj') /\ traj'.staged.seq = NoSeq
      /\ traj'.executed = traj.executed
  BY <1>1, <1>2, HoldEffect DEF BufferInv
<1>4. PICK k \in {"HOLD", "QUICK_STOP"}, pc \in {"publish", "quickStop"} : NextFrame(k, pc)
  BY DEF RxHold, RxQuickStop
<1>5. UNCHANGED <<cmdAge, hbAge, flags, latch, cause, ecatVars, timeVars>>
  BY DEF RxHold, RxQuickStop
<1> QED BY <1>3, <1>4, <1>5, RxKeeps DEF KeepsHold

LEMMA RxResetKeeps ==
  ASSUME IInv, NEW q \in ResetSeqs, RxReset(q) PROVE IInv'
<1>1. [seq |-> q] \in Point /\ ContextInv(Point, traj)
  BY LoopAssumption, PointHasSeq DEF IInv, BufferInv
<1>2. /\ BufferInv' /\ traj'.state = "PREFILL" /\ traj'.count = 1
      /\ traj'.staged.seq = NoSeq /\ traj'.executed = NoSeq
  BY <1>1, ResetEffect DEF RxReset, BufferInv
<1>3. /\ NextFrame("RESET", "publish")
      /\ UNCHANGED <<cmdAge, hbAge, flags, latch, cause, ecatVars, timeVars>>
  BY DEF RxReset
<1> QED BY <1>2, <1>3, RxKeeps

LEMMA RxApplyKeeps ==
  ASSUME IInv, NEW q \in Seqs, RxApply(q) PROVE IInv'
<1>1. /\ [seq |-> q] \in Point /\ ContextInv(Point, traj) /\ Chain(traj)
  BY PointHasSeq DEF IInv, BufferInv
<1>2. /\ BufferInv' /\ KeepsHold
      /\ traj'.staged.seq \in {traj.staged.seq, NoSeq}
      /\ traj'.executed = traj.executed
  BY <1>1, PushEffect DEF RxApply, BufferInv, KeepsHold
<1>3. PICK pc \in {"publish", "rx"} : NextFrame("APPLY", pc)
  BY DEF RxApply
<1>4. UNCHANGED <<cmdAge, hbAge, flags, latch, cause, ecatVars, timeVars>>
  BY DEF RxApply
<1> QED BY <1>2, <1>3, <1>4, RxKeeps

LEMMA RxHeartbeatKeeps == ASSUME IInv, RxHeartbeat PROVE IInv'
<1>1. /\ NextFrame("HEARTBEAT", "rx") /\ hbAge' = 0 /\ traj' = traj
      /\ UNCHANGED <<cmdAge, flags, latch, cause, ecatVars, timeVars>>
  BY DEF RxHeartbeat
<1>2. BufferInv' /\ KeepsHold
  BY <1>1 DEF IInv, BufferInv, KeepsHold
<1> QED BY <1>1, <1>2, RxKeeps

(* A step that leaves the context and the process data alone.              *)
LEMMA TaskKeeps ==
  ASSUME IInv, UNCHANGED <<traj, ecatVars, ecatLag, polling>>,
         can' \in CanTypes, cmdAge' \in CmdAges, hbAge' = hbAge,
         canLag' = canLag \/ (canLag' = 0 /\ ~polling /\ ~Due),
         flags' \in [timedOut : BOOLEAN, cmdReported : BOOLEAN,
                     online : BOOLEAN, hbReported : BOOLEAN],
         latch' \in BOOLEAN,
         cause' \in {"NONE", "QUICK_STOP", "CSP_TIMEOUT", "HOST_TIMEOUT"},
         LocalsInv', HeartbeatInv', CommandInv'
  PROVE  IInv'
<1>1. TypeOK'
  BY Numbers DEF IInv, TypeOK, ecatVars, CanTypes, Pcs, Judgements
<1>2. BufferInv' /\ DriveInv'
  BY CanDrive DEF IInv, BufferInv
<1>3. LagInv'
  <2>1. Lost(RollbackLimit - 1) \in Nat /\ ecatLag \in Nat
    BY Schedule, Numbers
  <2>2. bad > 0 => Lost(bad - 1) \in Nat
    <3>1. bad > 0 => bad - 1 \in Nat
      BY Numbers
    <3> QED BY <3>1, LostFacts
  <2> QED BY <2>1, <2>2 DEF IInv, LagInv, Due, Gone, ecatVars
<1> QED BY <1>1, <1>2, <1>3 DEF IInv

LEMMA WakeKeeps == ASSUME IInv, CanWake, ~polling, ~Due PROVE IInv'
<1>1. PICK n \in 0..MaxFrames : can' = [can EXCEPT !.pc = "rx", !.frames = n]
  BY DEF CanWake
<1>2. /\ can.pc = "sleep" /\ canLag' = 0
      /\ UNCHANGED <<traj, cmdAge, hbAge, flags, latch, cause, ecatVars, ecatLag, polling>>
  BY DEF CanWake
<1>3. /\ can' \in CanTypes /\ can'.pc = "rx" /\ can'.stamp = 0
      /\ can'.cmd = "never" /\ can'.hb = "never" /\ can'.hold = FALSE
  BY <1>1, <1>2, CanTyped DEF CanTypes, Pcs, IInv, LocalsInv
<1>4. LocalsInv'
  BY <1>2, <1>3 DEF IInv, LocalsInv
<1>0. canLag \in Nat /\ (drive = "test" => canLag < MaxLag)
  BY TestLag, Numbers
<1>5. HeartbeatInv'
  BY <1>0, <1>2, <1>3, Numbers DEF IInv, HeartbeatInv, Fresh, HbDone,
         Watched, Calm, ecatVars
<1>6. CommandInv'
  BY <1>0, <1>2, <1>3, Numbers DEF IInv, CommandInv, Fresh, CmdDone, Opening,
         Watched, Calm, ecatVars
<1> QED BY <1>2, <1>3, <1>4, <1>5, <1>6, TaskKeeps DEF IInv, TypeOK

LEMMA PublishKeeps == ASSUME IInv, RxPublish PROVE IInv'
<1>1. /\ can.pc = "publish" /\ cmdAge' = can.stamp
      /\ can' = [can EXCEPT !.pc = "rx", !.stamp = 0]
      /\ UNCHANGED <<traj, hbAge, flags, latch, cause, ecatVars, canLag, ecatLag, polling>>
  BY DEF RxPublish, timeVars
<1>2. /\ can' \in CanTypes /\ can'.pc = "rx" /\ can'.stamp = 0
      /\ can'.cmd = "never" /\ can'.hb = "never" /\ can'.hold = FALSE
  <2>1. 0 \in 0..CmdTimeout + Late
    BY Numbers
  <2> QED BY <1>1, <2>1, CanTyped DEF CanTypes, Pcs
<1>3. /\ can.stamp \in Nat /\ (canLag < MaxLag => can.stamp <= canLag)
      /\ cmdAge' \in CmdAges
  BY <1>1, Numbers DEF IInv, LocalsInv, CmdAges
<1>4. LocalsInv'
  BY <1>1, <1>2, Numbers DEF IInv, LocalsInv
<1>5. HeartbeatInv'
  BY <1>1, <1>2, Numbers DEF IInv, HeartbeatInv, Fresh, HbDone,
         Watched, Calm, ecatVars
<1>6. CommandInv'
  BY <1>1, <1>2, <1>3, Numbers DEF IInv, CommandInv, Fresh, CmdDone, Opening,
         Watched, Calm, ecatVars
<1> QED BY <1>1, <1>2, <1>3, <1>4, <1>5, <1>6, TaskKeeps DEF IInv, TypeOK

LEMMA QuickStopLatchKeeps == ASSUME IInv, RxQuickStopLatch PROVE IInv'
<1>1. /\ can.pc = "quickStop" /\ latch' = TRUE
      /\ cause' = IF latch THEN cause ELSE "QUICK_STOP"
      /\ can' = [can EXCEPT !.pc = "rx"]
      /\ UNCHANGED <<traj, cmdAge, hbAge, flags, ecatVars, canLag, ecatLag, polling>>
  BY DEF RxQuickStopLatch, RaiseLatch, Goto, timeVars
<1>2. /\ can' \in CanTypes /\ can'.pc = "rx" /\ can'.stamp = 0
      /\ can'.cmd = "never" /\ can'.hb = "never" /\ can'.hold = FALSE
  BY <1>1, CanTyped DEF CanTypes, Pcs, IInv, LocalsInv
<1>3. LocalsInv'
  BY <1>1, <1>2, Numbers DEF IInv, LocalsInv
<1>4. HeartbeatInv'
  BY <1>1, <1>2, Numbers DEF IInv, HeartbeatInv, Fresh, HbDone,
         Watched, Calm, ecatVars
<1>5. CommandInv'
  BY <1>1, <1>2, Numbers DEF IInv, CommandInv, Fresh, CmdDone, Opening,
         Watched, Calm, ecatVars
<1> QED BY <1>1, <1>2, <1>3, <1>4, <1>5, TaskKeeps DEF IInv, TypeOK

-----------------------------------------------------------------------------
(* APP_CAN_CheckTimeout, step by step.                                     *)
LEMMA SampleKeeps == ASSUME IInv, CheckSample PROVE IInv'
<1>1. /\ can.pc = "rx"
      /\ can' = [can EXCEPT !.pc = "isHold", !.cmd = Judge(cmdAge, CmdTimeout),
                            !.hb = Judge(hbAge, HbTimeout)]
      /\ UNCHANGED <<traj, cmdAge, hbAge, flags, latch, cause, ecatVars, canLag, ecatLag, polling>>
  BY DEF CheckSample, timeVars
<1>2. /\ Judge(cmdAge, CmdTimeout) \in Judgements /\ Judge(hbAge, HbTimeout) \in Judgements
      /\ Judge(cmdAge, CmdTimeout) = "fresh" => cmdAge \in 0..CmdTimeout - 1
      /\ Judge(hbAge, HbTimeout) = "fresh" => hbAge \in 0..HbTimeout - 1
      /\ Judge(cmdAge, CmdTimeout) = "never" => cmdAge = Never
      /\ Judge(hbAge, HbTimeout) = "never" => hbAge = Never
  BY Numbers DEF Judge, Judgements, Never
<1>3. /\ can' \in CanTypes /\ can'.pc = "isHold" /\ can'.stamp = 0
      /\ can'.cmd = Judge(cmdAge, CmdTimeout) /\ can'.hb = Judge(hbAge, HbTimeout)
      /\ can'.hold = FALSE
  BY <1>1, <1>2, CanTyped DEF CanTypes, Pcs, IInv, LocalsInv
<1>4. LocalsInv'
  BY <1>1, <1>3, Numbers DEF IInv, LocalsInv
<1>5. HeartbeatInv'
  BY <1>1, <1>2, <1>3, Numbers DEF IInv, HeartbeatInv, Fresh, HbDone,
         Watched, Calm, ecatVars
<1>6. CommandInv'
  BY <1>1, <1>2, <1>3, Numbers DEF IInv, CommandInv, Fresh, CmdDone, Opening,
         Watched, Calm, ecatVars
<1> QED BY <1>1, <1>3, <1>4, <1>5, <1>6, TaskKeeps DEF IInv, TypeOK

LEMMA IsHoldKeeps == ASSUME IInv, CheckIsHold PROVE IInv'
<1>1. /\ can.pc = "isHold"
      /\ can' = [can EXCEPT !.pc = "command", !.hold = IsHold(traj)]
      /\ UNCHANGED <<traj, cmdAge, hbAge, flags, latch, cause, ecatVars, canLag, ecatLag, polling>>
  BY DEF CheckIsHold, timeVars
<1>2. /\ can' \in CanTypes /\ can'.pc = "command" /\ can'.stamp = 0
      /\ can'.cmd = can.cmd /\ can'.hb = can.hb /\ can'.hold = IsHold(traj)
  BY <1>1, CanTyped DEF CanTypes, Pcs, IInv, LocalsInv, IsHold
<1>3. LocalsInv'
  BY <1>1, <1>2, Numbers DEF IInv, LocalsInv
<1>4. HeartbeatInv'
  BY <1>1, <1>2, Numbers DEF IInv, HeartbeatInv, Fresh, HbDone,
         Watched, Calm, ecatVars
<1>5. CommandInv'
  BY <1>1, <1>2, Numbers DEF IInv, CommandInv, Fresh, CmdDone, Opening,
         Watched, Calm, ecatVars
<1> QED BY <1>1, <1>2, <1>3, <1>4, <1>5, TaskKeeps DEF IInv, TypeOK

LEMMA CommandKeeps == ASSUME IInv, CheckCommand PROVE IInv'
<1> DEFINE late == ~can.hold /\ can.cmd = "late"
           pc   == IF late /\ ~flags.cmdReported THEN "latchCommand" ELSE "heartbeat"
<1>1. /\ can.pc = "command"
      /\ flags' = [flags EXCEPT
                     !.timedOut    = late \/ (~can.hold /\ can.cmd = "never"),
                     !.cmdReported = IF can.hold \/ can.cmd = "fresh" THEN FALSE ELSE @]
      /\ can' = [can EXCEPT !.pc = pc, !.hold = FALSE, !.cmd = "never"]
      /\ UNCHANGED <<traj, cmdAge, hbAge, latch, cause, ecatVars, canLag, ecatLag, polling>>
  BY DEF CheckCommand, timeVars
<1>2. /\ can' \in CanTypes /\ can'.pc = pc /\ can'.stamp = 0
      /\ can'.cmd = "never" /\ can'.hb = can.hb /\ can'.hold = FALSE
  BY <1>1, CanTyped DEF CanTypes, Pcs, Judgements, IInv, LocalsInv
<1>3. flags \in [timedOut : BOOLEAN, cmdReported : BOOLEAN,
                 online : BOOLEAN, hbReported : BOOLEAN]
  BY DEF IInv, TypeOK
<1>4. /\ flags' \in [timedOut : BOOLEAN, cmdReported : BOOLEAN,
                      online : BOOLEAN, hbReported : BOOLEAN]
      /\ flags'.timedOut <=> ~can.hold /\ can.cmd \in {"late", "never"}
      /\ flags'.cmdReported => flags.cmdReported
      /\ flags'.online = flags.online /\ flags'.hbReported = flags.hbReported
  BY <1>1, <1>3
<1>5. can.cmd \in {"never", "fresh", "late"}
  BY CanTyped DEF CanTypes, Judgements
<1>6. LocalsInv'
  BY <1>1, <1>2, <1>4, Numbers DEF IInv, LocalsInv
<1>7. HeartbeatInv'
  BY <1>1, <1>2, <1>4, Numbers DEF IInv, HeartbeatInv, Fresh, HbDone,
         Watched, Calm, ecatVars
<1>8. CommandInv'
  BY <1>1, <1>2, <1>4, <1>5, Numbers
     DEF IInv, CommandInv, LocalsInv, Fresh, CmdDone, Opening,
         Watched, Calm, ecatVars
<1> QED BY <1>1, <1>2, <1>4, <1>6, <1>7, <1>8, TaskKeeps DEF IInv, TypeOK

LEMMA CommandLatchKeeps == ASSUME IInv, CheckCommandLatch PROVE IInv'
<1>1. /\ can.pc = "latchCommand" /\ latch' = TRUE
      /\ cause' = IF latch THEN cause ELSE "CSP_TIMEOUT"
      /\ flags' = [flags EXCEPT !.cmdReported = TRUE]
      /\ can' = [can EXCEPT !.pc = "heartbeat"]
      /\ UNCHANGED <<traj, cmdAge, hbAge, ecatVars, canLag, ecatLag, polling>>
  BY DEF CheckCommandLatch, RaiseLatch, Goto, timeVars
<1>2. /\ can' \in CanTypes /\ can'.pc = "heartbeat" /\ can'.stamp = 0
      /\ can'.cmd = "never" /\ can'.hb = can.hb /\ can'.hold = FALSE
  BY <1>1, CanTyped DEF CanTypes, Pcs, IInv, LocalsInv
<1>3. /\ flags' \in [timedOut : BOOLEAN, cmdReported : BOOLEAN,
                      online : BOOLEAN, hbReported : BOOLEAN]
      /\ flags'.timedOut = flags.timedOut /\ flags'.online = flags.online
  BY <1>1 DEF IInv, TypeOK
<1>4. LocalsInv'
  BY <1>1, <1>2, <1>3, Numbers DEF IInv, LocalsInv
<1>5. HeartbeatInv'
  BY <1>1, <1>2, <1>3, Numbers DEF IInv, HeartbeatInv, Fresh, HbDone,
         Watched, Calm, ecatVars
<1>6. CommandInv'
  BY <1>1, <1>2, <1>3, Numbers DEF IInv, CommandInv, LocalsInv, Fresh, CmdDone, Opening,
         Watched, Calm, ecatVars
<1> QED BY <1>1, <1>2, <1>3, <1>4, <1>5, <1>6, TaskKeeps DEF IInv, TypeOK

LEMMA HeartbeatKeeps == ASSUME IInv, CheckHeartbeat PROVE IInv'
<1> DEFINE pc == IF can.hb = "late" /\ ~flags.hbReported
                 THEN "latchHeartbeat" ELSE "sleep"
<1>1. /\ can.pc = "heartbeat"
      /\ flags' = [flags EXCEPT !.online     = can.hb = "fresh",
                                !.hbReported = IF can.hb = "fresh" THEN FALSE ELSE @]
      /\ can' = [can EXCEPT !.pc = pc, !.hb = "never"]
      /\ UNCHANGED <<traj, cmdAge, hbAge, latch, cause, ecatVars, canLag, ecatLag, polling>>
  BY DEF CheckHeartbeat, timeVars
<1>2. /\ can' \in CanTypes /\ can'.pc = pc /\ can'.stamp = 0
      /\ can'.cmd = "never" /\ can'.hb = "never" /\ can'.hold = FALSE
  BY <1>1, CanTyped DEF CanTypes, Pcs, Judgements, IInv, LocalsInv
<1>3. flags \in [timedOut : BOOLEAN, cmdReported : BOOLEAN,
                 online : BOOLEAN, hbReported : BOOLEAN]
  BY DEF IInv, TypeOK
<1>4. /\ flags' \in [timedOut : BOOLEAN, cmdReported : BOOLEAN,
                      online : BOOLEAN, hbReported : BOOLEAN]
      /\ flags'.online <=> can.hb = "fresh"
      /\ flags'.hbReported => flags.hbReported
      /\ flags'.timedOut = flags.timedOut /\ flags'.cmdReported = flags.cmdReported
  BY <1>1, <1>3
<1>5. can.hb \in {"never", "fresh", "late"}
  BY CanTyped DEF CanTypes, Judgements
<1>6. LocalsInv'
  BY <1>1, <1>2, <1>4, Numbers DEF IInv, LocalsInv
<1>7. HeartbeatInv'
  BY <1>1, <1>2, <1>4, <1>5, Numbers
     DEF IInv, HeartbeatInv, LocalsInv, Fresh, HbDone,
         Watched, Calm, ecatVars
<1>8. CommandInv'
  BY <1>1, <1>2, <1>4, Numbers DEF IInv, CommandInv, Fresh, CmdDone, Opening,
         Watched, Calm, ecatVars
<1> QED BY <1>1, <1>2, <1>4, <1>6, <1>7, <1>8, TaskKeeps DEF IInv, TypeOK

LEMMA HeartbeatLatchKeeps == ASSUME IInv, CheckHeartbeatLatch PROVE IInv'
<1>1. /\ can.pc = "latchHeartbeat" /\ latch' = TRUE
      /\ cause' = IF latch THEN cause ELSE "HOST_TIMEOUT"
      /\ flags' = [flags EXCEPT !.hbReported = TRUE]
      /\ can' = [can EXCEPT !.pc = "sleep"]
      /\ UNCHANGED <<traj, cmdAge, hbAge, ecatVars, canLag, ecatLag, polling>>
  BY DEF CheckHeartbeatLatch, RaiseLatch, Goto, timeVars
<1>2. /\ can' \in CanTypes /\ can'.pc = "sleep" /\ can'.stamp = 0
      /\ can'.cmd = "never" /\ can'.hb = "never" /\ can'.hold = FALSE
  BY <1>1, CanTyped DEF CanTypes, Pcs, IInv, LocalsInv
<1>3. /\ flags' \in [timedOut : BOOLEAN, cmdReported : BOOLEAN,
                      online : BOOLEAN, hbReported : BOOLEAN]
      /\ flags'.timedOut = flags.timedOut /\ flags'.online = flags.online
  BY <1>1 DEF IInv, TypeOK
<1>4. LocalsInv'
  BY <1>1, <1>2, <1>3, Numbers DEF IInv, LocalsInv
<1>5. HeartbeatInv'
  BY <1>1, <1>2, <1>3, Numbers DEF IInv, HeartbeatInv, LocalsInv, Fresh, HbDone,
         Watched, Calm, ecatVars
<1>6. CommandInv'
  BY <1>1, <1>2, <1>3, Numbers DEF IInv, CommandInv, Fresh, CmdDone, Opening,
         Watched, Calm, ecatVars
<1> QED BY <1>1, <1>2, <1>3, <1>4, <1>5, <1>6, TaskKeeps DEF IInv, TypeOK

LEMMA CanKeeps == ASSUME IInv, CanTask PROVE IInv'
<1>1. ASSUME NEW q \in ResetSeqs, RxReset(q) PROVE IInv'
  BY <1>1, RxResetKeeps
<1>2. ASSUME NEW q \in {traj.expected, SeqInc(traj.expected)}, RxApply(q) PROVE IInv'
  <2>1. traj.expected \in Seqs /\ SeqInc(traj.expected) \in Seqs
    BY IncTypes DEF IInv, TypeOK, Context
  <2> QED BY <1>2, <2>1, RxApplyKeeps
<1>3. CanReceive => IInv'
  BY <1>1, <1>2, RxHoldKeeps, PublishKeeps, QuickStopLatchKeeps, RxHeartbeatKeeps
     DEF CanReceive
<1>4. CheckTimeout => IInv'
  BY SampleKeeps, IsHoldKeeps, CommandKeeps, CommandLatchKeeps, HeartbeatKeeps,
     HeartbeatLatchKeeps DEF CheckTimeout
<1> QED BY <1>3, <1>4, WakeKeeps DEF CanTask

-----------------------------------------------------------------------------
(* A tick lets every age and every lag grow by one.  Where the CAN task is *)
(* not sure to have run, a cycle is on its way that ended in a loss, or it *)
(* has yet to wake before the next one.                                    *)
LEMMA TickLag ==
  ASSUME IInv, Tick
  PROVE  /\ LagInv' /\ (Watched' => Watched)
         /\ canLag' \in 0..MaxLag /\ ecatLag' \in 0..PollTicks
         /\ canLag' < MaxLag => canLag < MaxLag /\ canLag' = canLag + 1
<1>1. /\ UNCHANGED <<drive, bad, polling>>
      /\ canLag' = Older(canLag, MaxLag)
      /\ ecatLag' = IF Gone THEN 0 ELSE ecatLag + 1
      /\ \/ polling /\ ecatLag < PollTicks
         \/ ~polling /\ ~Due /\ CanServed
  BY DEF Tick, ecatVars
<1>2. canLag \in 0..MaxLag /\ ecatLag \in Nat /\ bad \in Nat /\ polling \in BOOLEAN
  BY Numbers, Schedule
<1>3. /\ canLag' \in 0..MaxLag /\ 0 < canLag' /\ canLag' <= canLag + 1
      /\ canLag' < MaxLag => canLag < MaxLag /\ canLag' = canLag + 1
  BY <1>1, <1>2, Schedule DEF Older
<1>4. ecatLag' \in 0..PollTicks
  BY <1>1, <1>2, Schedule DEF Due
<1>5. polling => ~Gone
  BY DEF IInv, LagInv
<1>6. LagInv'
  <2>1. Gone' = Gone
    BY <1>1 DEF Gone
  <2>2. Lost(bad) \in Nat /\ Lost(RollbackLimit - 1) \in Nat
    BY <1>2, LostFacts, Schedule
  <2>3. bad > 0 => Lost(bad - 1) \in Nat
    <3>1. bad > 0 => bad - 1 \in Nat
      BY <1>2
    <3> QED BY <3>1, LostFacts
  <2>4. drive = "test" => ~Gone
    BY DEF Gone
  <2>5. ~Gone => ecatLag' = ecatLag + 1
    BY <1>1
  <2>6. polling => 0 < canLag' /\ canLag' <= 1 + Lost(bad) + (ecatLag + 1)
    BY <1>2, <1>3, <2>2 DEF IInv, LagInv
  <2>7. ~polling /\ ~Gone /\ bad > 0 => canLag' <= 1 + Lost(bad - 1) + (ecatLag + 1)
    BY <1>2, <1>3, <2>3 DEF IInv, LagInv
  <2>8. ~polling /\ ~Gone /\ bad = 0 /\ ecatLag + 1 > AnswerTicks + 1 => canLag' <= 1
    BY <1>1, <1>2, <1>3, Schedule DEF CanServed
  <2>9. ~polling /\ drive = "test" /\ bad = 0
          => canLag' <= 1 + Lost(RollbackLimit - 1) + (ecatLag + 1)
    BY <1>2, <1>3, <2>2 DEF IInv, LagInv
  <2>10. drive = "test" => bad < RollbackLimit
    BY DEF IInv, LagInv
  <2> QED BY <1>1, <1>3, <1>5, <2>1, <2>4, <2>5, <2>6, <2>7, <2>8, <2>9, <2>10
          DEF LagInv, Due
<1>7. Watched' => Watched
  <2>1. SUFFICES ASSUME drive = "test", Calm, canLag > 0 PROVE Calm' /\ canLag' > 0
    BY <1>1 DEF Watched
  <2>2. ecatLag <= AnswerTicks /\ ecatLag' = ecatLag + 1
    BY <1>1, <1>2, <2>1, Schedule DEF Calm, CanServed, Gone
  <2> QED BY <1>1, <1>2, <1>3, <2>1, <2>2, Schedule DEF Calm
<1> QED BY <1>3, <1>4, <1>6, <1>7

LEMMA TickKeeps == ASSUME IInv, Tick PROVE IInv'
<1> DEFINE stamp == IF can.pc = "publish"
                    THEN Older(can.stamp, CmdTimeout + Late) ELSE can.stamp
<1>1. /\ cmdAge' = Older(cmdAge, CmdTimeout + Late)
      /\ hbAge' = Older(hbAge, HbTimeout + Late)
      /\ can' = [can EXCEPT !.stamp = stamp]
      /\ UNCHANGED <<traj, flags, latch, cause>> /\ UNCHANGED ecatVars
      /\ UNCHANGED polling
  BY DEF Tick
<1>2. /\ LagInv' /\ (Watched' => Watched)
      /\ canLag' \in 0..MaxLag /\ ecatLag' \in 0..PollTicks
      /\ canLag' < MaxLag => canLag < MaxLag /\ canLag' = canLag + 1
  BY TickLag
<1>3. stamp \in 0..CmdTimeout + Late /\ stamp <= can.stamp + 1
      /\ (can.pc # "publish" => stamp = can.stamp)
  BY Numbers DEF Older
<1>4. /\ can' \in CanTypes /\ can'.pc = can.pc /\ can'.stamp = stamp
      /\ can'.cmd = can.cmd /\ can'.hb = can.hb /\ can'.hold = can.hold
  BY <1>1, <1>3, CanTyped DEF CanTypes
<1> HIDE DEF stamp
<1>5. /\ cmdAge = Never => cmdAge' = Never
      /\ hbAge = Never => hbAge' = Never
      /\ \A n \in Nat : cmdAge \in 0..n => cmdAge' \in 0..n + 1
      /\ \A n \in Nat : hbAge \in 0..n => hbAge' \in 0..n + 1
      /\ cmdAge' \in CmdAges /\ hbAge' \in HbAges
  BY <1>1, Numbers DEF Older, Never, CmdAges, HbAges
<1>6. TypeOK'
  BY <1>1, <1>2, <1>4, <1>5
     DEF IInv, TypeOK, ecatVars, CanTypes, Pcs, Judgements
<1>7. BufferInv' /\ DriveInv'
  BY <1>1, CanDrive DEF IInv, BufferInv
<1>8. LocalsInv'
  BY <1>1, <1>2, <1>3, <1>4, Numbers DEF IInv, LocalsInv
<1>9. \A done \in BOOLEAN :
        /\ Fresh(cmdAge, CmdTimeout, done) => Fresh(cmdAge, CmdTimeout, done)'
        /\ Fresh(hbAge, HbTimeout, done) => Fresh(hbAge, HbTimeout, done)'
  <2> SUFFICES ASSUME NEW done \in BOOLEAN,
                      canLag < MaxLag, canLag' = canLag + 1, done \/ Watched
               PROVE  LET c == IF done THEN CmdTimeout - 1 ELSE CmdTimeout + Starved
                          h == IF done THEN HbTimeout - 1 ELSE HbTimeout + Starved
                      IN  /\ cmdAge \in 0..c + canLag => cmdAge' \in 0..c + canLag'
                          /\ hbAge \in 0..h + canLag => hbAge' \in 0..h + canLag'
    BY <1>2 DEF Fresh
  <2> DEFINE c == IF done THEN CmdTimeout - 1 ELSE CmdTimeout + Starved
             h == IF done THEN HbTimeout - 1 ELSE HbTimeout + Starved
  <2>1. c + canLag \in Nat /\ h + canLag \in Nat
        /\ c + canLag' = c + canLag + 1 /\ h + canLag' = h + canLag + 1
    BY Numbers
  <2> HIDE DEF c, h
  <2>2. /\ cmdAge \in 0..c + canLag => cmdAge' \in 0..c + canLag'
        /\ hbAge \in 0..h + canLag => hbAge' \in 0..h + canLag'
    BY <1>5, <2>1
  <2> QED BY <2>2 DEF c, h
<1>10. HeartbeatInv'
  BY <1>1, <1>4, <1>5, <1>9 DEF IInv, HeartbeatInv, HbDone
<1>11. CommandInv'
  <2>1. /\ can'.pc = can.pc /\ IsHold(traj') = IsHold(traj) /\ Opening' = Opening
        /\ CmdDone' = CmdDone /\ CmdDone \in BOOLEAN /\ TRUE \in BOOLEAN
    BY <1>1, <1>4 DEF Opening, CmdDone
  <2> QED BY <2>1, <1>1, <1>4, <1>5, <1>9 DEF IInv, CommandInv
<1> QED BY <1>2, <1>6, <1>7, <1>8, <1>10, <1>11 DEF IInv

LEMMA NextIInv == IInv /\ [Next]_vars => IInv'
<1> SUFFICES ASSUME IInv, [Next]_vars PROVE IInv'
  OBVIOUS
<1>1. CASE UNCHANGED vars
  BY <1>1 DEF vars, canVars, ecatVars, timeVars, IInv, TypeOK, BufferInv, DriveInv,
              LocalsInv, HeartbeatInv, CommandInv, Fresh, HbDone, CmdDone, Opening,
              LagInv, Watched, Calm, Due, Gone
<1> QED BY <1>1, CanKeeps, EcatKeeps, TickKeeps DEF Next

-----------------------------------------------------------------------------
(* The inductive invariant holds of every reachable state.                 *)
THEOREM LoopInvariant == Spec => []IInv
<1> QED BY InitIInv, NextIInv, PTL DEF Spec

(* The variables have their types, the report tracks the drives and what   *)
(* a cycle takes it can stage.                                             *)
THEOREM LoopIsSafe == Spec => []LoopSafe
<1>1. IInv => LoopSafe
  BY DEF IInv, DriveInv, Follows, LoopSafe, ReportTracksDrives, StageNeverFails
<1> QED BY <1>1, LoopInvariant, PTL

(* A silent host has raised the safety request before a cycle of TEST that *)
(* late begins, however the tolerated losses and the passes fall.          *)
THEOREM SilenceIsNoticed == Spec => []SilenceLatches
<1>1. IInv => SilenceLatches
  <2> SUFFICES ASSUME IInv, drive = "test", Due
               PROVE  /\ hbAge = HbTimeout + Late => latch
                      /\ cmdAge = CmdTimeout + Late /\ ~IsHold(traj) /\ can.pc # "publish"
                           => latch
    BY DEF SilenceLatches
  <2>0. Watched /\ canLag <= Starved /\ canLag \in Nat /\ canLag < MaxLag
    BY TestLag, Numbers
  <2>1. ~latch => hbAge # HbTimeout + Late
    BY <2>0, Numbers DEF IInv, HeartbeatInv, Fresh, Never
  <2>2. ~latch /\ ~IsHold(traj) /\ can.pc # "publish" => cmdAge # CmdTimeout + Late
    BY <2>0, Numbers DEF IInv, CommandInv, Fresh, Never
  <2> QED BY <2>1, <2>2
<1> QED BY <1>1, LoopInvariant, PTL

-----------------------------------------------------------------------------
(* Only the cycle that takes a point stages one.                           *)
LEMMA OnlyTestPointLoads == IInv /\ [Next]_vars /\ Loads => TestPoint
<1> DEFINE Stages == ~(traj'.staged = traj.staged \/ traj'.staged.seq = NoSeq)
<1> SUFFICES ASSUME IInv, [Next]_vars, Stages PROVE TestPoint
  BY DEF Loads
<1>0. ContextInv(Point, traj) /\ Chain(traj)
  BY DEF IInv, BufferInv
<1>1. ASSUME NEW c \in HoldReasons, traj' \in {RequireReset(traj, c), RequireReset(Confirmed, c)}
      PROVE  FALSE
  BY <1>0, <1>1, AfterExchange, HoldEffect
<1>2. traj' # traj /\ traj' # Confirmed
  BY AfterExchange
<1>3. ~CanReceive
  <2>1. ~RxHold /\ ~RxQuickStop
    <3>1. {"EXPLICIT_0X180", "QUICK_STOP"} \subseteq HoldReasons
      BY DEF HoldReasons
    <3> QED BY <3>1, <1>1 DEF RxHold, RxQuickStop
  <2>2. ASSUME NEW q \in ResetSeqs, RxReset(q) PROVE FALSE
    BY <2>2, <1>0, LoopAssumption, PointHasSeq, ResetEffect DEF RxReset
  <2>3. ASSUME NEW q \in {traj.expected, SeqInc(traj.expected)}, RxApply(q) PROVE FALSE
    <3>1. q \in Seqs
      BY IncTypes DEF IInv, TypeOK, Context
    <3> QED BY <2>3, <3>1, <1>0, PointHasSeq, PushEffect DEF RxApply
  <2> QED BY <2>1, <2>2, <2>3, <1>2 DEF CanReceive, RxPublish, RxQuickStopLatch, RxHeartbeat
<1>4. ~CanWake /\ ~CheckTimeout /\ ~Tick /\ ~CycleStart /\ ~UNCHANGED vars
  BY <1>2 DEF CycleStart, CanWake, CheckTimeout, CheckSample, CheckIsHold, CheckCommand,
              CheckCommandLatch, CheckHeartbeat, CheckHeartbeatLatch, Tick, vars
<1>5. EcatCycle => TestPoint
  <2>1. ~CycleMissing /\ ~CycleFailed /\ ~CycleEnabling /\ ~CycleStopped
    BY <1>1, <1>2, HoldCauses DEF CycleMissing, CycleFailed, CycleEnabling, CycleStopped
  <2>2. ~TestQuickStop /\ ~TestDriveFault /\ ~TestNotCsp /\ ~TestTimeoutHold
    BY <1>1, HoldCauses DEF TestQuickStop, TestDriveFault, TestNotCsp, TestTimeoutHold
  <2>3. ASSUME NEW expired \in BOOLEAN, TestNoPoint(expired) PROVE FALSE
    BY <2>3, AfterExchange, TakeEffect DEF TestNoPoint
  <2> QED BY <1>4, <2>1, <2>2, <2>3 DEF EcatCycle, HandleTest
<1> QED BY <1>3, <1>4, <1>5 DEF Next, CanTask

(* What the cycle that takes a point found.                                *)
LEMMA TakesFromAStream ==
  ASSUME IInv, TestPoint
  PROVE  /\ ~IsHold(traj) /\ ~latch /\ ~flags.timedOut /\ flags.online
         /\ ~(traj.state = "PREFILL" /\ traj.count = 1 /\ Prefill > 1)
         /\ drive = "test" /\ polling /\ ecatLag <= AnswerTicks
BY AfterExchange, StageEffect DEF TestPoint, MayTake, IsHold, Exchanged, Cycle

(* Once a quick stop or a timeout was noticed no further point is loaded,  *)
(* whatever the host sends.                                                *)
THEOREM StopsAreFinal == Spec => StopIsFinal
<1>1. IInv /\ [Next]_vars => (latch \/ can.pc = "quickStop" => ~Loads)
  BY OnlyTestPointLoads, TakesFromAStream DEF IInv, LocalsInv
<1> QED BY <1>1, LoopInvariant, PTL DEF Spec, StopIsFinal

(* The dead man's switch, for every timeout: with a prefill of one point   *)
(* the first point of a stream could be played before the command that     *)
(* brought it is stamped, so a prefill of at least two is assumed.         *)
THEOREM DeadMansSwitch == ASSUME Prefill > 1 PROVE Spec => OnlyWithLiveHost
<1> DEFINE Live == /\ cmdAge \in 0..CmdTimeout + 2 * Starved
                   /\ hbAge \in 0..HbTimeout + 2 * Starved
<1>1. IInv /\ [Next]_vars => (Loads => Live)
  <2> SUFFICES ASSUME IInv, [Next]_vars, Loads PROVE Live
    OBVIOUS
  <2>1. /\ ~IsHold(traj) /\ ~flags.timedOut /\ flags.online /\ ~Opening
    BY OnlyTestPointLoads, TakesFromAStream DEF Opening
  <2>2. Fresh(cmdAge, CmdTimeout, CmdDone) /\ Fresh(hbAge, HbTimeout, HbDone)
    BY <2>1 DEF IInv, CommandInv, HeartbeatInv
  <2>3. Watched /\ canLag <= Starved /\ canLag \in Nat /\ canLag < MaxLag
    BY OnlyTestPointLoads, TakesFromAStream, TestLag, Numbers
  <2> QED BY <2>2, <2>3, Numbers DEF Fresh
<1> QED BY <1>1, LoopInvariant, PTL DEF Spec, OnlyWithLiveHost

=============================================================================
