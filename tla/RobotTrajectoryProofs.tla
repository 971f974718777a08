----------------------- MODULE RobotTrajectoryProofs -----------------------
(***************************************************************************)
(* RobotTrajectory satisfies its invariants and implements TrajectoryStream*)
(* for every value of its constants.                                       *)
(***************************************************************************)
EXTENDS RobotTrajectory, TrajectoryContextProofs, SequenceTheorems

(* Between the exchange and the next Stage nothing is staged.              *)
StagedOnlyBeforeExchange ==
  consumer \in {"take", "stage"} => traj.staged.seq = NoSeq

(* The inductive invariant: the context's own, the chain of executed,      *)
(* staged, taken and queued points, and where in its cycle the consumer    *)
(* may have a point staged.                                                *)
IInv ==
  /\ ContextInv(Point, traj)
  /\ now \in Ticks
  /\ consumer \in {"confirm", "take", "stage", "failed", "lost"}
  /\ taken \in [point : Point, gen : Gens]
  /\ PlaybackConsecutive
  /\ StagedOnlyBeforeExchange

-----------------------------------------------------------------------------
LEMMA PointHasSeq == HasSeq(Point)
BY DEF HasSeq, Point

LEMMA TickTypes == \A n \in Ticks : (n + 1) % TickMod \in Ticks
BY TickAssumption DEF Ticks

LEMMA ZeroTypes ==
  /\ ZeroPoint \in Point
  /\ 0 \in Ticks
  /\ now \in Ticks => NewPoints \subseteq Point
BY TickAssumption, IncTypes DEF ZeroPoint, Point, NewPoints, Ticks

LEMMA InitIInv == Init => IInv
<1> SUFFICES ASSUME Init PROVE IInv
  OBVIOUS
<1>1. ContextInv(Point, traj)
  BY ZeroTypes, InitContextInv DEF Init
<1>2. traj.resetRequired /\ consumer = "confirm"
  BY DEF Init, InitContext
<1> QED BY <1>1, <1>2, ZeroTypes, IncTypes
        DEF Init, IInv, PlaybackConsecutive, StagedOnlyBeforeExchange

(* A step that leaves the context in HOLD satisfies the chain trivially.   *)
LEMMA HoldStep ==
  ASSUME IInv, NEW cause \in HoldReasons, traj' = RequireReset(traj, cause)
  PROVE  /\ ContextInv(Point, traj)'
         /\ PlaybackConsecutive'
         /\ traj'.staged.seq = NoSeq
<1>1. ContextInv(Point, traj)'
  <2>1. ContextInv(Point, RequireReset(traj, cause))
    BY RequireResetInv DEF IInv
  <2> QED BY <2>1
<1>2. traj'.resetRequired /\ traj'.staged = NoStaged
  BY DEF IInv, ContextInv, RequireReset, Context
<1> QED BY <1>1, <1>2 DEF PlaybackConsecutive, NoStaged

LEMMA ProducerStep == IInv /\ Producer => IInv'
<1> SUFFICES ASSUME IInv, Producer PROVE IInv'
  OBVIOUS
<1>1. ASSUME NEW cause \in {"EXPLICIT_0X180", "QUICK_STOP"}, ProducerHold(cause)
      PROVE  IInv'
  <2>1. cause \in HoldReasons
    BY DEF HoldReasons
  <2> QED BY <1>1, <2>1, HoldStep DEF ProducerHold, IInv, StagedOnlyBeforeExchange
<1>2. ASSUME NEW p \in NewPoints, ProducerReset(p)
      PROVE  IInv'
  <2>1. p \in Point
    BY ZeroTypes DEF IInv
  <2>2. ContextInv(Point, ResetAndPush(traj, p))
    BY <2>1, PointHasSeq, ResetAndPushInv DEF IInv
  <2>3. /\ traj'.state = "PREFILL" /\ traj'.staged = NoStaged
        /\ traj'.executed = NoSeq
    BY <1>2 DEF ProducerReset, ResetAndPush, IInv, ContextInv, Context
  <2>4. PlaybackConsecutive'
    BY <2>3 DEF PlaybackConsecutive, InHand, IsCurrent, NoStaged
  <2> QED BY <1>2, <2>2, <2>3, <2>4
          DEF ProducerReset, IInv, StagedOnlyBeforeExchange, NoStaged
<1>3. ASSUME NEW p \in NewPoints, ProducerPush(p)
      PROVE  IInv'
  <2>1. p \in Point
    BY ZeroTypes DEF IInv
  <2>2. ContextInv(Point, traj)'
    <3>1. ContextInv(Point, Push(traj, p))
      BY <2>1, PointHasSeq, PushInv DEF IInv
    <3> QED BY <1>3, <3>1 DEF ProducerPush
  <2>3. PushResult(traj, p) \in {"RESET_REQUIRED", "SEQUENCE_ERROR", "FULL", "OK"}
    BY DEF PushResult
  <2>4. CASE PushResult(traj, p) = "RESET_REQUIRED"
    <3>1. UNCHANGED vars
      BY <1>3, <2>4 DEF ProducerPush, Push, vars
    <3> QED BY <3>1, <2>2 DEF vars, IInv, PlaybackConsecutive, InHand,
                              StagedOnlyBeforeExchange
  <2>5. CASE PushResult(traj, p) \in {"SEQUENCE_ERROR", "FULL"}
    <3>1. PICK cause \in HoldReasons : traj' = RequireReset(traj, cause)
      BY <1>3, <2>5 DEF ProducerPush, Push, HoldReasons
    <3> QED BY <1>3, <3>1, HoldStep DEF ProducerPush, IInv, StagedOnlyBeforeExchange
  <2>6. CASE PushResult(traj, p) = "OK"
    <3>1. traj' = Enqueue(traj, p)
      BY <1>3, <2>6 DEF ProducerPush, Push
    <3>2. /\ NextToPlay(traj') = NextToPlay(traj)
          /\ traj'.state = traj.state
          /\ traj'.resetRequired = traj.resetRequired
          /\ traj'.generation = traj.generation
          /\ traj'.staged = traj.staged
          /\ traj'.executed = traj.executed
      BY <2>1, <2>6, <3>1, PointHasSeq, EnqueueKeepsNext DEF IInv
    <3>3. UNCHANGED <<consumer, taken, now>>
      BY <1>3 DEF ProducerPush
    <3>4. InHand' = InHand
      BY <3>2, <3>3 DEF InHand, IsCurrent
    <3>5. PlaybackConsecutive'
      BY <3>2, <3>3, <3>4 DEF IInv, PlaybackConsecutive
    <3> QED BY <2>2, <3>2, <3>3, <3>5 DEF IInv, StagedOnlyBeforeExchange
  <2> QED BY <2>3, <2>4, <2>5, <2>6
<1> QED BY <1>1, <1>2, <1>3 DEF Producer

LEMMA ConsumerStep == IInv /\ Consumer => IInv'
<1> SUFFICES ASSUME IInv, Consumer PROVE IInv'
  OBVIOUS
<1> USE DEF StagedOnlyBeforeExchange
<1>1. CASE ConsumerConfirm
  <2>1. ContextInv(Point, ConfirmExecution(traj))
    BY ConfirmInv DEF IInv
  <2>2. /\ traj'.staged = NoStaged
        /\ traj'.executed = IF traj.staged.seq # NoSeq /\ IsCurrent(traj, traj.staged.gen)
                            THEN traj.staged.seq ELSE traj.executed
        /\ traj'.state = traj.state /\ traj'.resetRequired = traj.resetRequired
        /\ traj'.generation = traj.generation
        /\ NextToPlay(traj') = NextToPlay(traj)
    BY <1>1 DEF ConsumerConfirm, ConfirmExecution, IInv, ContextInv, Context,
                NextToPlay, HeadPoint
  <2>3. traj.staged.seq # NoSeq => IsCurrent(traj, traj.staged.gen)
    BY DEF IInv, ContextInv, ContextFlagsAgree
  <2>4. ~InHand /\ ~InHand'
    BY <1>1 DEF ConsumerConfirm, InHand
  <2>5. PlaybackConsecutive'
    BY <2>2, <2>3, <2>4 DEF IInv, PlaybackConsecutive, NoStaged
  <2> QED BY <1>1, <2>1, <2>2, <2>5 DEF ConsumerConfirm, IInv, NoStaged
<1>2. ASSUME NEW cause \in {"CSP_TIMEOUT", "ETHERCAT_NOT_OP"}, ConsumerHold(cause)
      PROVE  IInv'
  <2>1. cause \in HoldReasons
    BY DEF HoldReasons
  <2> QED BY <1>2, <2>1, HoldStep DEF ConsumerHold, IInv
<1>3. CASE ConsumerTake
  <2> DEFINE e == Expired(HeadPoint(traj))
             r == TakeResult(traj, e)
             s == Started(traj)
  <2>0. /\ e \in BOOLEAN
        /\ traj' = Take(traj, e)
        /\ consumer = "take"
        /\ consumer' = IF r = "POINT" THEN "stage" ELSE "confirm"
        /\ taken' = IF r = "POINT"
                    THEN [point |-> HeadPoint(traj), gen |-> traj.generation]
                    ELSE taken
        /\ now' = now
    BY <1>3 DEF ConsumerTake, Expired
  <2> HIDE DEF e
  <2>1. /\ ContextInv(Point, traj)'
        /\ ContextInv(Point, s)
        /\ s.count = traj.count /\ s.head = traj.head /\ s.points = traj.points
    BY <2>0, TakeInv, StartedInv DEF IInv
  <2>2. r \in {"HOLD", "WAIT", "GRACE", "UNDERRUN", "EXPIRED", "POINT"}
    BY <2>0, TakeResults DEF IInv
  <2>3. traj.staged.seq = NoSeq
    BY <2>0 DEF IInv
  <2>4. /\ s.resetRequired = traj.resetRequired
        /\ s.executed = traj.executed /\ s.staged = traj.staged
        /\ s.generation = traj.generation
        /\ NextToPlay(s) = NextToPlay(traj) /\ HeadPoint(s) = HeadPoint(traj)
    BY DEF IInv, ContextInv, Context, Started, NextToPlay, HeadPoint
  <2>5. CASE r \in {"HOLD", "WAIT"}
    <3>1. traj' = traj /\ taken' = taken /\ ~InHand /\ ~InHand'
      BY <2>0, <2>5 DEF Take, InHand
    <3> QED BY <2>0, <2>1, <2>5, <3>1 DEF IInv, PlaybackConsecutive
  <2>6. CASE r = "GRACE"
    <3>1. traj' = [s EXCEPT !.grace = @ + 1] /\ taken' = taken /\ ~InHand /\ ~InHand'
      BY <2>0, <2>6 DEF Take, InHand
    <3>2. /\ traj'.resetRequired = s.resetRequired
          /\ traj'.executed = s.executed /\ traj'.staged = s.staged
          /\ NextToPlay(traj') = NextToPlay(s)
      BY <2>1, <3>1 DEF ContextInv, Context, NextToPlay, HeadPoint
    <3>3. PlaybackConsecutive'
      BY <2>3, <2>4, <3>1, <3>2 DEF IInv, PlaybackConsecutive
    <3> QED BY <2>0, <2>1, <2>6, <3>1, <3>3 DEF IInv
  <2>7. CASE r \in {"UNDERRUN", "EXPIRED"}
    <3>1. PICK cause \in HoldReasons : traj' = RequireReset(s, cause)
      BY <2>0, <2>7 DEF Take, HoldReasons
    <3>2. traj'.resetRequired /\ taken' = taken /\ consumer' = "confirm"
      BY <2>0, <2>1, <2>7, <3>1 DEF RequireReset, ContextInv, Context
    <3> QED BY <2>0, <2>1, <3>2 DEF IInv, PlaybackConsecutive
  <2>8. CASE r = "POINT"
    <3>1. s.state = "RUNNING" /\ s.count > 0
      BY <2>0, <2>8, TakeResults DEF IInv
    <3>2. traj' = Dequeue(s)
      BY <2>0, <2>8 DEF Take
    <3>3. /\ HeadPoint(s) \in Point
          /\ HeadPoint(s).seq = NextToPlay(s)
          /\ SeqInc(HeadPoint(s).seq) = NextToPlay(traj')
          /\ traj'.resetRequired = s.resetRequired
          /\ traj'.staged = s.staged
          /\ traj'.executed = s.executed
          /\ traj'.state = s.state /\ traj'.generation = s.generation
      BY <2>1, <3>1, <3>2, DequeueAdvancesNext
    <3>4. /\ taken' = [point |-> HeadPoint(s), gen |-> traj.generation]
          /\ traj.generation \in Gens /\ consumer' = "stage"
      BY <2>0, <2>4, <2>8 DEF IInv, ContextInv, Context
    <3>5. ~InHand /\ (InHand' <=> ~traj.resetRequired)
      BY <2>0, <2>4, <3>1, <3>3, <3>4 DEF InHand, IsCurrent
    <3>6. PlaybackConsecutive'
      BY <2>3, <2>4, <3>3, <3>4, <3>5 DEF IInv, PlaybackConsecutive
    <3> QED BY <2>0, <2>1, <2>3, <2>4, <3>3, <3>4, <3>6 DEF IInv
  <2> QED BY <2>2, <2>5, <2>6, <2>7, <2>8
<1>4. CASE ConsumerStage
  <2> DEFINE q == taken.point.seq
             g == taken.gen
  <2>0. q \in Seqs /\ g \in Gens /\ q # NoSeq
    BY ContextAssumption DEF IInv, Point, Seqs, NoSeq
  <2>1. ContextInv(Point, traj)'
    <3>1. ContextInv(Point, Stage(traj, q, g))
      BY <2>0, StageInv DEF IInv
    <3> QED BY <1>4, <3>1 DEF ConsumerStage
  <2>2. CASE CanStage(traj, g)
    <3>1. /\ traj' = [traj EXCEPT !.staged = [seq |-> q, gen |-> g]]
          /\ consumer' = "confirm" /\ UNCHANGED <<now, taken>>
      BY <1>4, <2>2 DEF ConsumerStage, Stage
    <3>2. /\ traj'.staged.seq = q
          /\ traj'.resetRequired = traj.resetRequired
          /\ traj'.executed = traj.executed
          /\ NextToPlay(traj') = NextToPlay(traj)
      BY <3>1 DEF IInv, ContextInv, Context, NextToPlay, HeadPoint
    <3>3. InHand /\ ~InHand' /\ traj.staged.seq = NoSeq
      BY <1>4, <2>2, <3>1 DEF ConsumerStage, InHand, CanStage
    <3>4. PlaybackConsecutive'
      BY <2>0, <3>1, <3>2, <3>3 DEF IInv, PlaybackConsecutive
    <3> QED BY <2>1, <3>1, <3>4 DEF IInv
  <2>3. CASE ~CanStage(traj, g)
    <3>1. traj' = traj /\ consumer' = "failed" /\ UNCHANGED <<now, taken>>
      BY <1>4, <2>3 DEF ConsumerStage, Stage
    <3>2. ~InHand /\ ~InHand'
      BY <1>4, <2>3, <3>1 DEF ConsumerStage, InHand, CanStage, IInv
    <3>3. PlaybackConsecutive'
      BY <3>1, <3>2 DEF IInv, PlaybackConsecutive
    <3> QED BY <2>1, <3>1, <3>3 DEF IInv
  <2> QED BY <2>2, <2>3
<1>5. CASE ConsumerGiveUp
  <2>1. "INTERNAL_ERROR" \in HoldReasons
    BY DEF HoldReasons
  <2> QED BY <1>5, <2>1, HoldStep DEF ConsumerGiveUp, IInv
<1> QED BY <1>1, <1>2, <1>3, <1>4, <1>5 DEF Consumer

LEMMA NextIInv == IInv /\ [Next]_vars => IInv'
<1> SUFFICES ASSUME IInv, [Next]_vars PROVE IInv'
  OBVIOUS
<1>1. CASE Tick
  <2>1. UNCHANGED <<traj, consumer, taken>> /\ now' \in Ticks
    BY <1>1, TickTypes DEF Tick, IInv
  <2> QED BY <2>1 DEF IInv, PlaybackConsecutive, InHand, StagedOnlyBeforeExchange
<1>2. CASE UNCHANGED vars
  BY <1>2 DEF vars, IInv, PlaybackConsecutive, InHand, StagedOnlyBeforeExchange
<1> QED BY <1>1, <1>2, ProducerStep, ConsumerStep DEF Next

-----------------------------------------------------------------------------
(* The inductive invariant holds of every reachable state.                 *)
THEOREM IInvHolds == Spec => []IInv
<1> QED BY InitIInv, NextIInv, PTL DEF Spec

(* The variables have their types.                                         *)
THEOREM TypeCorrect == Spec => []TypeOK
<1>1. IInv => TypeOK
  BY DEF IInv, ContextInv, TypeOK
<1> QED BY <1>1, IInvHolds, PTL

(* The buffer is well formed: types, flags, indices and depth agree, and   *)
(* its queue is consecutive.                                               *)
THEOREM BufferCorrect == Spec => []BufferSafe
<1>1. IInv => FlagsAgree /\ QueueConsecutive
  BY DEF IInv, ContextInv, FlagsAgree, QueueConsecutive
<1> QED BY <1>1, IInvHolds, TypeCorrect, PTL DEF BufferSafe

(* No point of a stream is skipped, repeated, or played out of order.      *)
THEOREM PlaybackCorrect == Spec => []PlaybackConsecutive
<1>1. IInv => PlaybackConsecutive
  BY DEF IInv
<1> QED BY <1>1, IInvHolds, PTL

-----------------------------------------------------------------------------
(* The effects a step can have on the context and on the taken point.      *)
Holds    == \E c \in HoldReasons : traj' = RequireReset(traj, c)
Reopens  == \E p \in Point : traj' = ResetAndPush(traj, p)
Appends  == \E p \in Point : PushResult(traj, p) = "OK" /\ traj' = Enqueue(traj, p)
Waits    == /\ traj.state = "RUNNING" /\ traj.count = 0
            /\ traj' = [traj EXCEPT !.grace = @ + 1]
Delivers == /\ ~traj.resetRequired /\ traj.count > 0
            /\ Started(traj).state = "RUNNING"
            /\ traj' = Dequeue(Started(traj))
            /\ taken'.point = HeadPoint(traj)
Stages   == CanStage(traj, taken.gen) /\ traj' = Stage(traj, taken.point.seq, taken.gen)
Confirms == traj' = ConfirmExecution(traj)

LEMMA StepEffects ==
  IInv /\ [Next]_vars =>
    \/ Delivers
    \/ /\ taken' = taken
       /\ traj' = traj \/ Holds \/ Reopens \/ Appends \/ Waits \/ Stages \/ Confirms
<1> SUFFICES ASSUME IInv, [Next]_vars
             PROVE  \/ Delivers
                    \/ /\ taken' = taken
                       /\ \/ traj' = traj \/ Holds \/ Reopens \/ Appends \/ Waits
                          \/ Stages \/ Confirms
  OBVIOUS
<1>1. CASE Producer
  <2>1. ASSUME NEW cause \in {"EXPLICIT_0X180", "QUICK_STOP"}, ProducerHold(cause)
        PROVE  taken' = taken /\ Holds
    BY <2>1 DEF ProducerHold, Holds, HoldReasons
  <2>2. ASSUME NEW p \in NewPoints, ProducerReset(p)
        PROVE  taken' = taken /\ Reopens
    BY <2>2, ZeroTypes DEF ProducerReset, Reopens, IInv
  <2>3. ASSUME NEW p \in NewPoints, ProducerPush(p)
        PROVE  taken' = taken /\ (traj' = traj \/ Holds \/ Appends)
    <3>1. p \in Point
      BY ZeroTypes DEF IInv
    <3>2. /\ PushResult(traj, p) \in {"RESET_REQUIRED", "SEQUENCE_ERROR", "FULL", "OK"}
          /\ {"SEQUENCE_ERROR", "QUEUE_OVERFLOW"} \subseteq HoldReasons
      BY DEF PushResult, HoldReasons
    <3> QED BY <2>3, <3>1, <3>2 DEF ProducerPush, Push, Holds, Appends
  <2> QED BY <1>1, <2>1, <2>2, <2>3 DEF Producer
<1>2. CASE Consumer
  <2>1. CASE ConsumerConfirm
    BY <2>1 DEF ConsumerConfirm, Confirms
  <2>2. ASSUME NEW cause \in {"CSP_TIMEOUT", "ETHERCAT_NOT_OP"}, ConsumerHold(cause)
        PROVE  taken' = taken /\ Holds
    BY <2>2 DEF ConsumerHold, Holds, HoldReasons
  <2>3. CASE ConsumerTake
    <3> DEFINE e == Expired(HeadPoint(traj))
               r == TakeResult(traj, e)
    <3>1. /\ traj' = Take(traj, e)
          /\ taken' = IF r = "POINT"
                      THEN [point |-> HeadPoint(traj), gen |-> traj.generation]
                      ELSE taken
          /\ e \in BOOLEAN
      BY <2>3 DEF ConsumerTake, Expired
    <3> HIDE DEF e
    <3>2. r \in {"HOLD", "WAIT", "GRACE", "UNDERRUN", "EXPIRED", "POINT"}
      BY <3>1, TakeResults DEF IInv
    <3>3. /\ traj.count \in Nat
          /\ traj.state = "PREFILL" => traj.count > 0
          /\ Started(traj).count = traj.count
      BY StartedInv DEF IInv, ContextInv, Context, ContextFlagsAgree
    <3>4. CASE r \in {"HOLD", "WAIT"}
      BY <3>1, <3>4 DEF Take
    <3>5. CASE r = "GRACE"
      <4>1. Started(traj).state = "RUNNING" /\ traj.count = 0
        BY <3>5 DEF TakeResult
      <4>2. Started(traj) = traj
        BY <4>1, <3>3 DEF Started
      <4>3. traj' = [Started(traj) EXCEPT !.grace = @ + 1]
        BY <3>1, <3>5 DEF Take
      <4>4. Waits
        BY <4>1, <4>2, <4>3 DEF Waits
      <4> QED BY <4>4, <3>1, <3>5
    <3>6. CASE r \in {"UNDERRUN", "EXPIRED"}
      <4>1. PICK c \in HoldReasons : traj' = RequireReset(Started(traj), c)
        BY <3>1, <3>6 DEF Take, HoldReasons
      <4>2. RequireReset(Started(traj), c) = RequireReset(traj, c)
        BY DEF RequireReset, Started, IInv, ContextInv, Context
      <4> QED BY <4>1, <4>2, <3>1, <3>6 DEF Holds
    <3>7. CASE r = "POINT"
      <4>1. ~traj.resetRequired /\ Started(traj).state = "RUNNING" /\ traj.count > 0
        BY <3>3, <3>7 DEF TakeResult
      <4>2. traj' = Dequeue(Started(traj)) /\ taken'.point = HeadPoint(traj)
        BY <3>1, <3>7 DEF Take
      <4> QED BY <4>1, <4>2 DEF Delivers
    <3> QED BY <3>2, <3>4, <3>5, <3>6, <3>7
  <2>4. CASE ConsumerStage
    BY <2>4 DEF ConsumerStage, Stages, Stage
  <2>5. CASE ConsumerGiveUp
    BY <2>5 DEF ConsumerGiveUp, Holds, HoldReasons
  <2> QED BY <1>2, <2>1, <2>2, <2>3, <2>4, <2>5 DEF Consumer
<1>3. CASE Tick
  BY <1>3 DEF Tick
<1>4. CASE UNCHANGED vars
  BY <1>4 DEF vars
<1> QED BY <1>1, <1>2, <1>3, <1>4 DEF Next

-----------------------------------------------------------------------------
(* Within one generation the reported sequence number advances one by one. *)
THEOREM ExecutedCorrect == Spec => ExecutedStepsByOne
<1> DEFINE A == traj'.generation = traj.generation /\ traj.executed # NoSeq =>
                  \/ traj'.executed = traj.executed
                  \/ traj'.executed = SeqInc(traj.executed)
<1>1. ASSUME IInv, [Next]_vars PROVE A
  <2>0. /\ traj \in Context(Point) /\ traj.generation \in Gens
        /\ ContextFlagsAgree(traj)
    BY <1>1 DEF IInv, ContextInv, Context
  <2>1. CASE traj' = traj \/ Holds \/ Appends \/ Waits \/ Stages \/ Delivers
    <3>1. traj'.executed = traj.executed
      BY <2>0, <2>1 DEF Holds, Appends, Waits, Stages, Delivers, RequireReset,
                        Enqueue, Stage, Dequeue, Started, Context
    <3> QED BY <3>1
  <2>2. CASE Reopens
    <3>1. traj'.generation = GenInc(traj.generation)
      BY <2>0, <2>2 DEF Reopens, ResetAndPush, Context
    <3>2. traj'.generation # traj.generation
      BY <2>0, <3>1, ContextAssumption DEF GenInc, Gens
    <3> QED BY <3>2
  <2>3. CASE Confirms
    <3>1. traj'.executed = IF traj.staged.seq # NoSeq /\ IsCurrent(traj, traj.staged.gen)
                           THEN traj.staged.seq ELSE traj.executed
      BY <2>0, <2>3 DEF Confirms, ConfirmExecution, Context
    <3>2. traj.staged.seq # NoSeq => ~traj.resetRequired
      BY <2>0 DEF ContextFlagsAgree, IsCurrent
    <3>3. traj.staged.seq # NoSeq /\ traj.executed # NoSeq
            => SeqInc(traj.executed) = traj.staged.seq
      BY <1>1, <3>2 DEF IInv, PlaybackConsecutive
    <3> QED BY <3>1, <3>3
  <2> QED BY <1>1, <2>1, <2>2, <2>3, StepEffects
<1>2. IInv /\ [Next]_vars => [A]_vars
  BY <1>1
<1> QED BY <1>2, IInvHolds, PTL DEF Spec, ExecutedStepsByOne

(* Only a RESET point leaves HOLD, and nothing is played meanwhile.        *)
THEOREM HoldCorrect == Spec => HoldUntilReset
<1> DEFINE A == traj.state = "HOLD" =>
                  \/ traj'.generation # traj.generation /\ traj'.state = "PREFILL"
                  \/ /\ traj'.state = "HOLD"
                     /\ traj'.executed = traj.executed
                     /\ traj'.staged.seq = NoSeq
                     /\ taken' = taken
<1>1. ASSUME IInv, [Next]_vars PROVE A
  <2> SUFFICES ASSUME traj.state = "HOLD"
               PROVE  \/ traj'.generation # traj.generation /\ traj'.state = "PREFILL"
                      \/ /\ traj'.state = "HOLD"
                         /\ traj'.executed = traj.executed
                         /\ traj'.staged.seq = NoSeq
                         /\ taken' = taken
    OBVIOUS
  <2>0. /\ traj \in Context(Point) /\ traj.generation \in Gens
        /\ traj.resetRequired
        /\ traj.staged.seq = NoSeq
    BY <1>1 DEF IInv, ContextInv, Context, ContextFlagsAgree, IsCurrent
  <2>1. ~Delivers /\ ~Appends /\ ~Waits /\ ~Stages
    BY <2>0 DEF Delivers, Appends, PushResult, Waits, Stages, CanStage, IsCurrent
  <2>2. CASE Holds /\ taken' = taken
    BY <2>0, <2>2 DEF Holds, RequireReset, NoStaged, Context
  <2>3. CASE Confirms /\ taken' = taken
    BY <2>0, <2>3 DEF Confirms, ConfirmExecution, NoStaged, Context
  <2>4. CASE Reopens
    <3>1. traj'.generation = GenInc(traj.generation) /\ traj'.state = "PREFILL"
      BY <2>0, <2>4 DEF Reopens, ResetAndPush, Context
    <3> QED BY <2>0, <3>1, ContextAssumption DEF GenInc, Gens
  <2> QED BY <1>1, <2>0, <2>1, <2>2, <2>3, <2>4, StepEffects
<1>2. IInv /\ [Next]_vars => [A]_vars
  BY <1>1
<1> QED BY <1>2, IInvHolds, PTL DEF Spec, HoldUntilReset

(* The first reason of a HOLD is kept until the next stream.               *)
THEOREM ReasonCorrect == Spec => FirstReasonKept
<1> DEFINE A == traj.reason # "NONE" /\ traj'.generation = traj.generation
                  => traj'.reason = traj.reason
<1>1. ASSUME IInv, [Next]_vars PROVE A
  <2>0. traj \in Context(Point) /\ traj.generation \in Gens
    BY <1>1 DEF IInv, ContextInv, Context
  <2>1. CASE Reopens
    <3>1. traj'.generation = GenInc(traj.generation)
      BY <2>0, <2>1 DEF Reopens, ResetAndPush, Context
    <3> QED BY <2>0, <3>1, ContextAssumption DEF GenInc, Gens
  <2>2. CASE ~Reopens
    <3>1. traj.reason # "NONE" => traj'.reason = traj.reason
      BY <1>1, <2>0, <2>2, StepEffects
         DEF Holds, Appends, Waits, Stages, Delivers, Confirms, RequireReset,
             Enqueue, Stage, Dequeue, Started, ConfirmExecution, Context
    <3> QED BY <3>1
  <2> QED BY <2>1, <2>2
<1>2. IInv /\ [Next]_vars => [A]_vars
  BY <1>1
<1> QED BY <1>2, IInvHolds, PTL DEF Spec, FirstReasonKept

(* The unsigned difference of two ticks leads from one to the other.       *)
LEMMA ElapsedLeads ==
  ASSUME NEW t1 \in Ticks, NEW t0 \in Ticks
  PROVE  /\ Elapsed(t1, t0) \in Nat
         /\ (t0 + Elapsed(t1, t0)) % TickMod = t1
<1>0. TickMod \in Nat \ {0} /\ t1 \in 0..TickMod - 1 /\ t0 \in 0..TickMod - 1
  BY TickAssumption DEF Ticks
<1>1. \A x \in 0..TickMod - 1 : /\ x % TickMod = x
                               /\ (x - TickMod) % TickMod = x
                               /\ (x + TickMod) % TickMod = x
  <2> SUFFICES ASSUME NEW x \in 0..TickMod - 1
               PROVE  /\ x % TickMod = x
                      /\ (x - TickMod) % TickMod = x
                      /\ (x + TickMod) % TickMod = x
    OBVIOUS
  <2>1. x % TickMod = x
    BY <1>0
  <2>2. (x - TickMod) % TickMod = x
    BY <1>0
  <2>3. (x + TickMod) % TickMod = x
    BY <1>0
  <2> QED BY <2>1, <2>2, <2>3
<1>2. CASE t1 >= t0
  <2>1. t1 - t0 \in 0..TickMod - 1
    BY <1>0, <1>2
  <2>2. Elapsed(t1, t0) = t1 - t0
    BY <1>1, <2>1 DEF Elapsed
  <2>3. t0 + (t1 - t0) = t1
    BY <1>0
  <2> QED BY <1>0, <1>1, <2>1, <2>2, <2>3
<1>3. CASE t1 < t0
  <2> DEFINE x == t1 - t0 + TickMod
  <2>1. x \in 0..TickMod - 1 /\ x - TickMod = t1 - t0
    BY <1>0, <1>3
  <2>2. Elapsed(t1, t0) = x
    BY <1>1, <2>1 DEF Elapsed
  <2>3. t0 + x = t1 + TickMod
    BY <1>0
  <2>4. (t1 + TickMod) % TickMod = t1
    BY <1>0, <1>1
  <2> QED BY <2>1, <2>2, <2>3, <2>4
<1> QED BY <1>0, <1>2, <1>3

(* A point is handed to the drives only before its validity has run out.   *)
THEOREM FreshnessCorrect == Spec => OnlyFreshPoints
<1> DEFINE A == consumer' = "stage" /\ consumer # "stage" =>
                  \E age \in 0..taken'.point.validity - 1 :
                    (taken'.point.received + age) % TickMod = now
<1>1. ASSUME IInv, IInv', [Next]_vars PROVE A
  <2>1. CASE ConsumerTake
    <3> DEFINE p == HeadPoint(traj)
               e == Expired(p)
    <3>1. /\ consumer' = IF TakeResult(traj, e) = "POINT" THEN "stage" ELSE "confirm"
          /\ taken' = IF TakeResult(traj, e) = "POINT"
                      THEN [point |-> p, gen |-> traj.generation]
                      ELSE taken
      BY <2>1 DEF ConsumerTake
    <3>2. TakeResult(traj, e) = "POINT" => ~e
      BY DEF TakeResult
    <3> SUFFICES ASSUME TakeResult(traj, e) = "POINT"
                 PROVE  \E age \in 0..taken'.point.validity - 1 :
                          (taken'.point.received + age) % TickMod = now
      BY <3>1
    <3>3. taken'.point = p /\ p \in Point
      BY <1>1, <3>1 DEF IInv
    <3>4. p.received \in Ticks /\ p.validity \in Nat /\ now \in Ticks
      BY <1>1, <3>3, TickAssumption DEF IInv, Point
    <3>5. /\ Elapsed(now, p.received) \in Nat
          /\ (p.received + Elapsed(now, p.received)) % TickMod = now
      BY <3>4, ElapsedLeads
    <3>6. ~(Elapsed(now, p.received) >= p.validity)
      BY <3>2 DEF Expired
    <3> HIDE DEF p
    <3>7. Elapsed(now, p.received) \in 0..p.validity - 1
      BY <3>4, <3>5, <3>6
    <3> QED BY <3>3, <3>5, <3>7
  <2>2. CASE ~ConsumerTake
    <3>1. consumer' = consumer \/ consumer' # "stage"
      BY <1>1, <2>2
         DEF Next, vars, Producer, ProducerHold, ProducerReset, ProducerPush,
             Consumer, ConsumerConfirm, ConsumerHold, ConsumerStage,
             ConsumerGiveUp, Tick
    <3> QED BY <3>1
  <2> QED BY <2>1, <2>2
<1>2. IInv /\ IInv' /\ [Next]_vars => [A]_vars
  BY <1>1
<1> QED BY <1>2, IInvHolds, PTL DEF Spec, OnlyFreshPoints

-----------------------------------------------------------------------------
(***************************************************************************)
(* The ring buffer implements the abstract stream: reading the ring from   *)
(* head to tail gives the pending sequence, and each call of the code is a *)
(* step of TrajectoryStream or leaves it unchanged.                        *)
(***************************************************************************)

(* Reading the ring as a sequence.                                         *)
LEMMA QueuedSeq ==
  ASSUME NEW P, NEW t, ContextInv(P, t)
  PROVE  /\ Queued(t) \in Seq(P)
         /\ Len(Queued(t)) = t.count
         /\ t.count = 0 => Queued(t) = <<>>
         /\ t.count > 0 => Queued(t) # <<>> /\ Head(Queued(t)) = HeadPoint(t)
<1>1. /\ t \in Context(P) /\ t.count \in 0..Capacity
      /\ t.head \in 0..Capacity - 1 /\ t.points \in [Slots -> P]
  BY DEF ContextInv, Context, Slots
<1>2. \A i \in 1..t.count : t.points[SlotAt(t, i)] \in P
  BY <1>1, SlotAtType, ContextAssumption
<1>3. Queued(t) \in Seq(P) /\ Len(Queued(t)) = t.count
  BY <1>1, <1>2, ContextAssumption DEF Queued
<1>4. t.count > 0 => Head(Queued(t)) = HeadPoint(t)
  <2>1. SlotAt(t, 1) = t.head
    BY <1>1, ContextAssumption DEF SlotAt
  <2> QED BY <2>1, <1>1, <1>3, ContextAssumption DEF Queued, HeadPoint
<1>5. t.count = 0 => Queued(t) = <<>>
  BY <1>3
<1> QED BY <1>1, <1>3, <1>4, <1>5

LEMMA QueuedSingle ==
  ASSUME NEW P, NEW t, ContextInv(P, t), t.count = 1
  PROVE  Queued(t) = <<HeadPoint(t)>>
<1>1. /\ Queued(t) \in Seq(P) /\ Len(Queued(t)) = 1 /\ Queued(t) # <<>>
      /\ Head(Queued(t)) = HeadPoint(t)
  <2>1. t.count > 0
    OBVIOUS
  <2> QED BY <2>1, QueuedSeq
<1>2. Head(Queued(t)) \in P
  BY <1>1, HeadTailProperties
<1>3. <<HeadPoint(t)>> \in Seq(P) /\ Len(<<HeadPoint(t)>>) = 1
  BY <1>1, <1>2
<1>4. Queued(t)[1] = <<HeadPoint(t)>>[1]
  BY <1>1
<1> QED BY <1>1, <1>3, <1>4, SeqEqual

(* The enqueue appends at the end of that sequence ...                     *)
LEMMA EnqueueAppends ==
  ASSUME NEW P, HasSeq(P), NEW t, ContextInv(P, t), NEW p \in P,
         PushResult(t, p) = "OK"
  PROVE  Queued(Enqueue(t, p)) = Append(Queued(t), p)
<1> DEFINE u == Enqueue(t, p)
<1>1. ContextInv(P, u)
  BY EnqueueInv
<1>2. /\ t \in Context(P) /\ t.count \in 0..Capacity /\ t.count < Capacity
      /\ t.head \in 0..Capacity - 1 /\ t.points \in [Slots -> P]
      /\ t.tail = SlotAt(t, t.count + 1) /\ t.tail \in Slots
  BY ContextAssumption DEF ContextInv, Context, Slots, PushResult, ContextFlagsAgree
<1>3. /\ u.head = t.head /\ u.count = t.count + 1
      /\ u.points = [t.points EXCEPT ![t.tail] = p]
  BY <1>2 DEF Enqueue, Context
<1> HIDE DEF u
<1>4. \A i \in 1..t.count + 1 : SlotAt(u, i) = SlotAt(t, i)
  BY <1>3 DEF SlotAt
<1>5. \A i \in 1..t.count : SlotAt(t, i) # t.tail /\ SlotAt(t, i) \in Slots
  <2> SUFFICES ASSUME NEW i \in 1..t.count
               PROVE  SlotAt(t, i) # t.tail /\ SlotAt(t, i) \in Slots
    OBVIOUS
  <2>1. i \in 1..Capacity /\ t.count + 1 \in 1..Capacity /\ i # t.count + 1
    BY <1>2, ContextAssumption
  <2> QED BY <2>1, <1>2, SlotAtType
<1>6. ASSUME NEW i \in 1..t.count + 1
      PROVE  Queued(u)[i] = Append(Queued(t), p)[i]
  <2>1. Queued(u)[i] = u.points[SlotAt(u, i)]
    BY <1>3 DEF Queued
  <2>2. Queued(t) \in Seq(P) /\ Len(Queued(t)) = t.count
    BY QueuedSeq
  <2>3. CASE i = t.count + 1
    <3>1. Append(Queued(t), p)[i] = p
      BY <2>2, <2>3, AppendProperties
    <3> QED BY <2>1, <2>3, <3>1, <1>2, <1>3, <1>4
  <2>4. CASE i # t.count + 1
    <3>1. i \in 1..t.count
      BY <2>4, <1>2
    <3>2. Append(Queued(t), p)[i] = Queued(t)[i]
      BY <2>2, <3>1, AppendProperties
    <3> QED BY <2>1, <3>1, <3>2, <1>2, <1>3, <1>4, <1>5 DEF Queued
  <2> QED BY <2>3, <2>4
<1>7. /\ Queued(u) \in Seq(P) /\ Len(Queued(u)) = t.count + 1
      /\ Append(Queued(t), p) \in Seq(P) /\ Len(Append(Queued(t), p)) = t.count + 1
  BY <1>1, <1>3, QueuedSeq, AppendProperties
<1> QED BY <1>6, <1>7, SeqEqual DEF u

(* ... and the removal of the head point leaves its tail.                  *)
LEMMA DequeueTakesHead ==
  ASSUME NEW P, NEW t, ContextInv(P, t), t.state = "RUNNING", t.count > 0
  PROVE  Queued(Dequeue(t)) = Tail(Queued(t))
<1> DEFINE u == Dequeue(t)
<1>1. /\ t \in Context(P) /\ t.count \in 1..Capacity
      /\ t.head \in 0..Capacity - 1 /\ t.points \in [Slots -> P]
  BY ContextAssumption DEF ContextInv, Context, Slots
<1>2. /\ u.head = SlotInc(t.head) /\ u.count = t.count - 1 /\ u.points = t.points
  BY <1>1 DEF Dequeue, Context
<1> HIDE DEF u
<1>3. \A i \in 1..Capacity : SlotAt(u, i) = SlotAt(t, i + 1)
  BY <1>1, <1>2, ContextAssumption DEF SlotAt, SlotInc
<1>4. /\ Queued(t) \in Seq(P) /\ Len(Queued(t)) = t.count /\ Queued(t) # <<>>
      /\ Queued(u) \in Seq(P) /\ Len(Queued(u)) = t.count - 1
  <2>1. ContextInv(P, u)
    BY DequeueInv DEF u
  <2> QED BY <2>1, <1>1, <1>2, QueuedSeq
<1>5. ASSUME NEW i \in 1..t.count - 1
      PROVE  Queued(u)[i] = Tail(Queued(t))[i]
  <2>1. i \in 1..Capacity /\ i + 1 \in 1..t.count
    BY <1>1, ContextAssumption
  <2>2. Queued(u)[i] = Queued(t)[i + 1]
    BY <2>1, <1>1, <1>2, <1>3 DEF Queued
  <2> QED BY <2>2, <1>4, HeadTailProperties
<1>6. Tail(Queued(t)) \in Seq(P) /\ Len(Tail(Queued(t))) = t.count - 1
  BY <1>4, HeadTailProperties
<1> QED BY <1>4, <1>5, <1>6, SeqEqual DEF u

-----------------------------------------------------------------------------
(* Every step of the code is a step of the abstract stream or none.        *)
LEMMA StreamStep ==
  IInv /\ IInv' /\ [Next]_vars => Stream!StreamNext \/ UNCHANGED Stream!streamVars
<1> SUFFICES ASSUME IInv, IInv', [Next]_vars
             PROVE  Stream!StreamNext \/ UNCHANGED Stream!streamVars
  OBVIOUS
<1>0. /\ ContextInv(Point, traj) /\ ContextInv(Point, traj')
      /\ traj \in Context(Point) /\ traj' \in Context(Point)
      /\ ContextFlagsAgree(traj)
      /\ traj.count \in Nat /\ traj'.count \in Nat
  BY DEF IInv, ContextInv, Context
<1>1. CASE taken' = taken /\ Holds
  <2>1. PICK c \in HoldReasons : traj' = RequireReset(traj, c)
    BY <1>1 DEF Holds
  <2>2. /\ traj'.resetRequired = TRUE /\ traj'.state = "HOLD" /\ traj'.count = 0
        /\ traj'.reason = IF traj.reason = "NONE" THEN c ELSE traj.reason
    BY <1>0, <2>1, ZenonT(30) DEF RequireReset, Context
  <2>3. Queued(traj') = <<>>
    BY <1>0, <2>2, QueuedSeq
  <2>4. Stream!CloseStream(c)
    BY <1>1, <2>2, <2>3 DEF Stream!CloseStream, Queued
  <2> QED BY <2>4 DEF Stream!StreamNext
<1>2. CASE taken' = taken /\ Reopens
  <2>1. PICK p \in Point : traj' = ResetAndPush(traj, p)
    BY <1>2 DEF Reopens
  <2>2. /\ traj'.resetRequired = FALSE /\ traj'.state = "PREFILL" /\ traj'.count = 1
        /\ traj'.reason = "NONE" /\ HeadPoint(traj') = p
    BY <1>0, <2>1, ResetAndPushOpens, ZenonT(30)
  <2>3. Queued(traj') = <<p>>
    BY <1>0, <2>2, QueuedSingle
  <2>4. Stream!OpenStream(p)
    BY <1>2, <2>2, <2>3 DEF Stream!OpenStream, Queued
  <2> QED BY <2>4 DEF Stream!StreamNext
<1>3. CASE taken' = taken /\ Appends
  <2>1. PICK p \in Point : PushResult(traj, p) = "OK" /\ traj' = Enqueue(traj, p)
    BY <1>3 DEF Appends
  <2>2. /\ ~traj.resetRequired /\ traj.count < Capacity
        /\ traj'.resetRequired = traj.resetRequired /\ traj'.state = traj.state
        /\ traj'.reason = traj.reason
    BY <1>0, <2>1, ContextAssumption DEF PushResult, Enqueue, Context
  <2>3. /\ Queued(traj') = Append(Queued(traj), p)
        /\ Len(Queued(traj)) < Capacity
    BY <1>0, <2>1, <2>2, PointHasSeq, EnqueueAppends, QueuedSeq
  <2>4. Stream!AppendPoint(p)
    BY <1>3, <2>2, <2>3 DEF Stream!AppendPoint, Queued
  <2> QED BY <2>4 DEF Stream!StreamNext
<1>4. CASE Delivers
  <2> DEFINE s == Started(traj)
  <2>1. /\ ContextInv(Point, s) /\ s.count = traj.count /\ s.head = traj.head
        /\ s.points = traj.points
    BY <1>0, StartedInv
  <2>2. /\ s.state = "RUNNING" /\ s.count > 0 /\ ~traj.resetRequired
        /\ traj' = Dequeue(s) /\ taken'.point = HeadPoint(traj)
        /\ traj.state = "RUNNING" \/ traj.count >= Prefill
    BY <1>4, <2>1 DEF Delivers, Started
  <2>3. s.resetRequired = traj.resetRequired /\ s.reason = traj.reason
    BY <1>0 DEF Started, Context
  <2>4. Queued(s) = Queued(traj) /\ HeadPoint(s) = HeadPoint(traj)
    BY <2>1 DEF Queued, SlotAt, HeadPoint
  <2> HIDE DEF s
  <2>5. /\ traj'.state = "RUNNING" /\ traj'.resetRequired = traj.resetRequired
        /\ traj'.reason = traj.reason
    BY <2>1, <2>2, <2>3 DEF Dequeue, ContextInv, Context
  <2>6. /\ Queued(traj') = Tail(Queued(traj))
        /\ Head(Queued(traj)) = HeadPoint(traj)
        /\ Queued(traj) # <<>> /\ Len(Queued(traj)) = traj.count
    BY <1>0, <2>1, <2>2, <2>4, DequeueTakesHead, QueuedSeq
  <2>7. Stream!DeliverPoint
    BY <2>2, <2>5, <2>6 DEF Stream!DeliverPoint, Queued
  <2> QED BY <2>7 DEF Stream!StreamNext
<1>5. CASE taken' = taken /\ (traj' = traj \/ Waits \/ Stages \/ Confirms)
  <2>1. /\ traj'.resetRequired = traj.resetRequired /\ traj'.state = traj.state
        /\ traj'.reason = traj.reason /\ traj'.count = traj.count
        /\ traj'.head = traj.head /\ traj'.points = traj.points
    BY <1>0, <1>5, ZenonT(30) DEF Waits, Stages, Confirms, Stage, ConfirmExecution, Context
  <2>2. Queued(traj') = Queued(traj)
    BY <2>1 DEF Queued, SlotAt
  <2> QED BY <1>5, <2>1, <2>2 DEF Stream!streamVars, Queued
<1> QED BY <1>1, <1>2, <1>3, <1>4, <1>5, StepEffects

LEMMA StreamInitially == Init => Stream!StreamInit
<1> SUFFICES ASSUME Init PROVE Stream!StreamInit
  OBVIOUS
<1>1. ContextInv(Point, traj)
  BY InitIInv DEF IInv
<1>2. /\ traj.resetRequired = TRUE /\ traj.state = "IDLE" /\ traj.count = 0
      /\ traj.reason = "NONE" /\ taken.point \in Point
  BY ZeroTypes DEF Init, InitContext
<1>3. Queued(traj) = <<>>
  BY <1>1, <1>2, QueuedSeq
<1> QED BY <1>2, <1>3 DEF Stream!StreamInit

(* The ring buffer of the firmware implements the bounded FIFO stream with *)
(* a prefill threshold and a first-cause latch that it promises.           *)
THEOREM Refinement == Spec => ImplementsStream
<1>1. IInv /\ IInv' /\ [Next]_vars => [Stream!StreamNext]_Stream!streamVars
  BY StreamStep
<1> QED BY <1>1, StreamInitially, IInvHolds, PTL
        DEF Spec, ImplementsStream, Stream!StreamSpec

=============================================================================
