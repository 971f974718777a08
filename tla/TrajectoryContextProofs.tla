---------------------- MODULE TrajectoryContextProofs ----------------------
(***************************************************************************)
(* Each function of robot_trajectory.c preserves the type and the          *)
(* invariant of the context, for every capacity, prefill count, grace      *)
(* length and width of the counters.  The modules that use the context     *)
(* cite these lemmas instead of expanding its operators.                   *)
(***************************************************************************)
EXTENDS TrajectoryContext, TLAPS

(* The elements of a ring carry a sequence number.                         *)
HasSeq(P) == \A p \in P : p.seq \in Seqs

ContextInv(P, t) ==
  /\ t \in Context(P)
  /\ ContextFlagsAgree(t)
  /\ ContextQueueConsecutive(t)

(* The wrapping increments stay within their ranges.                       *)
LEMMA IncTypes ==
  /\ \A s \in Seqs : SeqInc(s) \in Seqs
  /\ \A g \in Gens : GenInc(g) \in Gens
  /\ \A i \in Slots : SlotInc(i) \in Slots
  /\ 0 \in Seqs /\ 0 \in Gens /\ 0 \in Slots /\ 1 \in Slots
BY ContextAssumption DEF Seqs, Gens, Slots, SeqInc, GenInc, SlotInc

(* ROBOT_TrajectoryInit establishes the invariant.                         *)
LEMMA InitContextInv ==
  ASSUME NEW P, NEW zero \in P
  PROVE  ContextInv(P, InitContext(zero))
BY ContextAssumption, IncTypes
   DEF ContextInv, InitContext, Context, ContextFlagsAgree, IsCurrent,
       ContextQueueConsecutive, SlotAt, NoStaged, NoSeq, Seqs, Gens, Slots

(* ROBOT_TrajectoryRequireResetWithReason preserves it.                    *)
LEMMA RequireResetInv ==
  ASSUME NEW P, NEW t, ContextInv(P, t), NEW cause \in HoldReasons
  PROVE  ContextInv(P, RequireReset(t, cause))
<1> DEFINE u == RequireReset(t, cause)
<1>1. u \in Context(P)
  <2>1. /\ (IF t.reason = "NONE" THEN cause ELSE t.reason) \in HoldReasons \cup {"NONE"}
        /\ NoStaged \in [seq : Seqs \cup {NoSeq}, gen : Gens]
        /\ {0, Capacity} \subseteq 0..Capacity /\ 0 \in 0..Grace
    BY ContextAssumption, IncTypes DEF ContextInv, Context, NoStaged
  <2>2. t \in Context(P)
    BY DEF ContextInv
  <2> HIDE DEF NoStaged
  <2> QED BY <2>1, <2>2, IncTypes, ZenonT(30) DEF RequireReset, Context
<1>2. ContextFlagsAgree(u)
  BY ContextAssumption, IncTypes
     DEF ContextInv, RequireReset, Context, ContextFlagsAgree, SlotAt,
         NoStaged, NoSeq, HoldReasons
<1>3. ContextQueueConsecutive(u)
  BY DEF ContextInv, RequireReset, Context, ContextQueueConsecutive
<1> QED BY <1>1, <1>2, <1>3 DEF ContextInv

(* ROBOT_TrajectoryResetAndPush: from any context, with any point.         *)
LEMMA ResetAndPushInv ==
  ASSUME NEW P, HasSeq(P), NEW t, ContextInv(P, t), NEW p \in P
  PROVE  ContextInv(P, ResetAndPush(t, p))
<1> DEFINE u == ResetAndPush(t, p)
<1>1. u \in Context(P)
  <2>1. /\ p.seq \in Seqs /\ SeqInc(p.seq) \in Seqs
        /\ t \in Context(P)
        /\ GenInc(t.generation) \in Gens
        /\ NoStaged \in [seq : Seqs \cup {NoSeq}, gen : Gens]
        /\ 1 \in 0..Capacity /\ 0 \in 0..Grace
    BY ContextAssumption, IncTypes DEF ContextInv, Context, NoStaged, HasSeq
  <2>2. [t.points EXCEPT ![0] = p] \in [Slots -> P]
    BY <2>1 DEF Context
  <2> HIDE DEF NoStaged
  <2> QED BY <2>1, <2>2, IncTypes, ZenonT(30) DEF ResetAndPush, Context
<1>2. ContextFlagsAgree(u)
  BY ContextAssumption
     DEF ContextInv, ResetAndPush, Context, ContextFlagsAgree, SlotAt,
         NoStaged, NoSeq, HoldReasons
<1>3. ContextQueueConsecutive(u)
  <2>1. /\ u.count = 1 /\ u.head = 0 /\ u.points[0] = p
        /\ u.expected = SeqInc(p.seq) /\ u.accepted = p.seq
    BY IncTypes DEF ContextInv, ResetAndPush, Context
  <2>2. \A i \in 1..u.count : i = 1 /\ SlotAt(u, i) = 0
    BY <2>1, ContextAssumption DEF SlotAt
  <2> HIDE DEF u
  <2> QED BY <2>1, <2>2 DEF ContextQueueConsecutive
<1> QED BY <1>1, <1>2, <1>3 DEF ContextInv

(* The stream that ResetAndPush opens is the one point p.                  *)
LEMMA ResetAndPushOpens ==
  ASSUME NEW P, NEW t \in Context(P), NEW p \in P
  PROVE  /\ ResetAndPush(t, p).resetRequired = FALSE
         /\ ResetAndPush(t, p).state = "PREFILL"
         /\ ResetAndPush(t, p).reason = "NONE"
         /\ ResetAndPush(t, p).count = 1
         /\ HeadPoint(ResetAndPush(t, p)) = p
BY IncTypes DEF ResetAndPush, Context, HeadPoint

(* Queue positions are ring slots, and distinct positions distinct slots.  *)
LEMMA SlotAtType ==
  ASSUME NEW P, NEW t \in Context(P), NEW i \in 1..Capacity
  PROVE  /\ SlotAt(t, i) \in Slots
         /\ \A j \in 1..Capacity : SlotAt(t, i) = SlotAt(t, j) => i = j
BY ContextAssumption, SMTT(30) DEF Context, SlotAt, Slots

(* The enqueue of a successful ROBOT_TrajectoryPush.                       *)
LEMMA EnqueueInv ==
  ASSUME NEW P, HasSeq(P), NEW t, ContextInv(P, t), NEW p \in P,
         PushResult(t, p) = "OK"
  PROVE  ContextInv(P, Enqueue(t, p))
<1> DEFINE u == Enqueue(t, p)
<1>0. /\ t \in Context(P)
      /\ ~t.resetRequired /\ t.state \in {"PREFILL", "RUNNING"}
      /\ p.seq = t.expected /\ t.count < Capacity
      /\ p.seq \in Seqs /\ SeqInc(p.seq) \in Seqs
  BY ContextAssumption, IncTypes DEF ContextInv, Context, PushResult, HasSeq
<1>1. u \in Context(P)
  <2>1. /\ SlotInc(t.tail) \in Slots
        /\ t.count + 1 \in 0..Capacity
        /\ (IF t.state = "RUNNING" /\ t.count = 0 THEN 0 ELSE t.grace) \in 0..Grace
        /\ [t.points EXCEPT ![t.tail] = p] \in [Slots -> P]
    BY <1>0, ContextAssumption, IncTypes DEF Context
  <2> QED BY <2>1, <1>0 DEF Enqueue, Context
<1>2. /\ u.head = t.head /\ u.count = t.count + 1
      /\ u.tail = SlotInc(t.tail) /\ t.tail = SlotAt(t, t.count + 1)
      /\ u.points = [t.points EXCEPT ![t.tail] = p]
      /\ u.expected = SeqInc(p.seq) /\ u.accepted = p.seq
      /\ u.resetRequired = t.resetRequired /\ u.sequenceValid = t.sequenceValid
      /\ u.state = t.state /\ u.reason = t.reason
      /\ u.executed = t.executed /\ u.staged = t.staged
      /\ u.generation = t.generation
      /\ u.grace = IF t.state = "RUNNING" /\ t.count = 0 THEN 0 ELSE t.grace
  BY <1>0 DEF Enqueue, Context, ContextInv, ContextFlagsAgree
<1> HIDE DEF u
<1>3. ContextFlagsAgree(u)
  <2>1. u.tail = SlotAt(u, u.count + 1)
    BY <1>0, <1>2, ContextAssumption, SMTT(30) DEF SlotAt, SlotInc, Context, Slots
  <2> QED BY <2>1, <1>0, <1>2 DEF ContextInv, ContextFlagsAgree, IsCurrent, Context
<1>4. ContextQueueConsecutive(u)
  <2>1. \A i \in 1..u.count : SlotAt(u, i) = SlotAt(t, i)
    BY <1>2 DEF SlotAt
  <2>2. \A i \in 1..t.count : u.points[SlotAt(u, i)] = t.points[SlotAt(t, i)]
    <3> SUFFICES ASSUME NEW i \in 1..t.count
                 PROVE  u.points[SlotAt(u, i)] = t.points[SlotAt(t, i)]
      OBVIOUS
    <3>1. i \in 1..Capacity /\ t.count + 1 \in 1..Capacity /\ i # t.count + 1
          /\ i \in 1..u.count
      BY <1>0, <1>2, ContextAssumption DEF Context
    <3>2. SlotAt(t, i) \in Slots /\ SlotAt(t, i) # t.tail
      BY <3>1, <1>0, <1>2, SlotAtType
    <3> QED BY <3>1, <3>2, <2>1, <1>0, <1>2 DEF Context
  <2>3. u.points[SlotAt(u, u.count)] = p
    BY <1>0, <1>2, <2>1 DEF Context
  <2>4. ASSUME NEW i \in 1..u.count
        PROVE  SeqInc(u.points[SlotAt(u, i)].seq) =
                 IF i = u.count THEN u.expected ELSE u.points[SlotAt(u, i + 1)].seq
    <3>1. CASE i = u.count
      BY <3>1, <2>3, <1>2
    <3>2. CASE i < t.count
      <4>1. i \in 1..t.count /\ i + 1 \in 1..t.count /\ i # t.count /\ i # u.count
        BY <3>2, <1>0, <1>2 DEF Context
      <4>2. SeqInc(t.points[SlotAt(t, i)].seq) = t.points[SlotAt(t, i + 1)].seq
        BY <4>1, <1>0 DEF ContextInv, ContextQueueConsecutive
      <4>3. /\ u.points[SlotAt(u, i)] = t.points[SlotAt(t, i)]
            /\ u.points[SlotAt(u, i + 1)] = t.points[SlotAt(t, i + 1)]
        BY <4>1, <2>2
      <4> QED BY <4>1, <4>2, <4>3
    <3>3. CASE i = t.count
      <4>1. i \in 1..t.count /\ i + 1 = u.count /\ i # u.count
        BY <3>3, <1>0, <1>2 DEF Context
      <4> QED BY <4>1, <2>2, <2>3, <1>0, <1>2, <3>3
              DEF ContextInv, ContextQueueConsecutive
    <3> QED BY <3>1, <3>2, <3>3, <1>0, <1>2 DEF Context
  <2>5. u.expected = SeqInc(u.accepted)
    BY <1>2
  <2>6. \A i \in 1..u.count :
          SeqInc(u.points[SlotAt(u, i)].seq) =
            IF i = u.count THEN u.expected ELSE u.points[SlotAt(u, i + 1)].seq
    BY <2>4
  <2> QED BY <2>5, <2>6, Zenon DEF ContextQueueConsecutive
<1> QED BY <1>1, <1>3, <1>4 DEF ContextInv, u

(* ROBOT_TrajectoryPush, whatever it returns.                              *)
LEMMA PushInv ==
  ASSUME NEW P, HasSeq(P), NEW t, ContextInv(P, t), NEW p \in P
  PROVE  ContextInv(P, Push(t, p))
<1>1. PushResult(t, p) \in {"RESET_REQUIRED", "SEQUENCE_ERROR", "FULL", "OK"}
  BY DEF PushResult
<1>2. {"SEQUENCE_ERROR", "QUEUE_OVERFLOW"} \subseteq HoldReasons
  BY DEF HoldReasons
<1> QED BY <1>1, <1>2, EnqueueInv, RequireResetInv DEF Push

(* The start of playback inside ROBOT_TrajectoryTake.                      *)
LEMMA StartedInv ==
  ASSUME NEW P, NEW t, ContextInv(P, t)
  PROVE  /\ ContextInv(P, Started(t))
         /\ Started(t).count = t.count /\ Started(t).head = t.head
         /\ Started(t).points = t.points
<1> DEFINE u == [t EXCEPT !.state = "RUNNING", !.grace = 0]
<1>1. CASE t.state = "PREFILL" /\ t.count >= Prefill
  <2>0. t \in Context(P) /\ 0 \in 0..Grace
    BY ContextAssumption DEF ContextInv
  <2>1. u \in Context(P)
    BY <2>0 DEF Context
  <2>2. /\ u.state = "RUNNING" /\ u.grace = 0
        /\ u.resetRequired = t.resetRequired /\ u.sequenceValid = t.sequenceValid
        /\ u.expected = t.expected /\ u.head = t.head /\ u.tail = t.tail
        /\ u.count = t.count /\ u.points = t.points /\ u.staged = t.staged
        /\ u.reason = t.reason /\ u.generation = t.generation
        /\ u.accepted = t.accepted /\ u.executed = t.executed
    BY DEF ContextInv, Context
  <2>3. Started(t) = u
    BY <1>1 DEF Started
  <2> HIDE DEF u
  <2>4. ContextFlagsAgree(u)
    BY <1>1, <2>2 DEF ContextInv, ContextFlagsAgree, IsCurrent, SlotAt
  <2>5. ContextQueueConsecutive(u)
    <3>1. \A i : SlotAt(u, i) = SlotAt(t, i)
      BY <2>2 DEF SlotAt
    <3> QED BY <2>2, <3>1 DEF ContextInv, ContextQueueConsecutive
  <2> QED BY <2>1, <2>2, <2>3, <2>4, <2>5 DEF ContextInv
<1>2. CASE ~(t.state = "PREFILL" /\ t.count >= Prefill)
  BY <1>2 DEF Started
<1> QED BY <1>1, <1>2

(* The removal of the head point by a successful ROBOT_TrajectoryTake.     *)
LEMMA DequeueInv ==
  ASSUME NEW P, NEW t, ContextInv(P, t), t.state = "RUNNING", t.count > 0
  PROVE  ContextInv(P, Dequeue(t))
<1> DEFINE u == Dequeue(t)
<1>0. t \in Context(P) /\ ~t.resetRequired
  BY DEF ContextInv, ContextFlagsAgree
<1>1. u \in Context(P)
  <2>1. SlotInc(t.head) \in Slots /\ t.count - 1 \in 0..Capacity /\ 0 \in 0..Grace
    BY <1>0, ContextAssumption, IncTypes DEF Context
  <2> QED BY <2>1, <1>0 DEF Dequeue, Context
<1>2. /\ u.head = SlotInc(t.head) /\ u.count = t.count - 1 /\ u.grace = 0
      /\ u.state = t.state
      /\ u.resetRequired = t.resetRequired /\ u.sequenceValid = t.sequenceValid
      /\ u.expected = t.expected /\ u.tail = t.tail
      /\ u.points = t.points /\ u.staged = t.staged
      /\ u.reason = t.reason /\ u.generation = t.generation
      /\ u.accepted = t.accepted /\ u.executed = t.executed
  BY <1>0 DEF Dequeue, Context
<1> HIDE DEF u
<1>3. \A i \in 1..Capacity : SlotAt(u, i) = SlotAt(t, i + 1)
  <2>1. t.head \in 0..Capacity - 1
    BY <1>0 DEF Context, Slots
  <2> QED BY <2>1, <1>2, ContextAssumption DEF SlotAt, SlotInc
<1>4. ContextFlagsAgree(u)
  <2>1. u.tail = SlotAt(u, u.count + 1)
    BY <1>0, <1>2, <1>3, ContextAssumption DEF ContextInv, ContextFlagsAgree, Context
  <2> QED BY <2>1, <1>0, <1>2 DEF ContextInv, ContextFlagsAgree, IsCurrent
<1>5. ContextQueueConsecutive(u)
  <2>1. ASSUME NEW i \in 1..u.count
        PROVE  SeqInc(u.points[SlotAt(u, i)].seq) =
                 IF i = u.count THEN u.expected ELSE u.points[SlotAt(u, i + 1)].seq
    <3>1. /\ i \in 1..Capacity /\ i + 1 \in 1..t.count
          /\ i + 1 \in 1..Capacity \/ i = u.count
          /\ (i = u.count) <=> (i + 1 = t.count)
      BY <1>0, <1>2, ContextAssumption DEF Context
    <3>2. SeqInc(t.points[SlotAt(t, i + 1)].seq) =
            IF i + 1 = t.count THEN t.expected ELSE t.points[SlotAt(t, i + 1 + 1)].seq
      BY <3>1, <1>0 DEF ContextInv, ContextQueueConsecutive
    <3> QED BY <3>1, <3>2, <1>2, <1>3
  <2>2. u.expected = SeqInc(u.accepted)
    BY <1>0, <1>2 DEF ContextInv, ContextQueueConsecutive
  <2> QED BY <2>1, <2>2 DEF ContextQueueConsecutive
<1> QED BY <1>1, <1>4, <1>5 DEF ContextInv, u

(* What ROBOT_TrajectoryTake may return, and when.                         *)
LEMMA TakeResults ==
  ASSUME NEW P, NEW t, ContextInv(P, t), NEW expired \in BOOLEAN
  PROVE  /\ TakeResult(t, expired) \in
              {"HOLD", "WAIT", "GRACE", "UNDERRUN", "EXPIRED", "POINT"}
         /\ TakeResult(t, expired) = "GRACE" =>
              /\ Started(t).state = "RUNNING" /\ Started(t).count = 0
              /\ Started(t).grace < Grace
         /\ TakeResult(t, expired) = "POINT" =>
              Started(t).state = "RUNNING" /\ Started(t).count > 0
BY StartedInv DEF TakeResult, ContextInv, Context

(* ROBOT_TrajectoryTake, whatever it returns.                              *)
LEMMA TakeInv ==
  ASSUME NEW P, NEW t, ContextInv(P, t), NEW expired \in BOOLEAN
  PROVE  ContextInv(P, Take(t, expired))
<1> DEFINE s == Started(t)
           r == TakeResult(t, expired)
<1>1. ContextInv(P, s)
  BY StartedInv
<1>2. CASE r \in {"HOLD", "WAIT"}
  BY <1>2 DEF Take
<1>3. CASE r = "GRACE"
  <2> DEFINE u == [s EXCEPT !.grace = @ + 1]
  <2>1. s \in Context(P) /\ s.state = "RUNNING" /\ s.count = 0 /\ s.grace + 1 \in 0..Grace
    BY <1>1, <1>3, TakeResults, ContextAssumption DEF ContextInv, Context
  <2> HIDE DEF s
  <2>2. u \in Context(P)
    BY <2>1 DEF Context
  <2>3. /\ u.grace = s.grace + 1 /\ u.state = s.state
        /\ u.resetRequired = s.resetRequired /\ u.sequenceValid = s.sequenceValid
        /\ u.expected = s.expected /\ u.head = s.head /\ u.tail = s.tail
        /\ u.count = s.count /\ u.points = s.points /\ u.staged = s.staged
        /\ u.reason = s.reason /\ u.generation = s.generation
        /\ u.accepted = s.accepted /\ u.executed = s.executed
    BY <2>1 DEF Context
  <2>4. Take(t, expired) = u
    BY <1>3, TakeResults DEF Take, s
  <2> HIDE DEF u
  <2>5. ContextFlagsAgree(u)
    BY <1>1, <2>1, <2>3 DEF ContextInv, ContextFlagsAgree, IsCurrent, SlotAt
  <2>6. ContextQueueConsecutive(u)
    <3>1. \A i : SlotAt(u, i) = SlotAt(s, i)
      BY <2>3 DEF SlotAt
    <3> QED BY <1>1, <2>3, <3>1 DEF ContextInv, ContextQueueConsecutive
  <2> QED BY <2>2, <2>4, <2>5, <2>6 DEF ContextInv
<1>4. CASE r \in {"UNDERRUN", "EXPIRED"}
  <2>1. {"QUEUE_UNDERRUN", "POINT_EXPIRED"} \subseteq HoldReasons
    BY DEF HoldReasons
  <2> QED BY <2>1, <1>1, <1>4, RequireResetInv DEF Take
<1>5. CASE r = "POINT"
  BY <1>1, <1>5, TakeResults, DequeueInv DEF Take
<1> QED BY <1>2, <1>3, <1>4, <1>5, TakeResults

(* ROBOT_TrajectoryStageExecution and ROBOT_TrajectoryConfirmExecution.    *)
LEMMA StageInv ==
  ASSUME NEW P, NEW t, ContextInv(P, t), NEW q \in Seqs, NEW g \in Gens
  PROVE  ContextInv(P, Stage(t, q, g))
<1> DEFINE u == [t EXCEPT !.staged = [seq |-> q, gen |-> g]]
<1>1. CASE CanStage(t, g)
  <2>0. t \in Context(P)
    BY DEF ContextInv
  <2>1. u \in Context(P)
    BY <2>0 DEF Context
  <2>2. /\ u.staged.seq = q /\ u.staged.gen = g
        /\ u.grace = t.grace /\ u.state = t.state
        /\ u.resetRequired = t.resetRequired /\ u.sequenceValid = t.sequenceValid
        /\ u.expected = t.expected /\ u.head = t.head /\ u.tail = t.tail
        /\ u.count = t.count /\ u.points = t.points
        /\ u.reason = t.reason /\ u.generation = t.generation
        /\ u.accepted = t.accepted /\ u.executed = t.executed
    BY <2>0 DEF Context
  <2>3. Stage(t, q, g) = u
    BY <1>1 DEF Stage
  <2> HIDE DEF u
  <2>4. ContextFlagsAgree(u)
    BY <1>1, <2>2 DEF ContextInv, ContextFlagsAgree, IsCurrent, CanStage, SlotAt
  <2>5. ContextQueueConsecutive(u)
    <3>1. \A i : SlotAt(u, i) = SlotAt(t, i)
      BY <2>2 DEF SlotAt
    <3> QED BY <2>2, <3>1 DEF ContextInv, ContextQueueConsecutive
  <2> QED BY <2>1, <2>3, <2>4, <2>5 DEF ContextInv
<1>2. CASE ~CanStage(t, g)
  BY <1>2 DEF Stage
<1> QED BY <1>1, <1>2

LEMMA ConfirmInv ==
  ASSUME NEW P, NEW t, ContextInv(P, t)
  PROVE  ContextInv(P, ConfirmExecution(t))
<1> DEFINE u == ConfirmExecution(t)
           e == IF t.staged.seq # NoSeq /\ IsCurrent(t, t.staged.gen)
                THEN t.staged.seq ELSE t.executed
<1>0. t \in Context(P)
  BY DEF ContextInv
<1>1. NoStaged \in [seq : Seqs \cup {NoSeq}, gen : Gens] /\ e \in Seqs \cup {NoSeq}
  BY <1>0, IncTypes DEF Context, NoStaged
<1>2. u = [t EXCEPT !.executed = e, !.staged = NoStaged]
  BY DEF ConfirmExecution
<1>3. t.state = "PREFILL" => e = t.executed
  BY DEF IsCurrent
<1>4. NoStaged.seq = NoSeq
  BY DEF NoStaged
<1> HIDE DEF u, e, NoStaged
<1>5. u \in Context(P)
  BY <1>0, <1>1, <1>2 DEF Context
<1>6. /\ u.staged = NoStaged /\ u.executed = e
      /\ u.grace = t.grace /\ u.state = t.state
      /\ u.resetRequired = t.resetRequired /\ u.sequenceValid = t.sequenceValid
      /\ u.expected = t.expected /\ u.head = t.head /\ u.tail = t.tail
      /\ u.count = t.count /\ u.points = t.points
      /\ u.reason = t.reason /\ u.generation = t.generation
      /\ u.accepted = t.accepted
  BY <1>0, <1>2 DEF Context
<1>7. ContextFlagsAgree(u)
  BY <1>3, <1>4, <1>6 DEF ContextInv, ContextFlagsAgree, SlotAt
<1>8. ContextQueueConsecutive(u)
  <2>1. \A i : SlotAt(u, i) = SlotAt(t, i)
    BY <1>6 DEF SlotAt
  <2> QED BY <1>6, <2>1 DEF ContextInv, ContextQueueConsecutive
<1> QED BY <1>5, <1>7, <1>8 DEF ContextInv, u

-----------------------------------------------------------------------------
(* Appending a point does not change the sequence number played next.      *)
LEMMA EnqueueKeepsNext ==
  ASSUME NEW P, HasSeq(P), NEW t, ContextInv(P, t), NEW p \in P,
         PushResult(t, p) = "OK"
  PROVE  /\ NextToPlay(Enqueue(t, p)) = NextToPlay(t)
         /\ Enqueue(t, p).state = t.state
         /\ Enqueue(t, p).resetRequired = t.resetRequired
         /\ Enqueue(t, p).generation = t.generation
         /\ Enqueue(t, p).staged = t.staged
         /\ Enqueue(t, p).executed = t.executed
<1> DEFINE u == Enqueue(t, p)
<1>0. /\ t \in Context(P) /\ p.seq = t.expected /\ t.count < Capacity
      /\ t.tail = SlotAt(t, t.count + 1) /\ ~t.resetRequired
  BY ContextAssumption DEF ContextInv, Context, PushResult, ContextFlagsAgree
<1>1. /\ u.head = t.head /\ u.count = t.count + 1
      /\ u.points = [t.points EXCEPT ![t.tail] = p]
      /\ u.state = t.state /\ u.resetRequired = t.resetRequired
      /\ u.generation = t.generation /\ u.staged = t.staged
      /\ u.executed = t.executed
  BY <1>0 DEF Enqueue, Context
<1> HIDE DEF u
<1>2. t.head \in 0..Capacity - 1 /\ t.tail \in 0..Capacity - 1
      /\ t.count \in 0..Capacity /\ t.points \in [0..Capacity - 1 -> P]
  BY <1>0 DEF Context, Slots
<1>3. ASSUME t.count = 0 PROVE NextToPlay(u) = NextToPlay(t)
  <2>1. t.tail = t.head
    BY <1>0, <1>2, <1>3, ContextAssumption DEF SlotAt
  <2>2. u.count = 1 /\ u.head = t.head /\ u.points[t.head] = p
    <3>1. [t.points EXCEPT ![t.tail] = p][t.tail] = p
      BY <1>2
    <3>2. 0 + 1 = 1
      OBVIOUS
    <3> QED BY <2>1, <1>1, <1>3, <3>1, <3>2, Zenon
  <2>3. NextToPlay(u) = p.seq
    BY <2>2 DEF NextToPlay, HeadPoint
  <2>4. NextToPlay(t) = t.expected
    BY <1>3 DEF NextToPlay
  <2> QED BY <2>3, <2>4, <1>0
<1>4. ASSUME t.count > 0 PROVE NextToPlay(u) = NextToPlay(t)
  <2>1. t.tail # t.head
    BY <1>0, <1>2, <1>4, ContextAssumption DEF SlotAt
  <2> QED BY <2>1, <1>0, <1>1, <1>2, <1>4 DEF NextToPlay, HeadPoint
<1> QED BY <1>1, <1>2, <1>3, <1>4 DEF u

(* The point a Take hands out is the one due next, and its successor is    *)
(* the one due after it.                                                   *)
LEMMA DequeueAdvancesNext ==
  ASSUME NEW P, NEW t, ContextInv(P, t), t.state = "RUNNING", t.count > 0
  PROVE  /\ HeadPoint(t) \in P
         /\ HeadPoint(t).seq = NextToPlay(t)
         /\ SeqInc(HeadPoint(t).seq) = NextToPlay(Dequeue(t))
         /\ Dequeue(t).state = t.state
         /\ Dequeue(t).resetRequired = t.resetRequired
         /\ Dequeue(t).generation = t.generation
         /\ Dequeue(t).staged = t.staged
         /\ Dequeue(t).executed = t.executed
<1> DEFINE u == Dequeue(t)
<1>0. t \in Context(P) /\ ~t.resetRequired
  BY DEF ContextInv, ContextFlagsAgree
<1>1. /\ u.head = SlotInc(t.head) /\ u.count = t.count - 1
      /\ u.points = t.points /\ u.expected = t.expected
      /\ u.state = t.state /\ u.resetRequired = t.resetRequired
      /\ u.generation = t.generation /\ u.staged = t.staged
      /\ u.executed = t.executed
  BY <1>0 DEF Dequeue, Context
<1> HIDE DEF u
<1>2. t.head \in 0..Capacity - 1 /\ t.count \in 0..Capacity
      /\ t.points \in [0..Capacity - 1 -> P]
  BY <1>0 DEF Context, Slots
<1>3. SlotAt(t, 1) = t.head /\ SlotAt(t, 2) = SlotInc(t.head)
  BY <1>2, ContextAssumption DEF SlotAt, SlotInc
<1>4. SeqInc(t.points[SlotAt(t, 1)].seq) =
        IF 1 = t.count THEN t.expected ELSE t.points[SlotAt(t, 1 + 1)].seq
  BY <1>0, <1>2 DEF ContextInv, ContextQueueConsecutive
<1>5. SeqInc(HeadPoint(t).seq) = NextToPlay(u)
  BY <1>1, <1>2, <1>3, <1>4 DEF HeadPoint, NextToPlay
<1> QED BY <1>1, <1>2, <1>5 DEF HeadPoint, NextToPlay, u

-----------------------------------------------------------------------------
(* What the reports about the context can show of each function.           *)
Playing(t) == t.state \in {"PREFILL", "RUNNING"}

(* From t to u the stream is the same or has ended.                        *)
GoesOn(t, u) ==
  /\ u.generation = t.generation /\ u.accepted = t.accepted
  /\ Playing(u) => Playing(t)

LEMMA RequireResetEffect ==
  ASSUME NEW P, NEW t \in Context(P), NEW cause
  PROVE  /\ GoesOn(t, RequireReset(t, cause)) /\ ~Playing(RequireReset(t, cause))
         /\ RequireReset(t, cause).count = 0
BY DEF RequireReset, Context, GoesOn, Playing

LEMMA ResetAndPushEffect ==
  ASSUME NEW P, NEW t \in Context(P), NEW p \in P
  PROVE  LET u == ResetAndPush(t, p) IN
         u.state = "PREFILL" /\ u.count = 1 /\ u.accepted = p.seq
BY DEF ResetAndPush, Context

LEMMA PushCounts ==
  ASSUME NEW P, NEW t, ContextInv(P, t), NEW p \in P
  PROVE  LET u == Push(t, p) IN
         IF PushResult(t, p) = "OK"
         THEN /\ Playing(t) /\ u.state = t.state /\ u.count = t.count + 1
              /\ u.generation = t.generation /\ u.accepted = p.seq
         ELSE /\ GoesOn(t, u) /\ u.count <= t.count
              /\ u # t => ~Playing(u)
<1>0. t \in Context(P) /\ t.count \in Nat
  BY ContextAssumption DEF ContextInv, Context
<1>1. CASE PushResult(t, p) = "OK"
  <2>1. Push(t, p) = Enqueue(t, p) /\ Playing(t)
    BY <1>1 DEF Push, PushResult, Playing
  <2> DEFINE count == t.count + 1
  <2>2. Enqueue(t, p).state = t.state /\ Enqueue(t, p).count = count
        /\ Enqueue(t, p).generation = t.generation /\ Enqueue(t, p).accepted = p.seq
    BY <1>0 DEF Enqueue, Context
  <2> QED
    BY <1>1, <2>1, <2>2
<1>2. CASE PushResult(t, p) = "RESET_REQUIRED"
  BY <1>0, <1>2 DEF Push, GoesOn
<1>3. CASE PushResult(t, p) = "SEQUENCE_ERROR"
  BY <1>0, <1>3, RequireResetEffect DEF Push
<1>4. CASE PushResult(t, p) = "FULL"
  BY <1>0, <1>4, RequireResetEffect DEF Push
<1> QED
  BY <1>1, <1>2, <1>3, <1>4 DEF PushResult

LEMMA TakeCounts ==
  ASSUME NEW P, NEW t, ContextInv(P, t), NEW expired \in BOOLEAN
  PROVE  LET u == Take(t, expired) IN
         /\ GoesOn(t, u) /\ u.count <= t.count
         /\ t.state = "PREFILL" /\ t.count < Prefill => u = t
<1> DEFINE s == Started(t)
<1>0. t \in Context(P) /\ t.count \in Nat /\ t.grace \in Nat
  BY ContextAssumption DEF ContextInv, Context
<1>1. s \in Context(P) /\ GoesOn(t, s) /\ s.count = t.count
  <2>1. s \in Context(P)
    BY StartedInv DEF ContextInv
  <2> QED
    BY <1>0, <2>1 DEF Started, Context, GoesOn, Playing
<1> HIDE DEF s
<1>2. [s EXCEPT !.grace = @ + 1].count = s.count /\ GoesOn(s, [s EXCEPT !.grace = @ + 1])
  BY <1>1 DEF Context, GoesOn, Playing
<1> DEFINE count == s.count - 1
<1>3. Dequeue(s).count = count /\ GoesOn(s, Dequeue(s))
  BY <1>1 DEF Dequeue, Context, GoesOn, Playing
<1>4. count <= t.count
  BY <1>0, <1>1
<1> HIDE DEF count
<1>5. GoesOn(t, Take(t, expired)) /\ Take(t, expired).count <= t.count
  <2>1. CASE TakeResult(t, expired) \in {"HOLD", "WAIT"}
    BY <1>0, <2>1 DEF Take, GoesOn
  <2>2. CASE TakeResult(t, expired) = "GRACE"
    <3>1. Take(t, expired) = [s EXCEPT !.grace = @ + 1]
      BY <2>2 DEF Take, s
    <3> QED
      BY <1>0, <1>1, <1>2, <3>1 DEF GoesOn
  <2>3. CASE TakeResult(t, expired) = "UNDERRUN"
    BY <1>0, <1>1, <2>3, RequireResetEffect DEF Take, GoesOn, s
  <2>4. CASE TakeResult(t, expired) = "EXPIRED"
    BY <1>0, <1>1, <2>4, RequireResetEffect DEF Take, GoesOn, s
  <2>5. CASE TakeResult(t, expired) = "POINT"
    BY <1>1, <1>3, <1>4, <2>5 DEF Take, GoesOn, s
  <2> QED
    BY <2>1, <2>2, <2>3, <2>4, <2>5, TakeResults
<1>6. ASSUME t.state = "PREFILL", t.count < Prefill
      PROVE  Take(t, expired) = t
  <2>1. Started(t) = t
    BY <1>0, <1>6, ContextAssumption DEF Started
  <2>2. ~t.resetRequired
    BY <1>6 DEF ContextInv, ContextFlagsAgree
  <2>3. TakeResult(t, expired) = "WAIT"
    BY <1>6, <2>1, <2>2 DEF TakeResult
  <2> QED
    BY <2>3 DEF Take
<1> QED
  BY <1>5, <1>6

=============================================================================
