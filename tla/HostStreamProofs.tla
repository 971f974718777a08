-------------------------- MODULE HostStreamProofs --------------------------
(***************************************************************************)
(* Proofs about HostStream.  The reset service is taken not to come        *)
(* between the two lines of write() that read the stream's state and start *)
(* a stream; that hold or quick_stop do only matters to RestartsNeedReset. *)
(***************************************************************************)
EXTENDS HostStream, TrajectoryContextProofs, FiniteSetTheorems, SequenceTheorems

-----------------------------------------------------------------------------
(* What each critical section of csp_scheduler.cpp keeps and changes, for  *)
(* every capacity, watermark and width of the counters.                    *)

(* How a stream ends.                                                      *)
Rests == {"Holding", "ResetRequired", "Fault"}

(* The type of the scheduler but for the bounds of ahead, which depend on  *)
(* the firmware.                                                           *)
WideScheduler ==
  [state : StreamStates, terminal : Rests, enabled : BOOLEAN,
   queue : 0..LocalCapacity, hasTarget : BOOLEAN, lastSent : BOOLEAN,
   tracking : BOOLEAN, ahead : Int, lastCount : 0..CountMod - 1,
   generation : Gens, genBefore : Gens, resetSeq : Seqs,
   available : BOOLEAN, status : TrajectoryStatus]

(* From s to t the stream's bookkeeping is the same.                       *)
SameStream(s, t) ==
  /\ t.lastSent = s.lastSent /\ t.tracking = s.tracking /\ t.ahead = s.ahead
  /\ t.lastCount = s.lastCount /\ t.generation = s.generation
  /\ t.genBefore = s.genBefore /\ t.resetSeq = s.resetSeq
  /\ t.available = s.available /\ t.status = s.status

(* A stream whose RESET was sent has something to hold.                    *)
Underway == {"ResetAwaitingAck", "Streaming", "Finishing"}
Sent(s) == s.state \in Underway => s.lastSent

IsFault(s) == s.state = "Fault" \/ (s.state = "Finishing" /\ s.terminal = "Fault")

(* From s to t the stream is at most ended, and by a HOLD if it needs one. *)
Moves(s, t) ==
  /\ t \in WideScheduler /\ SameStream(s, t)
  /\ IsFault(s) => IsFault(t)
  /\ \/ t.state = s.state
     \/ s.state \in Underway /\ t.state = "Finishing"
     \/ /\ s.state \in {"Idle", "StartPending", "Holding", "ResetRequired"}
        /\ t.state \in {"Holding", "ResetRequired", "Fault"}

-----------------------------------------------------------------------------
(* The constructor's state.                                                *)
LEMMA NewSchedulerTyped == NewScheduler \in WideScheduler
BY SchedulerAssumption, ContextAssumption
   DEF NewScheduler, WideScheduler, StreamStates, Rests, ZeroStatus, TrajectoryStatus,
       NoSeq, Seqs, Gens

(* begin_hold_locked, behind a frame that was sent.                        *)
LEMMA BeginHoldMoves ==
  ASSUME NEW s \in WideScheduler, s.lastSent, s.state \in Underway,
         NEW terminal \in Rests,
         IsFault(s) => terminal = "Fault"
  PROVE  Moves(s, BeginHold(s, terminal)) /\ BeginHold(s, terminal).state = "Finishing"
<1>1. BeginHold(s, terminal) =
        [s EXCEPT !.queue = 0, !.terminal = terminal, !.state = "Finishing"]
  BY DEF BeginHold
<1>2. 0 \in 0..LocalCapacity /\ "Finishing" \in StreamStates
  BY SchedulerAssumption DEF StreamStates
<1> QED
  BY <1>1, <1>2 DEF Moves, SameStream, IsFault, WideScheduler, Underway

(* A stream of which nothing was sent ends at once.                        *)
LEMMA DropMoves ==
  ASSUME NEW s \in WideScheduler, NEW state \in Rests,
         \/ s.state \in {"Idle", "StartPending", "Holding", "ResetRequired"}
         \/ s.state = "Fault" /\ state = "Fault"
  PROVE  Moves(s, [s EXCEPT !.queue = 0, !.state = state])
<1>1. 0 \in 0..LocalCapacity /\ state \in StreamStates
  BY SchedulerAssumption DEF StreamStates, Rests
<1> QED
  BY <1>1 DEF Moves, SameStream, IsFault, WideScheduler, Rests

(* The methods the control loop and the services call, except those that   *)
(* start a stream, and the gate that read() sets.                          *)
LEMMA CallsMove ==
  ASSUME NEW s \in WideScheduler, Sent(s)
  PROVE  /\ Moves(s, s)
         /\ \A e \in BOOLEAN : Moves(s, [s EXCEPT !.enabled = e])
         /\ CanSubmit(s) => Moves(s, Submit(s))
         /\ Moves(s, Finish(s)) /\ Moves(s, Abort(s)) /\ Moves(s, MarkFault(s))
<1>0. s.state \in StreamStates /\ s.terminal \in Rests
      /\ "Holding" \in Rests /\ "ResetRequired" \in Rests /\ "Fault" \in Rests
  BY DEF WideScheduler, StreamStates, Rests
<1>1. Moves(s, s)
  BY DEF Moves, SameStream
<1>2. \A e \in BOOLEAN : Moves(s, [s EXCEPT !.enabled = e])
  BY DEF Moves, SameStream, IsFault, WideScheduler
<1>3. ASSUME CanSubmit(s) PROVE Moves(s, Submit(s))
  <2>1. (IF AcceptsPoints(s) THEN s.queue + 1 ELSE s.queue) \in 0..LocalCapacity
    BY <1>3, SchedulerAssumption DEF CanSubmit, WideScheduler
  <2> QED
    BY <2>1 DEF Submit, Moves, SameStream, IsFault, WideScheduler
<1>4. Moves(s, Finish(s))
  <2>1. CASE s.state = "StartPending"
    BY <1>0, <2>1, DropMoves DEF Finish
  <2>2. CASE s.state \in {"ResetAwaitingAck", "Streaming"}
    BY <1>0, <2>2, BeginHoldMoves DEF Finish, Sent, Underway, IsFault
  <2> QED
    BY <1>0, <1>1, <2>1, <2>2 DEF Finish, StreamStates
<1>5. Moves(s, Abort(s))
  <2>1. CASE s.state = "Finishing"
    <3>1. (IF s.terminal = "Fault" THEN s.terminal ELSE "ResetRequired") \in Rests
      BY <1>0
    <3> QED
      BY <2>1, <3>1 DEF Abort, Moves, SameStream, IsFault, WideScheduler
  <2>2. CASE s.state \in {"ResetAwaitingAck", "Streaming"}
    BY <1>0, <2>2, BeginHoldMoves DEF Abort, Sent, Underway, IsFault
  <2>3. CASE s.state \in {"Idle", "StartPending", "Holding", "ResetRequired"}
    BY <1>0, <2>3, DropMoves DEF Abort
  <2> QED
    BY <1>0, <1>1, <2>1, <2>2, <2>3 DEF Abort, StreamStates
<1>6. Moves(s, MarkFault(s))
  <2>1. CASE s.state \in Underway
    BY <1>0, <2>1, BeginHoldMoves DEF MarkFault, Sent, Underway
  <2>2. CASE s.state \notin Underway
    BY <1>0, <2>2, DropMoves DEF MarkFault, Underway, StreamStates
  <2> QED
    BY <2>1, <2>2
<1> QED
  BY <1>1, <1>2, <1>3, <1>4, <1>5, <1>6

-----------------------------------------------------------------------------
(* start_trajectory and recover_trajectory.                                *)
LEMMA RestartEffect ==
  ASSUME NEW s \in WideScheduler
  PROVE  LET t == Restart(s) IN
         /\ t \in WideScheduler
         /\ t.state = "StartPending" /\ ~t.lastSent /\ ~t.tracking /\ t.ahead = 0
         /\ t.lastCount = s.lastCount /\ t.generation = s.generation
         /\ t.genBefore = s.genBefore /\ t.resetSeq = s.resetSeq
         /\ t.available = s.available /\ t.status = s.status
<1>1. (IF s.hasTarget THEN 1 ELSE 0) \in 0..LocalCapacity /\ "StartPending" \in StreamStates
  BY SchedulerAssumption DEF StreamStates
<1> DEFINE queue == IF s.hasTarget THEN 1 ELSE 0
<1>2. /\ queue \in 0..LocalCapacity /\ "StartPending" \in StreamStates
      /\ Restart(s) = [s EXCEPT !.queue = queue, !.lastSent = FALSE, !.tracking = FALSE,
                                !.ahead = 0, !.state = "StartPending"]
  BY <1>1 DEF Restart
<1> HIDE DEF queue
<1>0. FALSE \in BOOLEAN /\ 0 \in Int
  OBVIOUS
<1>3. Restart(s) \in WideScheduler
  BY <1>0, <1>2 DEF WideScheduler
<1>4. LET t == Restart(s) IN
      /\ t.state = "StartPending" /\ t.lastSent = FALSE /\ t.tracking = FALSE /\ t.ahead = 0
      /\ t.lastCount = s.lastCount /\ t.generation = s.generation
      /\ t.genBefore = s.genBefore /\ t.resetSeq = s.resetSeq
      /\ t.available = s.available /\ t.status = s.status
  BY <1>2 DEF WideScheduler
<1> QED
  BY <1>3, <1>4

(* A RESET is chosen.                                                      *)
LEMMA ChooseResetEffect ==
  ASSUME NEW s \in WideScheduler, s.queue >= StartPrefill
  PROVE  LET t == [s EXCEPT !.queue = @ - 1, !.genBefore = s.status.generation] IN
         /\ t \in WideScheduler /\ t.state = s.state /\ t.terminal = s.terminal
         /\ t.lastSent = s.lastSent /\ t.tracking = s.tracking /\ t.ahead = s.ahead
         /\ t.lastCount = s.lastCount /\ t.generation = s.generation
         /\ t.resetSeq = s.resetSeq
         /\ t.available = s.available /\ t.status = s.status
<1>1. s.queue - 1 \in 0..LocalCapacity /\ s.status.generation \in Gens
  BY SchedulerAssumption DEF WideScheduler, TrajectoryStatus
<1> QED
  BY <1>1 DEF WideScheduler

(* An APPLY is chosen from the queue.                                      *)
LEMMA ChooseApplyMoves ==
  ASSUME NEW s \in WideScheduler, s.queue > 0
  PROVE  Moves(s, [s EXCEPT !.queue = @ - 1])
<1>1. s.queue - 1 \in 0..LocalCapacity
  BY SchedulerAssumption DEF WideScheduler
<1> QED
  BY <1>1 DEF Moves, SameStream, IsFault, WideScheduler

(* The answer to the RESET was accepted.                                   *)
LEMMA StartStreamingEffect ==
  ASSUME NEW s \in WideScheduler
  PROVE  LET t == StartStreaming(s) IN
         /\ t \in WideScheduler /\ t.state = "Streaming" /\ t.tracking /\ t.ahead = 0
         /\ t.generation = s.status.generation /\ t.lastCount = s.status.count
         /\ t.lastSent = s.lastSent /\ t.resetSeq = s.resetSeq
         /\ t.available = s.available /\ t.status = s.status
<1> DEFINE gen == s.status.generation
           count == s.status.count
<1>1. /\ "Streaming" \in StreamStates /\ gen \in Gens /\ count \in 0..CountMod - 1
      /\ StartStreaming(s) = [s EXCEPT !.state = "Streaming", !.generation = gen,
                                       !.lastCount = count, !.ahead = 0, !.tracking = TRUE]
  BY DEF StreamStates, WideScheduler, TrajectoryStatus, StartStreaming
<1> HIDE DEF gen, count
<1>0. TRUE \in BOOLEAN /\ 0 \in Int
  OBVIOUS
<1>2. StartStreaming(s) \in WideScheduler
  BY <1>0, <1>1 DEF WideScheduler
<1>3. LET t == StartStreaming(s) IN
      /\ t.state = "Streaming" /\ t.tracking = TRUE /\ t.ahead = 0
      /\ t.generation = gen /\ t.lastCount = count
      /\ t.lastSent = s.lastSent /\ t.resetSeq = s.resetSeq
      /\ t.available = s.available /\ t.status = s.status
  BY <1>1 DEF WideScheduler
<1> QED
  BY <1>2, <1>3 DEF gen, count

(* What is booked behind a frame that was sent.                            *)
LEMMA BookHoldEffect ==
  ASSUME NEW s \in WideScheduler, s.state = "Finishing"
  PROVE  /\ BookHold(s) \in WideScheduler /\ SameStream(s, BookHold(s))
         /\ BookHold(s).state = s.terminal /\ BookHold(s).state \in Rests
<1>1. s.terminal \in StreamStates
  BY DEF WideScheduler, Rests, StreamStates
<1> QED
  BY <1>1 DEF BookHold, SameStream, WideScheduler

(* The frame could not be sent.                                            *)
LEMMA SendFailsEffect ==
  ASSUME NEW s \in WideScheduler
  PROVE  LET t == [s EXCEPT !.state = "Fault"] IN
         t \in WideScheduler /\ SameStream(s, t) /\ t.state = "Fault"
<1>1. "Fault" \in StreamStates
  BY DEF StreamStates
<1> QED
  BY <1>1 DEF SameStream, WideScheduler

LEMMA BookResetEffect ==
  ASSUME NEW s \in WideScheduler, NEW q \in Seqs
  PROVE  LET t == BookReset(s, q) IN
         /\ t \in WideScheduler /\ t.lastSent /\ t.tracking = s.tracking
         /\ t.terminal = s.terminal
         /\ t.ahead = s.ahead /\ t.lastCount = s.lastCount
         /\ t.generation = s.generation
         /\ t.available = s.available /\ t.status = s.status
         /\ IF s.state = "StartPending"
            THEN t.state = "ResetAwaitingAck" /\ t.resetSeq = q
            ELSE t.state = s.state
<1>1. "ResetAwaitingAck" \in StreamStates
  BY DEF StreamStates
<1> QED
  BY <1>1 DEF BookReset, WideScheduler

LEMMA BookApplyEffect ==
  ASSUME NEW s \in WideScheduler
  PROVE  LET t == BookApply(s) IN
         /\ t \in WideScheduler /\ t.lastSent /\ t.ahead = s.ahead + 1
         /\ t.state = s.state /\ t.terminal = s.terminal
         /\ t.tracking = s.tracking /\ t.lastCount = s.lastCount
         /\ t.generation = s.generation /\ t.resetSeq = s.resetSeq
         /\ t.available = s.available /\ t.status = s.status
<1> DEFINE ahead == s.ahead + 1
<1>1. ahead \in Int /\ BookApply(s) = [s EXCEPT !.lastSent = TRUE, !.ahead = ahead]
  BY DEF BookApply, WideScheduler
<1> HIDE DEF ahead
<1>2. LET t == BookApply(s) IN
      /\ t \in WideScheduler /\ t.lastSent = TRUE /\ t.ahead = ahead
      /\ t.state = s.state /\ t.terminal = s.terminal
      /\ t.tracking = s.tracking /\ t.lastCount = s.lastCount
      /\ t.generation = s.generation /\ t.resetSeq = s.resetSeq
      /\ t.available = s.available /\ t.status = s.status
  BY <1>1 DEF WideScheduler
<1> QED
  BY <1>2 DEF ahead

-----------------------------------------------------------------------------
(* Numbers that wrap: what % is below and past the modulus.                *)
LEMMA Wraps ==
  ASSUME NEW m \in Nat \ {0}
  PROVE  /\ \A a \in 0 .. m - 1 : a % m = a
         /\ m % m = 0
         /\ \A a \in 1 - m .. - 1 : a % m = a + m
<1>1. \A a \in 0 .. m - 1 : a % m = a
  OBVIOUS
<1>2. m % m = 0
  OBVIOUS
<1>3. \A a \in 1 - m .. - 1 : a % m = a + m
  OBVIOUS
<1> QED
  BY <1>1, <1>2, <1>3

(* What the counter went on from the one that was read last.               *)
Delta(r, s) ==
  IF s.lastCount <= r.count THEN r.count - s.lastCount
  ELSE r.count - s.lastCount + CountMod

(* update_remote_status.                                                   *)
LEMMA UpdateEffect ==
  ASSUME NEW s \in WideScheduler, NEW r \in TrajectoryStatus
  PROVE  LET t == UpdateRemoteStatus(s, r)
             news == /\ s.tracking /\ r.generation = s.generation
                     /\ r.accepted # NoSeq /\ 2 * Delta(r, s) < CountMod
         IN
         /\ t \in WideScheduler /\ t.state = s.state /\ t.terminal = s.terminal
         /\ t.status = r /\ t.lastSent = s.lastSent /\ t.tracking = s.tracking
         /\ t.generation = s.generation /\ t.resetSeq = s.resetSeq
         /\ t.ahead = IF news THEN s.ahead - Delta(r, s) ELSE s.ahead
         /\ t.lastCount = IF news THEN r.count ELSE s.lastCount
<1>1. /\ r.count \in 0..CountMod - 1 /\ s.lastCount \in 0..CountMod - 1 /\ s.ahead \in Int
      /\ CountMod \in Nat \ {0}
  BY SchedulerAssumption, ContextAssumption DEF WideScheduler, TrajectoryStatus
<1>2. (r.count - s.lastCount) % CountMod = Delta(r, s) /\ Delta(r, s) \in Int
  <2>1. CASE s.lastCount <= r.count
    <3>1. r.count - s.lastCount \in 0 .. CountMod - 1
      BY <1>1, <2>1
    <3> QED
      BY <1>1, <2>1, <3>1, Wraps DEF Delta
  <2>2. CASE s.lastCount > r.count
    <3>1. r.count - s.lastCount \in 1 - CountMod .. - 1
      BY <1>1, <2>2
    <3>2. (r.count - s.lastCount) % CountMod = r.count - s.lastCount + CountMod
      BY <1>1, <3>1, Wraps
    <3> QED
      BY <1>1, <2>2, <3>2 DEF Delta
  <2> QED
    BY <1>1, <2>1, <2>2
<1> DEFINE news == /\ s.tracking /\ r.generation = s.generation
                   /\ r.accepted # NoSeq /\ 2 * Delta(r, s) < CountMod
           ahead == IF news THEN s.ahead - Delta(r, s) ELSE s.ahead
           last == IF news THEN r.count ELSE s.lastCount
<1>3. ahead \in Int /\ last \in 0..CountMod - 1
  BY <1>1, <1>2
<1>4. UpdateRemoteStatus(s, r) =
        [s EXCEPT !.status = r, !.available = TRUE, !.ahead = ahead, !.lastCount = last]
  BY <1>2 DEF UpdateRemoteStatus
<1> HIDE DEF ahead, last
<1>5. LET t == UpdateRemoteStatus(s, r) IN
      /\ t \in WideScheduler /\ t.state = s.state /\ t.terminal = s.terminal
      /\ t.status = r /\ t.lastSent = s.lastSent /\ t.tracking = s.tracking
      /\ t.generation = s.generation /\ t.resetSeq = s.resetSeq
      /\ t.ahead = ahead /\ t.lastCount = last
  BY <1>3, <1>4 DEF WideScheduler
<1> QED
  BY <1>5 DEF ahead, last

-----------------------------------------------------------------------------
(* The stream from the host to the firmware                                *)

Points == [seq : Seqs]

(* The variables have their types; ahead is any integer here, its bounds   *)
(* follow from Traced.                                                     *)
HostTyped ==
  /\ sched \in WideScheduler
  /\ worker \in [pc : {"idle", "send", "book"}, kind : {"RESET", "APPLY", "HOLD"},
                 seq : Seqs \cup {NoSeq}]
  /\ nextSeq \in Seqs
  /\ ctl \in {"read", "readFault", "readAbort", "write", "start", "submit",
              "writeAbort", "settle", "finish"}
  /\ comm \in [hold : BOOLEAN, lost : BOOLEAN]
  /\ mgmt \in {"idle", "quickStop"}

RemoteTyped ==
  /\ ContextInv(Points, traj)
  /\ taken \in 0..CountMod - 1 /\ latched \in BOOLEAN

BusTyped ==
  /\ wire \in Seq(Frame) /\ Len(wire) <= WireLimit
  /\ report \in Seq(TrajectoryStatus) /\ Len(report) <= 1
  /\ age \in [status : 0..StatusLife, report : 0..1]
  /\ lastKind \in {"NONE", "RESET", "APPLY", "HOLD"}

Typed == HostTyped /\ RemoteTyped /\ BusTyped

-----------------------------------------------------------------------------
(* How many frames ago a sequence number was used (the next one: SeqMod),  *)
(* and how many frames the firmware has accepted since it counted c.       *)
Ago(q) == IF q < nextSeq THEN nextSeq - q ELSE nextSeq - q + SeqMod
Since(c) == IF c <= taken THEN taken - c ELSE taken - c + CountMod

Busy(kind) == worker.pc # "idle" /\ worker.kind = kind

(* The states that write() starts a stream in, having read Idle or         *)
(* Holding: a fault may come in between, and so may a service's abort.     *)
Startable == {"Idle", "Holding", "Fault"} \cup (IF Overlap = {} THEN {} ELSE {"ResetRequired"})

(* What the worker has in hand fits the state of the stream.               *)
Phases ==
  /\ ctl = "start" => sched.state \in Startable
  /\ Busy("HOLD") => sched.state = "Finishing"
  /\ Busy("APPLY") => sched.state \in {"Streaming", "Finishing"} /\ sched.tracking
  /\ Busy("RESET") =>
       /\ sched.state \in {"StartPending", "Holding", "ResetRequired", "Fault"}
       /\ ~sched.tracking
  /\ sched.state = "ResetAwaitingAck" => worker.pc = "idle" /\ ~sched.tracking
  /\ sched.state = "Streaming" => sched.tracking
  /\ sched.state \in Opened => sched.lastSent
  /\ sched.state \in {"Idle", "StartPending"} => ~sched.tracking
  /\ ~sched.tracking => sched.ahead = 0
  /\ worker.pc = "book" => lastKind = worker.kind /\ worker.seq \in Seqs

(* The frames on the wire are the last ones sent, in order; no APPLY is    *)
(* behind a RESET.                                                         *)
Numbered(i) == wire[i].kind # "QUICK_STOP"

InOrder ==
  /\ \A i \in DOMAIN wire :
       /\ Numbered(i) => wire[i].seq \in Seqs /\ Ago(wire[i].seq) <= Len(wire) - i + 1
       /\ \A j \in DOMAIN wire : i < j /\ Numbered(i) /\ Numbered(j) =>
            /\ Ago(wire[j].seq) < Ago(wire[i].seq)
            /\ wire[i].kind = "RESET" => wire[j].kind # "APPLY"
  /\ worker.pc = "book" => Ago(worker.seq) = 1
  /\ sched.state = "ResetAwaitingAck" => Ago(sched.resetSeq) = 1

(* A stream is being opened: its RESET was chosen, and not yet answered.   *)
Launching == Busy("RESET") \/ sched.state = "ResetAwaitingAck"

Stopped(r) == ~Active(r)
Pending == report # <<>>
Reported == report[1]

(* Without a stream that is being played, all the firmware can have is the *)
(* one point of a RESET.                                                   *)
Quiet ==
  /\ ~sched.tracking
  /\ Carries("RESET") \/ Launching \/ Stopped(sched.status) \/ (Pending /\ Stopped(Reported))
  => Stopped(traj) \/ (/\ traj.count <= 1 /\ (Prefill > 1 => traj.state = "PREFILL")
                       /\ ~Carries("APPLY"))

(* The frames the host may still send before it starts another stream.     *)
Budget ==
  IF Busy("RESET") THEN IF worker.pc = "send" THEN 2 ELSE 1
  ELSE IF sched.state = "ResetAwaitingAck" THEN 1
  ELSE IF sched.state = "Finishing" /\ ~(worker.pc = "book" /\ worker.kind = "HOLD")
       THEN 1
  ELSE 0

(* A number the firmware accepted is older than all on the wire, and can   *)
(* not come round.                                                         *)
Near(q, bound) ==
  /\ q \in Seqs /\ Ago(q) + Budget <= bound
  /\ \A i \in DOMAIN wire : Numbered(i) => Ago(wire[i].seq) < Ago(q)

Far == WireLimit + 2 * StatusLife + 4
StatusBound == IF Active(sched.status) THEN Far ELSE WireLimit + 2 * age.status + 4

Nears ==
  ~sched.tracking =>
    /\ Launching \/ Stopped(sched.status) =>
         /\ Active(traj) => Near(traj.accepted, StatusBound)
         /\ Pending /\ Active(Reported) => Near(Reported.accepted, StatusBound)
    /\ Launching /\ Active(sched.status) => Near(sched.status.accepted, Far)
    /\ Pending /\ Stopped(Reported) /\ Active(traj) =>
         Near(traj.accepted, WireLimit + 2 * age.report + 2)

(* A report is about the stream the firmware has, and up to date but for   *)
(* points that were taken out and for d points accepted since.             *)
About(r, d) ==
  /\ r.generation = traj.generation
  /\ r.accepted # NoSeq /\ traj.accepted # NoSeq
  /\ Since(r.count) = d /\ traj.count <= r.depth + d
  /\ Stopped(r) => Stopped(traj)

(* The firmware's answer to the last frame sent, a RESET.                  *)
Answers(r) == Active(r) /\ r.accepted \in Seqs /\ Ago(r.accepted) = 1
Awaiting == (worker.pc = "book" /\ worker.kind = "RESET") \/ sched.state = "ResetAwaitingAck"

Answered ==
  Awaiting =>
    /\ Pending /\ Answers(Reported) => About(Reported, 0)
    /\ Answers(sched.status) =>
         /\ About(sched.status, 0)
         /\ Pending => About(Reported, 0)

(* The points sent and not yet known to be accepted.                       *)
Unknown == sched.ahead + (IF Busy("APPLY") THEN 1 ELSE 0)
OneIf(b) == IF b THEN 1 ELSE 0

Traced ==
  sched.tracking =>
    /\ ~Carries("RESET")
    /\ sched.generation = traj.generation /\ sched.lastCount = sched.status.count
    /\ About(sched.status, Since(sched.status.count))
    /\ Since(sched.status.count) + Cardinality(OnWire("APPLY")) + OneIf(InHand("APPLY"))
         <= Unknown
    /\ Unknown <= High
    /\ Pending =>
         /\ About(Reported, Since(Reported.count))
         /\ Since(Reported.count) <= Since(sched.status.count)
         /\ Stopped(sched.status) => Stopped(Reported)

StreamInv ==
  Typed /\ Phases /\ InOrder /\ Quiet /\ Nears /\ Answered /\ Traced /\ CreditRespected

-----------------------------------------------------------------------------
(* What the bounds of Nears are numbers of.                                *)
LEMMA Bounds ==
  ASSUME Typed
  PROVE  /\ \A q \in Seqs : Ago(q) \in 1..SeqMod
         /\ Budget \in 0..2 /\ StatusBound \in Nat /\ StatusBound <= Far
         /\ Far \in Nat /\ Far < SeqMod /\ WireLimit + 4 <= Far
         /\ WireLimit + 2 * age.report + 2 \in Nat
         /\ age.report \in 0..1 /\ age.status \in Nat
<1>1. \A q \in Seqs : Ago(q) \in 1..SeqMod
  BY ContextAssumption DEF Typed, HostTyped, Ago, Seqs
<1>2. Budget \in 0..2
  BY DEF Budget
<1>3. /\ WireLimit \in Nat /\ StatusLife \in Nat /\ SeqMod \in Nat
      /\ WireLimit + 2 * StatusLife + 4 < SeqMod
      /\ age.status \in 0..StatusLife /\ age.report \in 0..1
  BY StreamAssumption, SequenceAssumption, ContextAssumption DEF Typed, BusTyped
<1> QED
  BY <1>1, <1>2, <1>3 DEF StatusBound, Far

(* The frames behind the first one.                                        *)
LEMMA TailElements ==
  ASSUME wire \in Seq(Frame), wire # <<>>
  PROVE  /\ Tail(wire) \in Seq(Frame) /\ Len(Tail(wire)) = Len(wire) - 1
         /\ Len(wire) \in Nat \ {0} /\ 1 \in DOMAIN wire /\ Head(wire) = wire[1]
         /\ Head(wire) \in Frame
         /\ \A i \in DOMAIN Tail(wire) :
              i \in Nat /\ i + 1 \in DOMAIN wire /\ Tail(wire)[i] = wire[i + 1]
OBVIOUS

(* At most one report is on its way.                                       *)
LEMMA ReportElements ==
  ASSUME BusTyped
  PROVE  /\ Len(report) \in 0..1 /\ (Pending <=> Len(report) = 1)
         /\ Pending => /\ Reported \in TrajectoryStatus /\ Head(report) = Reported
                       /\ Tail(report) = <<>>
         /\ age \in [status : 0..StatusLife, report : 0..1]
<1>1. report \in Seq(TrajectoryStatus) /\ Len(report) <= 1
  BY DEF BusTyped
<1>2. Len(report) \in 0..1 /\ (Pending <=> Len(report) = 1)
  <2>1. Len(report) \in Nat /\ (report # <<>> => Len(report) \in Nat \ {0})
    BY <1>1, EmptySeq, LenProperties
  <2>2. report = <<>> => Len(report) = 0
    BY EmptySeq
  <2> QED
    BY <1>1, <2>1, <2>2 DEF Pending
<1>3. ASSUME Pending
      PROVE  /\ Reported \in TrajectoryStatus /\ Head(report) = Reported
             /\ Tail(report) = <<>>
  <2>1. Reported \in TrajectoryStatus /\ Head(report) = Reported
    BY <1>1, <1>2, <1>3 DEF Reported
  <2>2. Tail(report) \in Seq(TrajectoryStatus) /\ Len(Tail(report)) = 0
    BY <1>1, <1>2, <1>3, HeadTailProperties DEF Pending
  <2>3. Tail(report) = <<>>
    BY <2>2, EmptySeq
  <2> QED
    BY <2>1, <2>3
<1> QED
  BY <1>2, <1>3 DEF BusTyped

(* An old number stays near when no frame is sent, a frame is taken off    *)
(* the wire, and the host has not more left to send.                       *)
LEMMA NearKept ==
  ASSUME Typed, nextSeq' = nextSeq,
         \/ wire' = wire
         \/ wire # <<>> /\ wire' = Tail(wire),
         Budget' <= Budget,
         NEW q, NEW bound \in Int, NEW larger \in Int, bound <= larger, Near(q, bound)
  PROVE  Near(q, larger)'
<1>1. Ago(q) \in Int /\ Budget \in Int /\ Budget' \in Int /\ Ago(q)' = Ago(q)
  BY Bounds DEF Near, Budget, Ago
<1>2. \A i \in DOMAIN wire' : \E j \in DOMAIN wire : wire'[i] = wire[j]
  BY TailElements DEF Typed, BusTyped
<1> QED
  BY <1>1, <1>2 DEF Near, Ago, Numbered

(* The stream goes on or ends, at the host, while the worker is where it   *)
(* was.                                                                    *)
HostMoves ==
  /\ Moves(sched, sched')
  /\ ctl' \in {"read", "readFault", "readAbort", "write", "start", "submit",
               "writeAbort", "settle", "finish"}
  /\ ctl' = "start" => sched'.state \in Startable
  /\ comm' \in [hold : BOOLEAN, lost : BOOLEAN] /\ mgmt' \in {"idle", "quickStop"}
  /\ UNCHANGED <<worker, nextSeq, remoteVars, busVars>>

LEMMA HostMovesKeeps ==
  ASSUME StreamInv, HostMoves
  PROVE  StreamInv'
<1>0. /\ UNCHANGED <<worker, nextSeq, traj, taken, latched, wire, report, age, lastKind>>
      /\ SameStream(sched, sched') /\ sched' \in WideScheduler
  BY DEF HostMoves, Moves, remoteVars, busVars
<1>1. Typed'
  BY <1>0 DEF StreamInv, Typed, HostTyped, RemoteTyped, BusTyped, HostMoves
<1>2. Phases'
  BY <1>0 DEF StreamInv, Phases, Busy, Opened, HostMoves, Moves, SameStream, Underway
<1>3. InOrder'
  BY <1>0 DEF StreamInv, InOrder, Ago, Numbered, HostMoves, Moves, Underway, SameStream
<1>4. /\ Launching' => Launching
      /\ ~sched.tracking => Budget' <= Budget
  BY <1>0 DEF StreamInv, Phases, Launching, Budget, Busy, HostMoves, Moves, Underway, Opened
<1>5. Quiet'
  BY <1>0, <1>4 DEF StreamInv, Quiet, Carries, OnWire, Stopped, Active, Pending, Reported,
     SameStream
<1>6. Nears'
  <2>1. /\ sched'.tracking = sched.tracking /\ sched'.status = sched.status
        /\ StatusBound' = StatusBound
    BY <1>0 DEF SameStream, StatusBound, Active
  <2>2. ASSUME NEW q, NEW bound \in Int, ~sched.tracking, Near(q, bound)
        PROVE  Near(q, bound)'
    BY <1>0, <1>4, <2>2, NearKept DEF StreamInv
  <2>3. StatusBound \in Int /\ Far \in Int /\ WireLimit + 2 * age.report + 2 \in Int
    BY Bounds DEF StreamInv
  <2> QED
    BY <1>0, <1>4, <2>1, <2>2, <2>3
       DEF StreamInv, Nears, Stopped, Active, Pending, Reported
<1>7. Answered'
  BY <1>0 DEF StreamInv, Answered, Awaiting, About, Answers, Since, Ago, Stopped, Active,
     Pending, Reported, SameStream, HostMoves, Moves, Underway
<1>8. Traced'
  BY <1>0 DEF StreamInv, Traced, About, Since, Unknown, Busy, InHand, Carries, OnWire, Stopped,
     Active, Pending, Reported, SameStream
<1>9. CreditRespected'
  BY <1>0 DEF StreamInv, CreditRespected, OnWire, InHand
<1> QED
  BY <1>1, <1>2, <1>3, <1>5, <1>6, <1>7, <1>8, <1>9 DEF StreamInv

-----------------------------------------------------------------------------
(* A stream is armed while none is under way.                              *)
HostRestarts ==
  /\ sched.state \in {"Idle", "Holding", "ResetRequired", "Fault"}
  /\ sched' = Restart(sched)
  /\ ctl' \in {"read", "readFault", "readAbort", "write", "submit",
               "writeAbort", "settle", "finish"}
  /\ comm' \in [hold : BOOLEAN, lost : BOOLEAN] /\ mgmt' \in {"idle", "quickStop"}
  /\ UNCHANGED <<worker, nextSeq, remoteVars, busVars>>

LEMMA HostRestartsKeeps ==
  ASSUME StreamInv, HostRestarts
  PROVE  StreamInv'
<1>0. UNCHANGED <<worker, nextSeq, traj, taken, latched, wire, report, age, lastKind>>
  BY DEF HostRestarts, remoteVars, busVars
<1>a. /\ sched' \in WideScheduler /\ sched'.state = "StartPending" /\ sched'.lastSent = FALSE
      /\ sched'.tracking = FALSE /\ sched'.ahead = 0 /\ sched'.status = sched.status
  BY RestartEffect DEF HostRestarts, StreamInv, Typed, HostTyped
<1>b. sched.tracking => Traced /\ ~Busy("RESET")
  BY DEF StreamInv, Phases
<1>1. Typed'
  BY <1>0, <1>a DEF StreamInv, Typed, HostTyped, RemoteTyped, BusTyped, HostRestarts
<1>2. Phases'
  BY <1>0, <1>a DEF StreamInv, Phases, Busy, Opened, HostRestarts
<1>3. InOrder'
  BY <1>0, <1>a DEF StreamInv, InOrder, Ago, Numbered
<1>4. /\ Launching' <=> Launching
      /\ Launching => Busy("RESET")
      /\ Budget' <= Budget
  BY <1>0, <1>a DEF StreamInv, Phases, Launching, Budget, Busy, HostRestarts
<1>c. sched.tracking =>
        /\ ~Carries("RESET") /\ ~Launching
        /\ Stopped(sched.status) => Stopped(traj) /\ (Pending => Stopped(Reported))
        /\ Pending /\ Stopped(Reported) => Stopped(traj)
  BY <1>b, <1>4 DEF Traced, About
<1>5. Quiet'
  BY <1>0, <1>a, <1>4, <1>c
     DEF StreamInv, Quiet, Carries, OnWire, Stopped, Active, Pending, Reported
<1>6. Nears'
  <2>1. StatusBound' = StatusBound
    BY <1>0, <1>a DEF StatusBound, Active
  <2>2. ASSUME NEW q, NEW bound \in Int, Near(q, bound)
        PROVE  Near(q, bound)'
    BY <1>0, <1>4, <2>2, NearKept DEF StreamInv
  <2>3. StatusBound \in Int /\ Far \in Int /\ WireLimit + 2 * age.report + 2 \in Int
    BY Bounds DEF StreamInv
  <2>4. CASE sched.tracking
    BY <1>0, <1>a, <1>4, <1>c, <2>4 DEF Nears, Stopped, Active, Pending, Reported
  <2>5. CASE ~sched.tracking
    BY <1>0, <1>a, <1>4, <2>1, <2>2, <2>3, <2>5
       DEF StreamInv, Nears, Stopped, Active, Pending, Reported
  <2> QED
    BY <2>4, <2>5
<1>7. Answered'
  BY <1>0, <1>a DEF StreamInv, Answered, Awaiting, About, Answers, Since, Ago, Stopped,
                    Active, Pending, Reported
<1>8. Traced'
  BY <1>a DEF Traced
<1>9. CreditRespected'
  BY <1>0 DEF StreamInv, CreditRespected, OnWire, InHand
<1> QED
  BY <1>1, <1>2, <1>3, <1>5, <1>6, <1>7, <1>8, <1>9 DEF StreamInv

-----------------------------------------------------------------------------
(* The worker: the stream ends, and its HOLD is chosen in the same cycle.  *)
HoldChosen ==
  /\ worker.pc = "idle" /\ sched.state \in Underway
  /\ Moves(sched, sched') /\ sched'.state = "Finishing"
  /\ worker' = [Resting EXCEPT !.pc = "send", !.kind = "HOLD"]
  /\ UNCHANGED <<nextSeq, ctl, comm, mgmt, remoteVars, busVars>>

LEMMA HoldChosenKeeps ==
  ASSUME StreamInv, HoldChosen
  PROVE  StreamInv'
<1>0. /\ UNCHANGED <<nextSeq, ctl, comm, mgmt, traj, taken, latched, wire, report, age, lastKind>>
      /\ SameStream(sched, sched') /\ sched' \in WideScheduler
      /\ worker' = [pc |-> "send", kind |-> "HOLD", seq |-> NoSeq]
  BY DEF HoldChosen, Moves, remoteVars, busVars, Resting
<1>1. Typed'
  BY <1>0 DEF StreamInv, Typed, HostTyped, RemoteTyped, BusTyped
<1>2. Phases'
  BY <1>0 DEF StreamInv, Phases, Busy, Opened, Startable, HoldChosen, SameStream, Underway
<1>3. InOrder'
  BY <1>0 DEF StreamInv, InOrder, Ago, Numbered, HoldChosen
<1>4. /\ ~Launching'
      /\ ~sched.tracking => Budget' <= Budget
  BY <1>0 DEF StreamInv, Phases, Launching, Budget, Busy, HoldChosen, Underway, Opened
<1>5. Quiet'
  BY <1>0, <1>4 DEF StreamInv, Quiet, Carries, OnWire, Stopped, Active, Pending, Reported,
     SameStream
<1>6. Nears'
  <2>1. /\ sched'.tracking = sched.tracking /\ sched'.status = sched.status
        /\ StatusBound' = StatusBound
    BY <1>0 DEF SameStream, StatusBound, Active
  <2>2. ASSUME NEW q, NEW bound \in Int, ~sched.tracking, Near(q, bound)
        PROVE  Near(q, bound)'
    BY <1>0, <1>4, <2>2, NearKept DEF StreamInv
  <2>3. StatusBound \in Int /\ Far \in Int /\ WireLimit + 2 * age.report + 2 \in Int
    BY Bounds DEF StreamInv
  <2> QED
    BY <1>0, <1>4, <2>1, <2>2, <2>3
       DEF StreamInv, Nears, Stopped, Active, Pending, Reported
<1>7. Answered'
  BY <1>0 DEF Answered, Awaiting, HoldChosen
<1>8. Traced'
  BY <1>0 DEF StreamInv, Traced, About, Since, Unknown, Busy, InHand, Carries, OnWire, Stopped,
              Active, Pending, Reported, SameStream, HoldChosen
<1>9. CreditRespected'
  BY <1>0 DEF StreamInv, CreditRespected, OnWire, InHand, HoldChosen
<1> QED
  BY <1>1, <1>2, <1>3, <1>5, <1>6, <1>7, <1>8, <1>9 DEF StreamInv

(* The RESET of a stream is chosen, on a status that shows none.           *)
LEMMA DecideResetKeeps ==
  ASSUME StreamInv, DecideReset
  PROVE  StreamInv'
<1>0. /\ UNCHANGED <<nextSeq, ctl, comm, mgmt, traj, taken, latched, wire, report, lastKind>>
      /\ worker.pc = "idle" /\ sched.state = "StartPending"
      /\ worker' = [pc |-> "send", kind |-> "RESET", seq |-> NoSeq]
      /\ Stopped(sched.status) /\ age.status < StatusLife
      /\ Pending => age.report = 0
      /\ age' = [status |-> age.status + 1, report |-> Len(report)]
  BY DEF DecideReset, Choosing, Worker, Chosen, Resting, RemoteAllowsReset, Stopped, Active,
         Pending, remoteVars, busVars
<1>a. /\ sched' \in WideScheduler /\ sched'.state = "StartPending"
      /\ sched'.lastSent = sched.lastSent /\ sched'.tracking = sched.tracking
      /\ sched'.ahead = sched.ahead /\ sched'.resetSeq = sched.resetSeq
      /\ sched'.status = sched.status
  BY <1>0, ChooseResetEffect DEF DecideReset, StreamInv, Typed, HostTyped
<1>b. sched.tracking = FALSE
  BY <1>0 DEF StreamInv, Phases, Typed, HostTyped, WideScheduler
<1>c. /\ Len(report) \in 0..1 /\ (Pending <=> Len(report) = 1)
      /\ age \in [status : 0..StatusLife, report : 0..1]
  BY ReportElements DEF StreamInv, Typed
<1>1. Typed'
  <2>1. age' \in [status : 0..StatusLife, report : 0..1]
    BY <1>0, <1>c, StreamAssumption
  <2> QED
    BY <1>0, <1>a, <2>1 DEF StreamInv, Typed, HostTyped, RemoteTyped, BusTyped
<1>2. Phases'
  BY <1>0, <1>a, <1>b DEF StreamInv, Phases, Busy, Opened
<1>3. InOrder'
  BY <1>0, <1>a DEF StreamInv, InOrder, Ago, Numbered
<1>5. Quiet'
  BY <1>0, <1>a DEF StreamInv, Quiet, Carries, OnWire, Stopped, Active, Pending, Reported
<1>6. Nears'
  <2>1. /\ StatusBound' = StatusBound + 2
        /\ Pending => (WireLimit + 2 * age.report + 2)' = (WireLimit + 2 * age.report + 2) + 2
    <3>1. /\ StatusBound = WireLimit + 2 * age.status + 4
          /\ StatusBound' = WireLimit + 2 * (age'.status) + 4
      BY <1>0, <1>a DEF StatusBound, Stopped
    <3>2. age'.status = age.status + 1 /\ age'.report = Len(report)
      BY <1>0
    <3>3. age.status \in Nat /\ WireLimit \in Nat
          /\ (Pending => Len(report) = 1 /\ age.report = 0)
      BY <1>0, <1>c, StreamAssumption
    <3>4. StatusBound' = StatusBound + 2
      BY <3>1, <3>2, <3>3
    <3>5. Pending => age.report = 0 /\ age'.report = 1
      BY <3>2, <3>3
    <3>6. Pending => WireLimit + 2 * age'.report + 2 = WireLimit + 2 * age.report + 2 + 2
      BY <3>3, <3>5
    <3> QED
      BY <3>4, <3>6
  <2>2. ASSUME NEW q, NEW bound \in Int, Near(q, bound)
        PROVE  Near(q, bound + 2)'
    <3>1. Budget = 0 /\ Budget' = 2 /\ Ago(q) \in Int /\ Ago(q)' = Ago(q)
      BY <1>0, <1>a, <2>2, Bounds DEF Budget, Busy, Near, Ago, StreamInv
    <3> QED
      BY <1>0, <2>2, <3>1 DEF Near, Ago, Numbered
  <2>3. StatusBound \in Int /\ Far \in Int /\ WireLimit + 2 * age.report + 2 \in Int
    BY Bounds DEF StreamInv
  <2> QED
    BY <1>0, <1>a, <1>b, <2>1, <2>2, <2>3
       DEF StreamInv, Nears, Stopped, Active, Pending, Reported
<1>7. Answered'
  BY <1>0, <1>a DEF Answered, Awaiting
<1>8. Traced'
  BY <1>a, <1>b DEF Traced
<1>9. CreditRespected'
  BY <1>0 DEF StreamInv, CreditRespected, OnWire, InHand
<1> QED
  BY <1>1, <1>2, <1>3, <1>5, <1>6, <1>7, <1>8, <1>9 DEF StreamInv

(* The frames of one kind on the wire can be counted, and so can the       *)
(* frames the firmware accepted.                                           *)
LEMMA Counts ==
  ASSUME Typed
  PROVE  /\ \A k : IsFiniteSet(OnWire(k)) /\ Cardinality(OnWire(k)) \in Nat
         /\ Cardinality({}) = 0
         /\ \A c \in 0..CountMod - 1 : Since(c) \in 0..CountMod - 1
         /\ Since(taken) = 0
         /\ sched.status \in TrajectoryStatus /\ sched.status.count \in 0..CountMod - 1
         /\ sched.status.depth \in Nat /\ traj.count \in Nat /\ sched.ahead \in Int
         /\ High \in Nat \ {0} /\ High <= Capacity /\ CountMod > 2 * Capacity
         /\ Capacity \in Nat /\ CountMod \in Nat
<1>1. ASSUME NEW k PROVE IsFiniteSet(OnWire(k)) /\ Cardinality(OnWire(k)) \in Nat
  <2>1. OnWire(k) \in SUBSET (1..Len(wire)) /\ Len(wire) \in Nat
    BY LenProperties DEF OnWire, Typed, BusTyped
  <2>2. IsFiniteSet(1..Len(wire))
    BY <2>1, FS_Interval
  <2>3. IsFiniteSet(OnWire(k))
    BY <2>1, <2>2, FS_Subset
  <2> QED
    BY <2>3, FS_CardinalityType
<1>2. \A c \in 0..CountMod - 1 : Since(c) \in 0..CountMod - 1
  BY SchedulerAssumption DEF Since, Typed, RemoteTyped
<1>3. Since(taken) = 0
  BY SchedulerAssumption DEF Since, Typed, RemoteTyped
<1>4. /\ sched.status \in TrajectoryStatus /\ sched.ahead \in Int
  BY DEF Typed, HostTyped, WideScheduler
<1>5. sched.status.count \in 0..CountMod - 1 /\ sched.status.depth \in Nat /\ traj.count \in Nat
  BY <1>4, ContextAssumption DEF TrajectoryStatus, Typed, RemoteTyped, ContextInv, Context
<1> QED
  BY <1>1, <1>2, <1>3, <1>4, <1>5, FS_EmptySet, SchedulerAssumption, ContextAssumption

(* A number that was used last and is older than all on the wire: no frame *)
(* of the stream is on the wire.                                           *)
LEMMA NothingBehind ==
  ASSUME Typed, InOrder, NEW q, NEW bound, Near(q, bound), Ago(q) = 1
  PROVE  ~Carries("RESET") /\ ~Carries("APPLY") /\ ~Carries("HOLD")
<1>1. ASSUME NEW i \in DOMAIN wire, Numbered(i) PROVE FALSE
  <2>1. Ago(wire[i].seq) \in 1..SeqMod
    BY <1>1, Bounds DEF InOrder
  <2> QED
    BY <1>1, <2>1, ContextAssumption DEF Near
<1> QED
  BY <1>1 DEF Carries, OnWire, Numbered

(* The answer to the RESET is accepted.                                    *)
LEMMA DecideAckAcceptedKeeps ==
  ASSUME StreamInv, DecideAckAccepted
  PROVE  StreamInv'
<1>0. /\ UNCHANGED <<worker, nextSeq, ctl, comm, mgmt, traj, taken, latched, wire, report, age, lastKind>>
      /\ worker.pc = "idle" /\ sched.state = "ResetAwaitingAck"
      /\ Active(sched.status) /\ sched.status.accepted = sched.resetSeq
  BY DEF DecideAckAccepted, Deciding, Choosing, Worker, ResetAccepted, remoteVars, busVars
<1>a. /\ sched' \in WideScheduler /\ sched'.state = "Streaming" /\ sched'.tracking = TRUE
      /\ sched'.ahead = 0 /\ sched'.generation = sched.status.generation
      /\ sched'.lastCount = sched.status.count /\ sched'.lastSent = sched.lastSent
      /\ sched'.status = sched.status
  BY StartStreamingEffect DEF DecideAckAccepted, StreamInv, Typed, HostTyped
<1>b. sched.tracking = FALSE /\ sched.lastSent = TRUE
  BY <1>0 DEF StreamInv, Phases, Typed, HostTyped, WideScheduler, Opened
<1>c. Answers(sched.status)
  BY <1>0 DEF Answers, StreamInv, InOrder, Typed, HostTyped, WideScheduler
<1>d. ~Carries("RESET") /\ ~Carries("APPLY")
  BY <1>0, <1>b, <1>c, NothingBehind DEF StreamInv, Nears, Launching, Answers
<1>e. About(sched.status, 0) /\ (Pending => About(Reported, 0))
  BY <1>0, <1>c DEF StreamInv, Answered, Awaiting
<1>1. Typed'
  BY <1>0, <1>a DEF StreamInv, Typed, HostTyped, RemoteTyped, BusTyped
<1>2. Phases'
  BY <1>0, <1>a, <1>b DEF StreamInv, Phases, Busy, Opened, Startable
<1>3. InOrder'
  BY <1>0, <1>a DEF StreamInv, InOrder, Ago, Numbered
<1>5. Quiet'
  BY <1>a DEF Quiet
<1>6. Nears'
  BY <1>a DEF Nears
<1>7. Answered'
  BY <1>0, <1>a DEF Answered, Awaiting
<1>8. Traced'
  <2>1. OnWire("APPLY") = {} /\ Cardinality(OnWire("APPLY")) = 0 /\ High \in Nat
    BY <1>d, Counts DEF StreamInv, Carries
  <2>2. Unknown' = 0 /\ OneIf(InHand("APPLY")') = 0
    BY <1>0, <1>a DEF Unknown, Busy, InHand, OneIf
  <2>3. Since(sched.status.count) = 0 /\ (Pending => Since(Reported.count) = 0)
    BY <1>e DEF About
  <2> QED
    BY <1>0, <1>a, <1>d, <1>e, <2>1, <2>2, <2>3
       DEF Traced, About, Since, Carries, OnWire, Stopped, Active, Pending, Reported, OneIf
<1>9. CreditRespected'
  BY <1>0 DEF StreamInv, CreditRespected, OnWire, InHand
<1> QED
  BY <1>1, <1>2, <1>3, <1>5, <1>6, <1>7, <1>8, <1>9 DEF StreamInv

(* A point, or the last one again, is chosen while there is room for it.   *)
LEMMA ApplyChosenKeeps ==
  ASSUME StreamInv, DecideApply \/ DecideFiller
  PROVE  StreamInv'
<1>0. /\ UNCHANGED <<nextSeq, ctl, comm, mgmt, traj, taken, latched, wire, report, age, lastKind>>
      /\ worker.pc = "idle" /\ sched.state = "Streaming"
      /\ worker' = [pc |-> "send", kind |-> "APPLY", seq |-> NoSeq]
      /\ Room(sched)
  BY DEF DecideApply, DecideFiller, MaySend, Deciding, Choosing, Worker, Chosen, Resting,
         remoteVars, busVars
<1>a. Moves(sched, sched') /\ sched'.state = "Streaming"
  <2>1. sched \in WideScheduler /\ Sent(sched)
    BY DEF StreamInv, Typed, HostTyped, Phases, Sent, Opened, Underway
  <2>2. CASE DecideApply
    BY <1>0, <2>1, <2>2, ChooseApplyMoves DEF DecideApply, Moves, Underway
  <2>3. CASE DecideFiller
    BY <1>0, <2>1, <2>3, CallsMove DEF DecideFiller
  <2> QED
    BY <2>2, <2>3
<1>b. SameStream(sched, sched') /\ sched' \in WideScheduler /\ sched.tracking = TRUE
      /\ sched.lastSent = TRUE
  BY <1>0, <1>a DEF Moves, StreamInv, Phases, Typed, HostTyped, WideScheduler, Opened
<1>c. sched'.tracking = TRUE /\ sched'.status = sched.status
  BY <1>b DEF SameStream
<1>d. /\ sched.status.depth + Unacknowledged(sched) < High
      /\ Since(sched.status.count) + Cardinality(OnWire("APPLY")) <= sched.ahead
      /\ traj.count <= sched.status.depth + Since(sched.status.count)
  <2>1. Unknown = sched.ahead /\ OneIf(InHand("APPLY")) = 0
    BY <1>0, Counts DEF Unknown, Busy, InHand, OneIf, StreamInv
  <2> QED
    BY <1>0, <1>b, <2>1, Counts DEF Room, StreamInv, Traced, About
<1>e. /\ sched.ahead + 1 <= High
      /\ traj.count + Cardinality(OnWire("APPLY")) + 1 <= High
  BY <1>d, Counts DEF Unacknowledged, StreamInv
<1>1. Typed'
  BY <1>0, <1>b DEF StreamInv, Typed, HostTyped, RemoteTyped, BusTyped
<1>2. Phases'
  BY <1>0, <1>a, <1>b DEF StreamInv, Phases, Busy, Opened, SameStream
<1>3. InOrder'
  BY <1>0, <1>a DEF StreamInv, InOrder, Ago, Numbered
<1>5. Quiet'
  BY <1>c DEF Quiet
<1>6. Nears'
  BY <1>c DEF Nears
<1>7. Answered'
  BY <1>0, <1>a DEF Answered, Awaiting
<1>8. Traced'
  <2>1. /\ Unknown' = sched.ahead + 1 /\ OneIf(InHand("APPLY"))' = 1
        /\ OnWire("APPLY")' = OnWire("APPLY")
    BY <1>0, <1>b DEF Unknown, Busy, InHand, OneIf, OnWire, SameStream
  <2>2. Since(sched.status.count) + Cardinality(OnWire("APPLY")) + 1 <= sched.ahead + 1
    BY <1>d, Counts DEF StreamInv
  <2> QED
    BY <1>0, <1>b, <1>c, <1>e, <2>1, <2>2
       DEF StreamInv, Traced, About, Since, Carries, OnWire, Stopped, Active, Pending, Reported,
           SameStream
<1>9. CreditRespected'
  BY <1>0, <1>e DEF StreamInv, CreditRespected, OnWire, InHand
<1> QED
  BY <1>1, <1>2, <1>3, <1>5, <1>6, <1>7, <1>8, <1>9 DEF StreamInv

-----------------------------------------------------------------------------
(* A frame is put behind those on the wire.                                *)
LEMMA AppendElements ==
  ASSUME Typed, NEW f \in Frame, wire' = Append(wire, f)
  PROVE  /\ wire' \in Seq(Frame) /\ Len(wire') = Len(wire) + 1 /\ Len(wire) \in Nat
         /\ DOMAIN wire = 1..Len(wire) /\ DOMAIN wire' = 1..Len(wire) + 1
         /\ \A i \in DOMAIN wire : wire'[i] = wire[i]
         /\ wire'[Len(wire) + 1] = f
         /\ \A k : Cardinality(OnWire(k))' = Cardinality(OnWire(k)) + OneIf(f.kind = k)
         /\ \A k : Carries(k)' <=> Carries(k) \/ f.kind = k
<1>1. /\ wire' \in Seq(Frame) /\ Len(wire') = Len(wire) + 1 /\ Len(wire) \in Nat
      /\ DOMAIN wire = 1..Len(wire) /\ DOMAIN wire' = 1..Len(wire) + 1
      /\ \A i \in DOMAIN wire : wire'[i] = wire[i]
      /\ wire'[Len(wire) + 1] = f
  BY AppendProperties, LenProperties DEF Typed, BusTyped
<1>2. ASSUME NEW k
      PROVE  OnWire(k)' = OnWire(k) \cup (IF f.kind = k THEN {Len(wire) + 1} ELSE {})
  BY <1>1 DEF OnWire
<1>3. ASSUME NEW k
      PROVE  /\ Cardinality(OnWire(k))' = Cardinality(OnWire(k)) + OneIf(f.kind = k)
             /\ Carries(k)' <=> Carries(k) \/ f.kind = k
  <2>0. Len(wire) + 1 \notin OnWire(k)
    BY <1>1 DEF OnWire
  <2>1. IsFiniteSet(OnWire(k)) /\ Cardinality(OnWire(k)) \in Nat
    BY Counts
  <2>2. Cardinality(OnWire(k) \cup {Len(wire) + 1}) = Cardinality(OnWire(k)) + 1
    BY <2>0, <2>1, FS_AddElement
  <2>3. CASE f.kind = k
    BY <1>2, <2>2, <2>3 DEF OneIf, Carries
  <2>4. CASE f.kind # k
    <3>1. OnWire(k)' = OnWire(k)
      BY <1>2, <2>4
    <3> QED
      BY <2>1, <2>4, <3>1 DEF OneIf, Carries
  <2> QED
    BY <2>3, <2>4
<1> QED
  BY <1>1, <1>3

(* CspScheduler::run sends the frame it chose.                             *)
LEMMA SendKeeps ==
  ASSUME StreamInv, Send
  PROVE  StreamInv'
<1> DEFINE f == [kind |-> worker.kind, seq |-> nextSeq]
           After(q) == IF q < nextSeq' THEN nextSeq' - q ELSE nextSeq' - q + SeqMod
<1>0. /\ UNCHANGED <<sched, ctl, comm, mgmt, traj, taken, latched, report, age>>
      /\ worker.pc = "send" /\ worker' = [worker EXCEPT !.pc = "book", !.seq = nextSeq]
      /\ wire' = Append(wire, f) /\ Len(wire) < WireLimit
      /\ nextSeq' = SeqInc(nextSeq) /\ lastKind' = worker.kind
  BY DEF Send, Worker, remoteVars
<1>a. /\ worker.kind \in {"RESET", "APPLY", "HOLD"} /\ nextSeq \in Seqs /\ f \in Frame
      /\ worker'.pc = "book" /\ worker'.kind = worker.kind /\ worker'.seq = nextSeq
      /\ WireLimit \in Nat
  BY <1>0, StreamAssumption DEF StreamInv, Typed, HostTyped, Frame
<1>b. /\ wire' \in Seq(Frame) /\ Len(wire') = Len(wire) + 1 /\ Len(wire) \in Nat
      /\ DOMAIN wire = 1..Len(wire) /\ DOMAIN wire' = 1..Len(wire) + 1
      /\ \A i \in DOMAIN wire : wire'[i] = wire[i]
      /\ wire'[Len(wire) + 1] = f /\ f.kind = worker.kind /\ f.seq = nextSeq
      /\ \A k : Cardinality(OnWire(k))' = Cardinality(OnWire(k)) + OneIf(worker.kind = k)
      /\ \A k : Carries(k)' <=> Carries(k) \/ worker.kind = k
  BY <1>0, <1>a, AppendElements DEF StreamInv
<1>c. /\ \A q \in Seqs : Ago(q) < SeqMod => After(q) = Ago(q) + 1
      /\ After(nextSeq) = 1
      /\ \A q \in Seqs : Ago(q) \in 1..SeqMod
      /\ Len(wire) < SeqMod /\ Far < SeqMod /\ Far \in Nat
  <2>1. /\ Far < SeqMod /\ Far \in Nat /\ WireLimit <= Far
        /\ \A q \in Seqs : Ago(q) \in 1..SeqMod
    BY <1>a, Bounds DEF StreamInv
  <2>2. /\ \A q \in Seqs : Ago(q) < SeqMod => After(q) = Ago(q) + 1
        /\ After(nextSeq) = 1
    <3>1. SeqMod \in Nat /\ SeqMod > 1 /\ nextSeq \in 0..SeqMod - 1
      BY <1>a, ContextAssumption DEF Seqs
    <3>2. CASE nextSeq = SeqMod - 1
      <4>1. nextSeq' = 0
        BY <1>0, <3>2 DEF SeqInc
      <4> QED
        BY <3>1, <3>2, <4>1 DEF Ago, Seqs
    <3>3. CASE nextSeq # SeqMod - 1
      <4>1. nextSeq' = nextSeq + 1
        BY <1>0, <3>3 DEF SeqInc
      <4> QED
        BY <3>1, <3>3, <4>1 DEF Ago, Seqs
    <3> QED
      BY <3>2, <3>3
  <2> QED
    BY <1>0, <1>a, <1>b, <2>1, <2>2, ContextAssumption
<1> HIDE DEF f
<1>d. /\ worker.kind = "APPLY" => sched.tracking /\ ~Carries("RESET")
      /\ worker.kind = "RESET" => ~sched.tracking /\ Launching
      /\ worker.kind = "HOLD" => sched.state = "Finishing"
      /\ sched.state # "ResetAwaitingAck"
  BY <1>0, <1>a DEF StreamInv, Phases, Busy, Traced, Launching
<1>1. Typed'
  <2>1. SeqInc(nextSeq) \in Seqs /\ Len(wire') <= WireLimit
    BY <1>0, <1>a, <1>b, IncTypes
  <2>2. HostTyped'
    BY <1>0, <1>a, <2>1 DEF StreamInv, Typed, HostTyped
  <2>3. RemoteTyped' /\ BusTyped'
    BY <1>0, <1>a, <1>b, <2>1 DEF StreamInv, Typed, RemoteTyped, BusTyped
  <2> QED
    BY <2>2, <2>3 DEF Typed
<1>2. Phases'
  BY <1>0, <1>a DEF StreamInv, Phases, Busy, Opened
<1>3. InOrder'
  <2>1. ASSUME NEW i \in DOMAIN wire, Numbered(i)
        PROVE  /\ wire[i].seq \in Seqs /\ After(wire[i].seq) = Ago(wire[i].seq) + 1
               /\ Ago(wire[i].seq) \in 1..Len(wire) - i + 1
    BY <2>1, <1>b, <1>c, ContextAssumption DEF StreamInv, InOrder
  <2>2. ASSUME NEW i \in DOMAIN wire'
        PROVE  /\ i \in Nat
               /\ \/ i \in DOMAIN wire /\ wire'[i] = wire[i] /\ (Numbered(i)' <=> Numbered(i))
                  \/ i = Len(wire) + 1 /\ wire'[i] = f
    BY <1>b DEF Numbered
  <2>3. ASSUME NEW i \in DOMAIN wire', Numbered(i)'
        PROVE  wire'[i].seq \in Seqs /\ After(wire'[i].seq) <= Len(wire') - i + 1
    BY <1>a, <1>b, <1>c, <2>1, <2>2, <2>3
  <2>4. ASSUME NEW i \in DOMAIN wire', NEW j \in DOMAIN wire', i < j, Numbered(i)', Numbered(j)'
        PROVE  /\ After(wire'[j].seq) < After(wire'[i].seq)
               /\ wire'[i].kind = "RESET" => wire'[j].kind # "APPLY"
    <3>1. i \in DOMAIN wire /\ wire'[i] = wire[i] /\ Numbered(i)
      BY <1>b, <2>2, <2>4
    <3>2. CASE j \in DOMAIN wire
      BY <1>b, <2>1, <2>2, <2>4, <3>1, <3>2 DEF StreamInv, InOrder, Numbered
    <3>3. CASE j = Len(wire) + 1
      <4>1. After(wire'[j].seq) < After(wire'[i].seq)
        BY <1>b, <1>c, <2>1, <3>1, <3>3
      <4>2. wire[i].kind = "RESET" => Carries("RESET")
        BY <3>1 DEF Carries, OnWire
      <4> QED
        BY <1>b, <1>d, <3>1, <3>3, <4>1, <4>2
    <3> QED
      BY <2>2, <3>2, <3>3
  <2> QED
    BY <1>0, <1>a, <1>c, <1>d, <2>3, <2>4 DEF InOrder, Ago, Numbered
<1>5. Quiet'
  <2>1. Launching' => Launching
    BY <1>0, <1>a DEF Launching, Busy
  <2>2. ~sched.tracking => ~(worker.kind = "APPLY")
    BY <1>d
  <2> QED
    BY <1>0, <1>b, <1>d, <2>1, <2>2
       DEF StreamInv, Quiet, Stopped, Active, Pending, Reported
<1>6. Nears'
  <2>1. Launching' <=> Launching
    BY <1>0, <1>a DEF Launching, Busy
  <2>2. StatusBound' = StatusBound
    BY <1>0 DEF StatusBound, Active
  <2>3. ~sched.tracking => Budget' = Budget - 1
    BY <1>0, <1>a, <1>d DEF Budget, Busy
  <2>4. ASSUME NEW q, NEW bound \in Int, bound <= Far, ~sched.tracking, Near(q, bound)
        PROVE  Near(q, bound)'
    <3>1. q \in Seqs /\ Ago(q) \in 1..SeqMod - 1 /\ After(q) = Ago(q) + 1
      BY <1>c, <2>4, Bounds, ContextAssumption DEF Near, StreamInv
    <3>2. After(q) + Budget' <= bound
      BY <2>3, <2>4, <3>1, Bounds DEF Near, StreamInv
    <3>3. ASSUME NEW i \in DOMAIN wire', Numbered(i)' PROVE After(wire'[i].seq) < After(q)
      <4>1. CASE i \in DOMAIN wire
        <5>1. wire'[i] = wire[i] /\ Numbered(i)
          BY <1>b, <3>3, <4>1 DEF Numbered
        <5>2. wire[i].seq \in Seqs /\ Ago(wire[i].seq) < Ago(q)
          BY <2>4, <4>1, <5>1 DEF Near, StreamInv, InOrder
        <5> QED
          BY <1>c, <3>1, <5>1, <5>2, ContextAssumption
      <4>2. CASE i = Len(wire) + 1
        BY <1>b, <1>c, <3>1, <4>2
      <4> QED
        BY <1>b, <4>1, <4>2
    <3> QED
      BY <3>1, <3>2, <3>3 DEF Near, Ago, Numbered
  <2>5. /\ StatusBound \in Int /\ Far \in Int /\ WireLimit + 2 * age.report + 2 \in Int
        /\ StatusBound <= Far /\ WireLimit + 2 * age.report + 2 <= Far
    BY <1>a, Bounds DEF StreamInv
  <2> QED
    BY <1>0, <2>1, <2>2, <2>4, <2>5
       DEF StreamInv, Nears, Stopped, Active, Pending, Reported
<1>7. Answered'
  <2>1. ASSUME Awaiting', NEW r, Active(r), Near(r.accepted, Far) \/ Near(r.accepted, StatusBound)
        PROVE  ~Answers(r)'
    <3>1. r.accepted \in Seqs /\ Ago(r.accepted) \in 1..SeqMod - 1
      BY <1>c, <2>1, Bounds, ContextAssumption DEF Near, StreamInv
    <3> QED
      <4>1. After(r.accepted) # 1
        BY <1>c, <3>1, ContextAssumption
      <4> QED
        BY <4>1 DEF Answers, Ago
  <2>2. Awaiting' => ~sched.tracking /\ Launching
    BY <1>0, <1>a, <1>d DEF Awaiting
  <2> QED
    BY <1>0, <2>1, <2>2
       DEF StreamInv, Nears, Answered, Answers, Active, Pending, Reported, Stopped
<1>8. Traced'
  <2>1. /\ Unknown' = Unknown
        /\ OneIf(InHand("APPLY"))' + OneIf(worker.kind = "APPLY") = OneIf(InHand("APPLY"))
    BY <1>0, <1>a DEF Unknown, Busy, InHand, OneIf
  <2>2. /\ Cardinality(OnWire("APPLY")) \in Nat /\ Since(sched.status.count) \in Nat
        /\ OneIf(InHand("APPLY")) \in Nat /\ OneIf(InHand("APPLY"))' \in Nat
        /\ OneIf(worker.kind = "APPLY") \in Nat
    BY Counts DEF StreamInv, OneIf
  <2>3. Cardinality(OnWire("APPLY"))' + OneIf(InHand("APPLY"))'
          = Cardinality(OnWire("APPLY")) + OneIf(InHand("APPLY"))
    BY <1>b, <2>1, <2>2
  <2>4. Since(sched.status.count) + Cardinality(OnWire("APPLY"))' + OneIf(InHand("APPLY"))'
          = Since(sched.status.count) + Cardinality(OnWire("APPLY")) + OneIf(InHand("APPLY"))
    BY <1>b, <2>1, <2>2
  <2>5. sched.tracking => ~Carries("RESET")'
    BY <1>b, <1>d DEF StreamInv, Traced
  <2> QED
    BY <1>0, <2>1, <2>4, <2>5
       DEF StreamInv, Traced, About, Since, Stopped, Active, Pending, Reported
<1>9. CreditRespected'
  <2>1. OneIf(InHand("APPLY"))' + OneIf(worker.kind = "APPLY") = OneIf(InHand("APPLY"))
    BY <1>0, <1>a DEF InHand, OneIf
  <2>2. CreditRespected <=> traj.count + Cardinality(OnWire("APPLY")) + OneIf(InHand("APPLY")) <= High
    BY DEF CreditRespected, OneIf
  <2>3. CreditRespected' <=>
          traj.count + Cardinality(OnWire("APPLY"))' + OneIf(InHand("APPLY"))' <= High
    BY <1>0 DEF CreditRespected, OneIf
  <2>4. /\ Cardinality(OnWire("APPLY")) \in Nat
        /\ OneIf(InHand("APPLY")) \in Nat /\ OneIf(InHand("APPLY"))' \in Nat
        /\ OneIf(worker.kind = "APPLY") \in Nat
    BY Counts DEF StreamInv, OneIf
  <2>5. Cardinality(OnWire("APPLY"))' + OneIf(InHand("APPLY"))'
          = Cardinality(OnWire("APPLY")) + OneIf(InHand("APPLY"))
    BY <1>b, <2>1, <2>4
  <2>6. CreditRespected /\ traj.count \in Nat
    BY Counts DEF StreamInv
  <2>7. traj.count + Cardinality(OnWire("APPLY"))' + OneIf(InHand("APPLY"))'
          = traj.count + Cardinality(OnWire("APPLY")) + OneIf(InHand("APPLY"))
    BY <1>b, <2>1, <2>4, <2>6
  <2> QED
    BY <2>2, <2>3, <2>6, <2>7
<1> QED
  BY <1>1, <1>2, <1>3, <1>5, <1>6, <1>7, <1>8, <1>9 DEF StreamInv

(* The worker is done with a frame: it could not be sent, or is booked.    *)
LEMMA DoneEffect ==
  ASSUME StreamInv, SendFails \/ Book
  PROVE  /\ UNCHANGED <<nextSeq, ctl, comm, mgmt, traj, taken, latched, wire, report, age, lastKind>>
         /\ worker.pc # "idle" /\ worker' = Resting
         /\ sched' \in WideScheduler
         /\ sched'.tracking = sched.tracking /\ sched'.lastCount = sched.lastCount
         /\ sched'.generation = sched.generation /\ sched'.status = sched.status
         /\ \/ /\ worker.pc = "send" /\ sched'.state = "Fault"
               /\ sched'.ahead = sched.ahead
            \/ /\ worker.pc = "book" /\ worker.kind = "HOLD" /\ sched'.state \in Rests
               /\ sched'.ahead = sched.ahead
            \/ /\ worker.pc = "book" /\ worker.kind = "RESET" /\ sched'.lastSent = TRUE
               /\ sched'.ahead = sched.ahead
               /\ IF sched.state = "StartPending"
                  THEN sched'.state = "ResetAwaitingAck" /\ sched'.resetSeq = worker.seq
                  ELSE sched'.state = sched.state
            \/ /\ worker.pc = "book" /\ worker.kind = "APPLY" /\ sched'.lastSent = TRUE
               /\ sched'.ahead = sched.ahead + 1 /\ sched'.state = sched.state
<1>0. /\ sched \in WideScheduler /\ worker.kind \in {"RESET", "APPLY", "HOLD"}
      /\ worker.pc = "book" => worker.seq \in Seqs
      /\ worker.pc = "book" /\ worker.kind = "HOLD" => sched.state = "Finishing"
  BY DEF StreamInv, Typed, HostTyped, Phases, Busy
<1>1. CASE SendFails
  BY <1>0, <1>1, SendFailsEffect DEF SendFails, Worker, SameStream, remoteVars
<1>2. CASE Book
  <2>0. /\ UNCHANGED <<nextSeq, ctl, comm, mgmt, traj, taken, latched, wire, report, age, lastKind>>
        /\ worker.pc = "book" /\ worker' = Resting
    BY <1>2 DEF Book, Worker, remoteVars
  <2>1. CASE worker.kind = "HOLD"
    <3>1. sched' = BookHold(sched)
      BY <1>2, <2>1 DEF Book
    <3> QED
      BY <1>0, <2>0, <2>1, <3>1, BookHoldEffect DEF SameStream
  <2>2. CASE worker.kind = "RESET"
    <3>1. sched' = BookReset(sched, worker.seq)
      BY <1>2, <2>2 DEF Book
    <3> QED
      BY <1>0, <2>0, <2>2, <3>1, BookResetEffect
  <2>3. CASE worker.kind = "APPLY"
    <3>1. sched' = BookApply(sched)
      BY <1>2, <2>3 DEF Book
    <3> QED
      BY <1>0, <2>0, <2>3, <3>1, BookApplyEffect
  <2> QED
    BY <1>0, <2>1, <2>2, <2>3
<1> QED
  BY <1>1, <1>2

LEMMA DoneKeeps ==
  ASSUME StreamInv, SendFails \/ Book
  PROVE  StreamInv'
<1>0. /\ UNCHANGED <<nextSeq, ctl, comm, mgmt, traj, taken, latched, wire, report, age, lastKind>>
      /\ worker.pc \in {"send", "book"} /\ worker.kind \in {"RESET", "APPLY", "HOLD"}
      /\ worker' = [pc |-> "idle", kind |-> "HOLD", seq |-> NoSeq]
      /\ sched' \in WideScheduler
      /\ sched'.tracking = sched.tracking /\ sched'.lastCount = sched.lastCount
      /\ sched'.generation = sched.generation /\ sched'.status = sched.status
  BY DoneEffect DEF Resting, StreamInv, Typed, HostTyped
<1>1. Typed'
  BY <1>0 DEF StreamInv, Typed, HostTyped, RemoteTyped, BusTyped
<1>2. Phases'
  <2>1. CASE worker.kind = "APPLY"
    BY <1>0, <2>1, DoneEffect DEF StreamInv, Phases, Busy, Opened, Startable
  <2>2. CASE worker.kind = "HOLD"
    BY <1>0, <2>2, DoneEffect DEF StreamInv, Phases, Busy, Opened, Startable, Rests
  <2>3. CASE worker.kind = "RESET"
    BY <1>0, <2>3, DoneEffect DEF StreamInv, Phases, Busy, Opened, Startable
  <2> QED
    BY <1>0, <2>1, <2>2, <2>3
<1>3. InOrder'
  <2>1. sched'.state = "ResetAwaitingAck" =>
          \/ sched.state = "ResetAwaitingAck" /\ sched'.resetSeq = sched.resetSeq
          \/ worker.pc = "book" /\ sched'.resetSeq = worker.seq
    BY <1>0, DoneEffect DEF StreamInv, Phases, Busy, Rests
  <2> QED
    BY <1>0, <2>1 DEF StreamInv, InOrder, Ago, Numbered
<1>4. /\ Launching' => Launching
      /\ Awaiting' => Awaiting
      /\ ~sched.tracking => Budget' <= Budget
  <2>0. sched.state # "ResetAwaitingAck" /\ worker'.pc = "idle"
    BY <1>0 DEF StreamInv, Phases
  <2>1. CASE worker.kind = "RESET"
    <3>1. /\ sched'.state # "Finishing"
          /\ sched'.state = "ResetAwaitingAck" => worker.pc = "book"
      BY <1>0, <2>0, <2>1, DoneEffect DEF StreamInv, Phases, Busy
    <3>2. /\ Launching /\ Budget \in 1..2
          /\ worker.pc = "book" => Awaiting
      BY <1>0, <2>1 DEF Launching, Awaiting, Budget, Busy
    <3>3. /\ Budget' \in 0..1
          /\ Awaiting' => sched'.state = "ResetAwaitingAck"
      BY <2>0, <3>1 DEF Awaiting, Budget, Busy
    <3> QED
      BY <3>1, <3>2, <3>3
  <2>2. CASE worker.kind # "RESET"
    <3>1. sched'.state \in Rests \/ (sched'.state = sched.state /\ worker.kind = "APPLY")
      BY <1>0, <2>2, DoneEffect DEF Rests
    <3>2. worker.kind = "APPLY" => sched.tracking
      BY <1>0 DEF StreamInv, Phases, Busy
    <3>3. /\ ~Launching' /\ ~Awaiting'
          /\ sched'.state \in Rests => Budget' = 0
      BY <2>0, <3>1 DEF Launching, Awaiting, Busy, Budget, Rests
    <3> QED
      BY <3>1, <3>2, <3>3, Bounds DEF StreamInv
  <2> QED
    BY <2>1, <2>2
<1>5. Quiet'
  BY <1>0, <1>4 DEF StreamInv, Quiet, Carries, OnWire, Stopped, Active, Pending, Reported
<1>6. Nears'
  <2>1. StatusBound' = StatusBound
    BY <1>0 DEF StatusBound, Active
  <2>2. ASSUME NEW q, NEW bound \in Int, ~sched.tracking, Near(q, bound)
        PROVE  Near(q, bound)'
    BY <1>0, <1>4, <2>2, NearKept DEF StreamInv
  <2>3. StatusBound \in Int /\ Far \in Int /\ WireLimit + 2 * age.report + 2 \in Int
    BY Bounds DEF StreamInv
  <2> QED
    BY <1>0, <1>4, <2>1, <2>2, <2>3
       DEF StreamInv, Nears, Stopped, Active, Pending, Reported
<1>7. Answered'
  BY <1>0, <1>4 DEF StreamInv, Answered, About, Answers, Since, Ago, Stopped, Active, Pending,
                    Reported
<1>8. Traced'
  <2>1. /\ sched.ahead \in Int /\ sched'.ahead \in Int
        /\ Cardinality(OnWire("APPLY")) \in Nat /\ Since(sched.status.count) \in Nat
    BY <1>0, Counts DEF StreamInv, WideScheduler
  <2>2. /\ OneIf(InHand("APPLY"))' = 0
        /\ \/ Unknown' = Unknown
           \/ Unknown' = Unknown - 1 /\ OneIf(InHand("APPLY")) = 1
    <3>1. CASE worker.kind = "APPLY"
      <4>1. \/ worker.pc = "send" /\ sched'.ahead = sched.ahead
            \/ worker.pc = "book" /\ sched'.ahead = sched.ahead + 1
        BY <3>1, DoneEffect
      <4>2. Unknown = sched.ahead + 1 /\ Unknown' = sched'.ahead
        BY <1>0, <2>1, <3>1 DEF Unknown, Busy
      <4>3. /\ OneIf(InHand("APPLY"))' = 0
            /\ worker.pc = "send" => OneIf(InHand("APPLY")) = 1
        BY <1>0, <3>1 DEF InHand, OneIf
      <4> QED
        BY <2>1, <4>1, <4>2, <4>3
    <3>2. CASE worker.kind # "APPLY"
      <4>1. sched'.ahead = sched.ahead
        BY <3>2, DoneEffect
      <4> QED
        BY <1>0, <2>1, <3>2, <4>1 DEF Unknown, Busy, InHand, OneIf
    <3> QED
      BY <3>1, <3>2
  <2>3. /\ Unknown \in Int /\ Unknown' \in Int /\ OneIf(InHand("APPLY")) \in 0..1
        /\ OnWire("APPLY")' = OnWire("APPLY")
    BY <1>0, <2>1 DEF Unknown, OneIf, OnWire
  <2>4. ASSUME sched.tracking
        PROVE  /\ Since(sched.status.count) + Cardinality(OnWire("APPLY"))
                    + OneIf(InHand("APPLY"))' <= Unknown'
               /\ Unknown' <= High
    BY <2>1, <2>2, <2>3, <2>4, Counts DEF StreamInv, Traced
  <2> QED
    BY <1>0, <2>3, <2>4
       DEF StreamInv, Traced, About, Since, Carries, OnWire, Stopped, Active, Pending, Reported
<1>9. CreditRespected'
  <2>1. OnWire("APPLY")' = OnWire("APPLY") /\ ~InHand("APPLY")'
    BY <1>0 DEF OnWire, InHand
  <2> QED
    BY <1>0, <2>1, Counts DEF StreamInv, CreditRespected
<1> QED
  BY <1>1, <1>2, <1>3, <1>5, <1>6, <1>7, <1>8, <1>9 DEF StreamInv

-----------------------------------------------------------------------------
(* quick_stop transmits its frame.                                         *)
LEMMA QuickStopSendKeeps ==
  ASSUME StreamInv, ServiceQuickStopSend
  PROVE  StreamInv'
<1> DEFINE f == [kind |-> "QUICK_STOP", seq |-> NoSeq]
<1>0. /\ UNCHANGED <<sched, worker, nextSeq, ctl, comm, traj, taken, latched, report, age, lastKind>>
      /\ mgmt' = "idle"
      /\ wire' = wire \/ (wire' = Append(wire, f) /\ Len(wire) < WireLimit)
  BY DEF ServiceQuickStopSend, remoteVars
<1>a. f \in Frame /\ f.kind = "QUICK_STOP" /\ f.seq = NoSeq
  BY DEF Frame
<1> HIDE DEF f
<1>b. /\ wire' \in Seq(Frame) /\ Len(wire') <= WireLimit /\ Len(wire') >= Len(wire)
      /\ Len(wire) \in Nat /\ Len(wire') \in Nat
      /\ \A i \in DOMAIN wire' : i \in Nat /\ (Numbered(i)' => i \in DOMAIN wire /\ wire'[i] = wire[i])
      /\ \A k \in {"RESET", "APPLY", "HOLD"} :
           /\ Cardinality(OnWire(k))' = Cardinality(OnWire(k))
           /\ Carries(k)' <=> Carries(k)
  <2>0. wire \in Seq(Frame) /\ Len(wire) <= WireLimit /\ Len(wire) \in Nat /\ WireLimit \in Nat
    BY LenProperties, StreamAssumption DEF StreamInv, Typed, BusTyped
  <2>1. CASE wire' = wire
    BY <2>0, <2>1 DEF Numbered, OnWire, Carries
  <2>2. CASE wire' = Append(wire, f) /\ Len(wire) < WireLimit
    <3>1. /\ wire' \in Seq(Frame) /\ Len(wire') = Len(wire) + 1
          /\ DOMAIN wire = 1..Len(wire) /\ DOMAIN wire' = 1..Len(wire) + 1
          /\ \A i \in DOMAIN wire : wire'[i] = wire[i]
          /\ wire'[Len(wire) + 1] = f
          /\ \A k : Cardinality(OnWire(k))' = Cardinality(OnWire(k)) + OneIf(f.kind = k)
          /\ \A k : Carries(k)' <=> Carries(k) \/ f.kind = k
      BY <1>a, <2>2, AppendElements DEF StreamInv
    <3>2. \A k \in {"RESET", "APPLY", "HOLD"} :
            /\ Cardinality(OnWire(k))' = Cardinality(OnWire(k))
            /\ Carries(k)' <=> Carries(k)
      <4>1. \A k \in {"RESET", "APPLY", "HOLD"} :
              OneIf(f.kind = k) = 0 /\ Cardinality(OnWire(k)) \in Nat
        BY <1>a, Counts DEF OneIf, StreamInv
      <4> QED
        BY <1>a, <3>1, <4>1
    <3> QED
      BY <1>a, <2>0, <2>2, <3>1, <3>2 DEF Numbered
  <2> QED
    BY <1>0, <2>1, <2>2
<1>1. Typed'
  BY <1>0, <1>b DEF StreamInv, Typed, HostTyped, RemoteTyped, BusTyped
<1>2. Phases'
  BY <1>0 DEF StreamInv, Phases, Busy, Opened
<1>3. InOrder'
  <2>1. ASSUME NEW i \in DOMAIN wire', Numbered(i)'
        PROVE  /\ wire'[i].seq \in Seqs
               /\ Ago(wire[i].seq) <= Len(wire') - i + 1
               /\ i \in DOMAIN wire /\ wire'[i] = wire[i] /\ Numbered(i)
    <3>1. i \in Nat /\ i \in DOMAIN wire /\ wire'[i] = wire[i] /\ Numbered(i)
      BY <1>b, <2>1 DEF Numbered
    <3>2. wire[i].seq \in Seqs /\ Ago(wire[i].seq) <= Len(wire) - i + 1
      BY <3>1 DEF StreamInv, InOrder
    <3>3. Ago(wire[i].seq) \in Int
      BY <3>2, Bounds DEF StreamInv
    <3> HIDE DEF Ago
    <3>4. Ago(wire[i].seq) <= Len(wire') - i + 1
      BY <1>b, <3>1, <3>2, <3>3
    <3> QED
      BY <3>1, <3>2, <3>4
  <2> QED
    BY <1>0, <2>1 DEF StreamInv, InOrder, Numbered, Ago
<1>4. Launching' = Launching /\ Budget' = Budget /\ Awaiting' = Awaiting
  BY <1>0 DEF Launching, Budget, Busy, Awaiting
<1>5. Quiet'
  BY <1>0, <1>b, <1>4 DEF StreamInv, Quiet, Stopped, Active, Pending, Reported
<1>6. Nears'
  <2>1. StatusBound' = StatusBound
    BY <1>0 DEF StatusBound, Active
  <2>2. ASSUME NEW q, NEW bound, Near(q, bound)
        PROVE  Near(q, bound)'
    BY <1>0, <1>b, <1>4, <2>2 DEF Near, Ago, Numbered
  <2> QED
    BY <1>0, <1>4, <2>1, <2>2 DEF StreamInv, Nears, Stopped, Active, Pending, Reported
<1>7. Answered'
  BY <1>0, <1>4 DEF StreamInv, Answered, About, Answers, Since, Ago, Stopped, Active, Pending,
                    Reported
<1>8. Traced'
  BY <1>0, <1>b DEF StreamInv, Traced, About, Since, Unknown, Busy, InHand, Stopped,
                    Active, Pending, Reported
<1>9. CreditRespected'
  BY <1>0, <1>b DEF StreamInv, CreditRespected, InHand
<1> QED
  BY <1>1, <1>2, <1>3, <1>5, <1>6, <1>7, <1>8, <1>9 DEF StreamInv

(* What was accepted between two counts of the firmware.                   *)
LEMMA Between ==
  ASSUME Typed, NEW a \in 0..CountMod - 1, NEW b \in 0..CountMod - 1, Since(b) <= Since(a)
  PROVE  (IF a <= b THEN b - a ELSE b - a + CountMod) = Since(a) - Since(b)
BY SchedulerAssumption, ContextAssumption DEF Since, Typed, RemoteTyped

(* The receive thread hands a report to the scheduler.                     *)
LEMMA DispatchKeeps ==
  ASSUME StreamInv, Dispatch
  PROVE  StreamInv'
<1>0. /\ UNCHANGED <<worker, nextSeq, ctl, comm, mgmt, traj, taken, latched, wire, lastKind>>
      /\ Pending /\ Reported \in TrajectoryStatus
      /\ sched' = UpdateRemoteStatus(sched, Reported)
      /\ report' = <<>> /\ age' = [status |-> 0, report |-> 0]
  BY ReportElements DEF Dispatch, Pending, remoteVars, StreamInv, Typed
<1> DEFINE news == /\ sched.tracking /\ Reported.generation = sched.generation
                   /\ Reported.accepted # NoSeq /\ 2 * Delta(Reported, sched) < CountMod
<1>a. /\ sched' \in WideScheduler /\ sched'.state = sched.state
      /\ sched'.status = Reported /\ sched'.lastSent = sched.lastSent
      /\ sched'.tracking = sched.tracking
      /\ sched'.generation = sched.generation /\ sched'.resetSeq = sched.resetSeq
      /\ sched'.ahead = IF news THEN sched.ahead - Delta(Reported, sched) ELSE sched.ahead
      /\ sched'.lastCount = IF news THEN Reported.count ELSE sched.lastCount
  BY <1>0, UpdateEffect DEF StreamInv, Typed, HostTyped
<1>1. Typed'
  <2>1. report' \in Seq(TrajectoryStatus) /\ Len(report') = 0
        /\ age' \in [status : 0..StatusLife, report : 0..1]
    BY <1>0, EmptySeq, StreamAssumption
  <2> QED
    BY <1>0, <1>a, <2>1 DEF StreamInv, Typed, HostTyped, RemoteTyped, BusTyped
<1>2. Phases'
  BY <1>0, <1>a DEF StreamInv, Phases, Busy, Opened
<1>3. InOrder'
  BY <1>0, <1>a DEF StreamInv, InOrder, Ago, Numbered
<1>4. Launching' = Launching /\ Budget' = Budget /\ Awaiting' = Awaiting /\ ~Pending'
  BY <1>0, <1>a DEF Launching, Budget, Busy, Awaiting, Pending
<1>5. Quiet'
  BY <1>0, <1>a, <1>4 DEF StreamInv, Quiet, Carries, OnWire, Stopped, Active
<1>6. Nears'
  <2>1. /\ Active(Reported) => StatusBound' = Far
        /\ Stopped(Reported) => StatusBound' = WireLimit + 4
    BY <1>0, <1>a, StreamAssumption DEF StatusBound, Stopped, Active, Far
  <2>2. ASSUME NEW q, NEW bound \in Int, NEW larger \in Int, bound <= larger, Near(q, bound)
        PROVE  Near(q, larger)'
    BY <1>0, <1>4, <2>2, NearKept, Bounds DEF StreamInv
  <2>3. /\ StatusBound \in Int /\ Far \in Int /\ StatusBound <= Far
        /\ WireLimit + 2 * age.report + 2 \in Int /\ WireLimit + 4 \in Int
        /\ WireLimit + 2 * age.report + 2 <= WireLimit + 4
    BY Bounds, StreamAssumption DEF StreamInv
  <2> QED
    BY <1>0, <1>a, <1>4, <2>1, <2>2, <2>3 DEF StreamInv, Nears, Stopped, Active
<1>7. Answered'
  BY <1>0, <1>a, <1>4
     DEF StreamInv, Answered, About, Answers, Since, Ago, Stopped, Active
<1>8. Traced'
  <2> SUFFICES ASSUME sched.tracking PROVE Traced'
    BY <1>a DEF Traced
  <2> DEFINE d == Since(Reported.count)
  <2>1. /\ Traced /\ About(Reported, d) /\ d <= Since(sched.status.count)
        /\ sched.lastCount = sched.status.count /\ sched.generation = traj.generation
        /\ Since(sched.status.count) + Cardinality(OnWire("APPLY")) + OneIf(InHand("APPLY"))
             <= Unknown
        /\ Unknown <= High
    BY <1>0 DEF StreamInv, Traced
  <2>2. /\ Reported.count \in 0..CountMod - 1 /\ sched.status.count \in 0..CountMod - 1
        /\ d \in Nat /\ Since(sched.status.count) \in Nat
        /\ Cardinality(OnWire("APPLY")) \in Nat /\ OneIf(InHand("APPLY")) \in Nat
        /\ sched.ahead \in Int /\ Unknown \in Int
    <3>1. Reported.count \in 0..CountMod - 1
      BY <1>0 DEF TrajectoryStatus
    <3>2. /\ sched.status.count \in 0..CountMod - 1 /\ sched.ahead \in Int
          /\ Cardinality(OnWire("APPLY")) \in Nat
          /\ d \in 0..CountMod - 1 /\ Since(sched.status.count) \in 0..CountMod - 1
      BY <3>1, Counts DEF StreamInv
    <3> QED
      BY <3>1, <3>2, Counts DEF OneIf, Unknown
  <2>3. Delta(Reported, sched) = Since(sched.status.count) - d
    BY <2>1, <2>2, Between DEF Delta, StreamInv
  <2>4. 2 * Delta(Reported, sched) < CountMod
    BY <2>1, <2>2, <2>3, Counts DEF StreamInv
  <2>5. /\ sched'.lastCount = Reported.count
        /\ sched'.ahead = sched.ahead - (Since(sched.status.count) - d)
    BY <1>a, <2>1, <2>3, <2>4 DEF About
  <2>6. Unknown' = Unknown - (Since(sched.status.count) - d)
    BY <1>0, <2>2, <2>5 DEF Unknown, Busy
  <2>7. /\ OnWire("APPLY")' = OnWire("APPLY") /\ InHand("APPLY")' = InHand("APPLY")
        /\ Carries("RESET")' = Carries("RESET")
    BY <1>0 DEF OnWire, InHand, Carries
  <2>8. /\ d + Cardinality(OnWire("APPLY"))' + OneIf(InHand("APPLY"))' <= Unknown'
        /\ Unknown' <= High
    BY <2>1, <2>2, <2>6, <2>7, Counts DEF StreamInv
  <2>9. Since(sched.status.count)' = d /\ About(sched.status, Since(sched.status.count))'
    BY <1>0, <1>a, <2>1 DEF About, Since, Stopped, Active
  <2> QED
    BY <1>0, <1>a, <1>4, <2>1, <2>5, <2>7, <2>8, <2>9 DEF Traced, Since
<1>9. CreditRespected'
  BY <1>0 DEF StreamInv, CreditRespected, OnWire, InHand
<1> QED
  BY <1>1, <1>2, <1>3, <1>5, <1>6, <1>7, <1>8, <1>9 DEF StreamInv

-----------------------------------------------------------------------------
(* The firmware.  A frame taken off the wire is one frame less of its      *)
(* kind.                                                                   *)
LEMMA TailCounts ==
  ASSUME Typed, wire # <<>>, wire' = Tail(wire)
  PROVE  \A k : /\ Cardinality(OnWire(k))' = Cardinality(OnWire(k)) - OneIf(Head(wire).kind = k)
                /\ Carries(k)' => Carries(k)
                /\ Head(wire).kind = k => Carries(k)
<1>0. /\ Tail(wire) \in Seq(Frame) /\ Len(Tail(wire)) = Len(wire) - 1
      /\ Len(wire) \in Nat \ {0} /\ 1 \in DOMAIN wire /\ Head(wire) = wire[1]
      /\ DOMAIN wire = 1..Len(wire) /\ DOMAIN wire' = 1..Len(wire) - 1
      /\ \A i \in 1..Len(wire) - 1 : wire'[i] = wire[i + 1]
  BY TailElements, LenProperties DEF Typed, BusTyped
<1> SUFFICES ASSUME NEW k
             PROVE  /\ Cardinality(OnWire(k))' = Cardinality(OnWire(k)) - OneIf(Head(wire).kind = k)
                    /\ Carries(k)' => Carries(k)
                    /\ Head(wire).kind = k => Carries(k)
  OBVIOUS
<1> DEFINE rest == OnWire(k) \ {1}
           f == [i \in OnWire(k)' |-> i + 1]
<1>1. /\ \A i \in OnWire(k)' : i \in Nat /\ i + 1 \in rest
      /\ \A j \in rest : j - 1 \in OnWire(k)' /\ (j - 1) + 1 = j
  BY <1>0 DEF OnWire
<1>2. f \in Bijection(OnWire(k)', rest)
  <2>1. f \in [OnWire(k)' -> rest]
    BY <1>1
  <2>2. \A a, b \in OnWire(k)' : f[a] = f[b] => a = b
    BY <1>1
  <2>3. \A j \in rest : \E i \in OnWire(k)' : f[i] = j
    BY <1>1
  <2> HIDE DEF f, rest
  <2>4. f \in Injection(OnWire(k)', rest)
    BY <2>1, <2>2 DEF Injection, IsInjective
  <2>5. f \in Surjection(OnWire(k)', rest)
    BY <2>1, <2>3 DEF Surjection
  <2> QED
    BY <2>4, <2>5 DEF Bijection
<1>3. IsFiniteSet(OnWire(k)) /\ Cardinality(OnWire(k)) \in Nat
  BY Counts
<1>4. /\ IsFiniteSet(rest)
      /\ Cardinality(rest) = IF 1 \in OnWire(k) THEN Cardinality(OnWire(k)) - 1
                             ELSE Cardinality(OnWire(k))
  BY <1>3, FS_RemoveElement
<1>5. OnWire(k)' \in SUBSET (1..Len(wire) - 1) /\ Len(wire) - 1 \in Int
  BY <1>0 DEF OnWire
<1>6. IsFiniteSet(OnWire(k)')
  BY <1>5, FS_Interval, FS_Subset
<1>7. ExistsBijection(OnWire(k)', rest)
  BY <1>2 DEF ExistsBijection
<1>8. Cardinality(rest) = Cardinality(OnWire(k)')
  BY <1>6, <1>7, FS_Bijection
<1>9. 1 \in OnWire(k) <=> Head(wire).kind = k
  BY <1>0 DEF OnWire
<1>10. (Carries(k)' => Carries(k)) /\ (Head(wire).kind = k => Carries(k))
  BY <1>1, <1>9 DEF Carries
<1> QED
  BY <1>3, <1>4, <1>8, <1>9, <1>10 DEF OneIf

(* The order of what is left on the wire.                                  *)
LEMMA TailInOrder ==
  ASSUME Typed, InOrder, wire # <<>>, wire' = Tail(wire),
         UNCHANGED <<nextSeq, worker, sched>>
  PROVE  InOrder'
<1>0. /\ Len(wire') = Len(wire) - 1 /\ Len(wire) \in Nat
      /\ DOMAIN wire = 1..Len(wire) /\ DOMAIN wire' = 1..Len(wire) - 1
      /\ \A i \in 1..Len(wire) - 1 : wire'[i] = wire[i + 1]
  BY TailElements, LenProperties DEF Typed, BusTyped
<1>1. ASSUME NEW i \in DOMAIN wire', Numbered(i)'
      PROVE  /\ i \in Nat /\ i + 1 \in DOMAIN wire /\ wire'[i] = wire[i + 1] /\ Numbered(i + 1)
             /\ wire[i + 1].seq \in Seqs /\ Ago(wire[i + 1].seq) <= Len(wire') - i + 1
  <2>1. i \in Nat /\ i + 1 \in DOMAIN wire /\ wire'[i] = wire[i + 1] /\ Numbered(i + 1)
    BY <1>0, <1>1 DEF Numbered
  <2>2. wire[i + 1].seq \in Seqs /\ Ago(wire[i + 1].seq) <= Len(wire) - (i + 1) + 1
    BY <2>1 DEF InOrder
  <2> QED
    BY <1>0, <2>1, <2>2, Bounds
<1>2. ASSUME NEW i \in DOMAIN wire', NEW j \in DOMAIN wire', i < j, Numbered(i)', Numbered(j)'
      PROVE  /\ Ago(wire[j + 1].seq) < Ago(wire[i + 1].seq)
             /\ wire[i + 1].kind = "RESET" => wire[j + 1].kind # "APPLY"
  <2>1. i + 1 \in DOMAIN wire /\ j + 1 \in DOMAIN wire /\ i + 1 < j + 1
    BY <1>0, <1>2
  <2> QED
    BY <1>1, <1>2, <2>1 DEF InOrder
<1> QED
  BY <1>1, <1>2 DEF InOrder, Numbered, Ago

(* A frame is taken off the wire or not, and the firmware's stream goes on *)
(* or ends; nothing is accepted.                                           *)
RemoteMoves ==
  /\ wire' = wire \/ (wire # <<>> /\ wire' = Tail(wire))
  /\ ContextInv(Points, traj') /\ GoesOn(traj, traj') /\ traj'.count <= traj.count
  /\ traj.state = "PREFILL" /\ traj.count < Prefill /\ Playing(traj') =>
       traj'.state = "PREFILL"
  /\ latched' \in BOOLEAN
  /\ UNCHANGED <<hostVars, taken, report, age, lastKind>>

LEMMA RemoteMovesKeeps ==
  ASSUME StreamInv, RemoteMoves
  PROVE  StreamInv'
<1>0. /\ UNCHANGED <<sched, worker, nextSeq, ctl, comm, mgmt, taken, report, age, lastKind>>
      /\ traj'.generation = traj.generation /\ traj'.accepted = traj.accepted
      /\ Active(traj') => Active(traj)
      /\ traj'.count <= traj.count /\ traj'.count \in Nat /\ traj.count \in Nat
  BY Counts, ContextAssumption
     DEF RemoteMoves, hostVars, GoesOn, Playing, Active, StreamInv, ContextInv, Context
<1>a. /\ \A k : /\ Cardinality(OnWire(k))' <= Cardinality(OnWire(k))
                /\ Cardinality(OnWire(k))' \in Nat /\ Cardinality(OnWire(k)) \in Nat
      /\ \A k : Carries(k)' => Carries(k)
      /\ wire' \in Seq(Frame) /\ Len(wire') <= WireLimit
  <2>1. CASE wire' = wire
    <3>1. \A k : OnWire(k)' = OnWire(k) /\ Cardinality(OnWire(k)) \in Nat
      BY <2>1, Counts DEF OnWire, StreamInv
    <3>2. wire' \in Seq(Frame) /\ Len(wire') <= WireLimit
      BY <2>1 DEF StreamInv, Typed, BusTyped
    <3> QED
      BY <3>1, <3>2 DEF Carries
  <2>2. CASE wire # <<>> /\ wire' = Tail(wire)
    <3>1. ASSUME NEW k
          PROVE  /\ Cardinality(OnWire(k))' <= Cardinality(OnWire(k))
                 /\ Cardinality(OnWire(k))' \in Nat /\ Cardinality(OnWire(k)) \in Nat
                 /\ Carries(k)' => Carries(k)
      <4>1. Cardinality(OnWire(k))' = Cardinality(OnWire(k)) - OneIf(Head(wire).kind = k)
            /\ (Carries(k)' => Carries(k)) /\ (Head(wire).kind = k => Carries(k))
        BY <2>2, TailCounts DEF StreamInv
      <4>2. Cardinality(OnWire(k)) \in Nat /\ (Carries(k) => Cardinality(OnWire(k)) # 0)
        BY Counts, FS_EmptySet DEF StreamInv, Carries
      <4> QED
        BY <4>1, <4>2 DEF OneIf
    <3>2. wire' \in Seq(Frame) /\ Len(wire') <= WireLimit
      BY <2>2, TailElements, StreamAssumption DEF StreamInv, Typed, BusTyped
    <3> QED
      BY <3>1, <3>2
  <2> QED
    BY <2>1, <2>2 DEF RemoteMoves
<1>1. Typed'
  BY <1>0, <1>a DEF StreamInv, Typed, HostTyped, RemoteTyped, BusTyped, RemoteMoves
<1>2. Phases'
  BY <1>0 DEF StreamInv, Phases, Busy, Opened
<1>3. InOrder'
  <2>1. CASE wire' = wire
    BY <1>0, <2>1 DEF StreamInv, InOrder, Numbered, Ago
  <2>2. CASE wire # <<>> /\ wire' = Tail(wire)
    BY <1>0, <2>2, TailInOrder DEF StreamInv
  <2> QED
    BY <2>1, <2>2 DEF RemoteMoves
<1>4. Launching' = Launching /\ Budget' = Budget /\ Awaiting' = Awaiting
  BY <1>0 DEF Launching, Budget, Busy, Awaiting
<1>5. Quiet'
  <2>1. /\ Carries("RESET")' => Carries("RESET")
        /\ Carries("APPLY")' => Carries("APPLY")
    BY <1>a
  <2>2. traj.state = "PREFILL" /\ traj.count <= 1 /\ Prefill > 1 /\ Active(traj') =>
          traj'.state = "PREFILL"
    BY <1>0, ContextAssumption DEF RemoteMoves, Playing, Active
  <2> QED
    BY <1>0, <1>4, <2>1, <2>2 DEF StreamInv, Quiet, Stopped, Active, Pending, Reported
<1>6. Nears'
  <2>1. StatusBound' = StatusBound
    BY <1>0 DEF StatusBound, Active
  <2>2. ASSUME NEW q, NEW bound \in Int, Near(q, bound)
        PROVE  Near(q, bound)'
    BY <1>0, <1>4, <2>2, NearKept, Bounds DEF StreamInv, RemoteMoves
  <2>3. StatusBound \in Int /\ Far \in Int /\ WireLimit + 2 * age.report + 2 \in Int
    BY Bounds DEF StreamInv
  <2> QED
    BY <1>0, <1>4, <2>1, <2>2, <2>3 DEF StreamInv, Nears, Stopped, Active, Pending, Reported
<1>b. ASSUME NEW r, NEW d \in Int, r.depth \in Int, About(r, d)
      PROVE  About(r, d)'
  BY <1>0, <1>b DEF About, Since, Stopped, Active
<1>c. /\ sched.status.depth \in Int /\ Since(sched.status.count) \in Int
      /\ Pending => Reported.depth \in Int /\ Since(Reported.count) \in Int
  <2>1. Pending => Reported \in TrajectoryStatus
    BY ReportElements DEF StreamInv, Typed
  <2>2. Pending => Reported.depth \in Int /\ Reported.count \in 0..CountMod - 1
    BY <2>1, ContextAssumption DEF TrajectoryStatus
  <2> QED
    BY <2>2, Counts DEF StreamInv
<1>7. Answered'
  BY <1>0, <1>4, <1>b, <1>c DEF StreamInv, Answered, Answers, Ago, Active, Pending, Reported
<1>8. Traced'
  <2>1. Cardinality(OnWire("APPLY"))' <= Cardinality(OnWire("APPLY"))
        /\ ~(Carries("RESET")' /\ ~Carries("RESET"))
        /\ Cardinality(OnWire("APPLY"))' \in Nat /\ Cardinality(OnWire("APPLY")) \in Nat
    BY <1>a
  <2>2. /\ Unknown' = Unknown /\ OneIf(InHand("APPLY"))' = OneIf(InHand("APPLY"))
        /\ Unknown \in Int /\ OneIf(InHand("APPLY")) \in Int
        /\ \A c : Since(c)' = Since(c)
    BY <1>0, Counts DEF Unknown, Busy, InHand, OneIf, Since, StreamInv
  <2> DEFINE cost == Since(sched.status.count)
  <2>3. ASSUME sched.tracking
        PROVE  cost + Cardinality(OnWire("APPLY"))' + OneIf(InHand("APPLY"))' <= Unknown'
    BY <1>c, <2>1, <2>2, <2>3 DEF StreamInv, Traced
  <2> QED
    BY <1>0, <1>b, <1>c, <2>1, <2>2, <2>3 DEF StreamInv, Traced, Pending, Reported, Stopped, Active
<1>9. CreditRespected'
  <2>1. Cardinality(OnWire("APPLY"))' <= Cardinality(OnWire("APPLY"))
        /\ Cardinality(OnWire("APPLY"))' \in Nat /\ Cardinality(OnWire("APPLY")) \in Nat
    BY <1>a
  <2> QED
    BY <1>0, <2>1, Counts DEF StreamInv, CreditRespected, InHand
<1> QED
  BY <1>1, <1>2, <1>3, <1>5, <1>6, <1>7, <1>8, <1>9 DEF StreamInv

(* The firmware accepts a point of the stream it plays.                    *)
LEMMA AcceptKeeps ==
  ASSUME StreamInv, RxApply, PushResult(traj, [seq |-> Head(wire).seq]) = "OK"
  PROVE  StreamInv'
<1> DEFINE p == [seq |-> Head(wire).seq]
<1>0. /\ UNCHANGED <<sched, worker, nextSeq, ctl, comm, mgmt, latched, report, age, lastKind>>
      /\ wire # <<>> /\ wire' = Tail(wire) /\ Head(wire).kind = "APPLY"
      /\ traj' = Push(traj, p) /\ taken' = (taken + 1) % CountMod
  BY DEF RxApply, Received, hostVars, Counted
<1>a. /\ wire' \in Seq(Frame) /\ Len(wire') <= WireLimit
      /\ Head(wire).seq \in Seqs /\ p \in Points
  <2>1. /\ Tail(wire) \in Seq(Frame) /\ Len(Tail(wire)) = Len(wire) - 1
        /\ 1 \in DOMAIN wire /\ Head(wire) = wire[1] /\ Len(wire) \in Nat
    BY <1>0, TailElements DEF StreamInv, Typed, BusTyped
  <2>2. Head(wire).seq \in Seqs
    BY <1>0, <2>1 DEF StreamInv, InOrder, Numbered
  <2> QED
    BY <1>0, <2>1, <2>2, StreamAssumption DEF StreamInv, Typed, BusTyped, Points
<1>b. /\ ContextInv(Points, traj') /\ Active(traj) /\ traj'.state = traj.state
      /\ traj'.count = traj.count + 1 /\ traj'.generation = traj.generation
      /\ traj'.accepted \in Seqs
  <2>1. HasSeq(Points) /\ ContextInv(Points, traj)
    BY DEF HasSeq, Points, StreamInv, Typed, RemoteTyped
  <2> QED
    BY <1>0, <1>a, <2>1, PushInv, PushCounts DEF Playing, Active
<1>c. /\ \A k : Cardinality(OnWire(k))' = Cardinality(OnWire(k)) - OneIf(k = "APPLY")
      /\ \A k : Carries(k)' => Carries(k)
      /\ Carries("APPLY") /\ Cardinality(OnWire("APPLY")) \in Nat
      /\ Cardinality(OnWire("APPLY"))' = Cardinality(OnWire("APPLY")) - 1
  <2>1. \A k : /\ Cardinality(OnWire(k))' = Cardinality(OnWire(k)) - OneIf(Head(wire).kind = k)
               /\ Carries(k)' => Carries(k)
               /\ Head(wire).kind = k => Carries(k)
    BY <1>0, TailCounts DEF StreamInv
  <2> QED
    BY <1>0, <2>1, Counts DEF StreamInv, OneIf
<1>d. /\ taken \in 0..CountMod - 1 /\ CountMod \in Nat \ {0}
      /\ taken' = IF taken + 1 = CountMod THEN 0 ELSE taken + 1
  <2>1. taken \in 0..CountMod - 1 /\ CountMod \in Nat \ {0}
    BY Counts, ContextAssumption DEF StreamInv, Typed, RemoteTyped
  <2>2. CASE taken + 1 = CountMod
    BY <1>0, <2>1, <2>2, Wraps
  <2>3. CASE taken + 1 # CountMod
    <3>1. taken + 1 \in 0..CountMod - 1
      BY <2>1, <2>3
    <3> QED
      BY <1>0, <2>1, <2>3, <3>1, Wraps
  <2> QED
    BY <2>1, <2>2, <2>3
(* No stream is being opened while the firmware accepts points.            *)
<1>e. ~sched.tracking =>
        /\ ~Carries("RESET") /\ ~Launching /\ ~Stopped(sched.status)
        /\ Pending => ~Stopped(Reported)
  BY <1>b, <1>c DEF StreamInv, Quiet, Stopped
<1>f. sched.tracking => ~Awaiting
  BY DEF StreamInv, Phases, Busy, Awaiting
<1>g. ~Awaiting
  BY <1>e, <1>f DEF Launching, Awaiting, Busy
<1>1. Typed'
  <2>1. taken' \in 0..CountMod - 1
    BY <1>d
  <2> QED
    BY <1>0, <1>a, <1>b, <2>1 DEF StreamInv, Typed, HostTyped, RemoteTyped, BusTyped
<1>2. Phases'
  BY <1>0 DEF StreamInv, Phases, Busy, Opened
<1>3. InOrder'
  BY <1>0, TailInOrder DEF StreamInv
<1>4. Launching' = Launching /\ Awaiting' = Awaiting
  BY <1>0 DEF Launching, Busy, Awaiting
<1>5. Quiet'
  BY <1>0, <1>c, <1>e, <1>4 DEF Quiet, Stopped, Active, Pending, Reported
<1>6. Nears'
  BY <1>0, <1>e, <1>4 DEF Nears, Stopped, Active, Pending, Reported
<1>7. Answered'
  BY <1>g, <1>4 DEF Answered
<1>8. Traced'
  <2> SUFFICES ASSUME sched.tracking PROVE Traced'
    BY <1>0 DEF Traced
  <2> DEFINE late == Since(sched.status.count)
             d == Since(Reported.count)
  <2>1. /\ About(sched.status, late) /\ Unknown <= High
        /\ late + Cardinality(OnWire("APPLY")) + OneIf(InHand("APPLY")) <= Unknown
        /\ Pending => About(Reported, d) /\ d <= late
                      /\ (Stopped(sched.status) => Stopped(Reported))
    BY DEF StreamInv, Traced
  <2>2. /\ late \in 0..CountMod - 1 /\ sched.status.count \in 0..CountMod - 1
        /\ sched.status.depth \in Int /\ traj.count \in Int
        /\ Unknown \in Int /\ OneIf(InHand("APPLY")) \in Nat
        /\ Pending => Reported.count \in 0..CountMod - 1 /\ d \in 0..CountMod - 1
                      /\ Reported.depth \in Int
    <3>1. Pending => Reported.count \in 0..CountMod - 1 /\ Reported.depth \in Int
      <4>1. Pending => Reported \in TrajectoryStatus
        BY ReportElements DEF StreamInv, Typed
      <4> QED
        BY <4>1, ContextAssumption DEF TrajectoryStatus
    <3> QED
      BY <3>1, Counts DEF StreamInv, OneIf, Unknown
  <2>3. late + 1 <= High /\ High < CountMod
    BY <1>c, <2>1, <2>2, Counts, FS_EmptySet DEF StreamInv, Carries
  <2>4. ASSUME NEW c \in 0..CountMod - 1, Since(c) + 1 < CountMod
        PROVE  Since(c)' = Since(c) + 1
    BY <1>d, <2>4 DEF Since
  <2>5. late' = late + 1 /\ (Pending => d' = d + 1)
    <3>1. Since(sched.status.count)' = late + 1
      <4>1. \A c \in 0..CountMod - 1 : Since(c) + 1 < CountMod => Since(c)' = Since(c) + 1
        BY <2>4
      <4> QED
        <5>1. late + 1 < CountMod
          BY <2>2, <2>3, Counts DEF StreamInv
        <5>2. sched.status.count \in 0..CountMod - 1 /\ Since(sched.status.count) + 1 < CountMod
          BY <2>2, <5>1
        <5> HIDE DEF late
        <5>3. Since(sched.status.count)' = Since(sched.status.count) + 1
          <6>1. \A c \in 0..CountMod - 1 : Since(c) + 1 < CountMod
                  => Since(c)' = Since(c) + 1
            BY <4>1
          <6>2. sched' = sched
            BY <1>0
          <6> QED
            BY <5>2, <6>1, <6>2 DEF Since
        <5> QED
          BY <5>3 DEF late
    <3>2. Pending => d + 1 < CountMod
      BY <2>1, <2>2, <2>3, Counts DEF StreamInv
    <3>3. Pending => Since(Reported.count)' = d + 1
      BY <1>0, <2>2, <2>4, <3>2 DEF Reported
    <3> QED
      BY <3>1, <3>3
  <2>6. About(sched.status, late)'
    <3>1. /\ sched.status.generation = traj'.generation
          /\ sched.status.accepted # NoSeq /\ traj'.accepted # NoSeq
          /\ Since(sched.status.count)' = late'
          /\ traj.count <= sched.status.depth + late
          /\ Stopped(sched.status) => ~Active(traj')
      BY <1>0, <1>b, <2>1 DEF About, Stopped, Active, NoSeq, Seqs
    <3>2. traj'.count <= sched.status.depth + late'
      BY <1>b, <2>2, <2>5, <3>1
    <3> QED
      BY <1>0, <3>1, <3>2 DEF About, Stopped, Active
  <2>7. Pending' => About(Reported, d)' /\ d' <= late'
        /\ (Stopped(sched.status) => Stopped(Reported))'
    <3>1. Pending => /\ traj'.count <= Reported.depth + (d + 1)
                     /\ d + 1 <= late + 1
      BY <1>b, <2>1, <2>2 DEF About
    <3> QED
      BY <1>0, <1>b, <2>1, <2>5, <3>1
         DEF About, Stopped, Active, Pending, Reported, NoSeq, Seqs
  <2>8. /\ Unknown' = Unknown /\ OneIf(InHand("APPLY"))' = OneIf(InHand("APPLY"))
    BY <1>0 DEF Unknown, Busy, InHand, OneIf
  <2>9. late' + Cardinality(OnWire("APPLY"))' + OneIf(InHand("APPLY"))' <= Unknown'
    BY <1>c, <2>1, <2>2, <2>5, <2>8
  <2>10. ~Carries("RESET")' /\ sched'.generation = traj'.generation
         /\ sched'.lastCount = sched'.status.count
    BY <1>0, <1>b, <1>c DEF StreamInv, Traced
  <2> QED
    BY <2>1, <2>6, <2>7, <2>8, <2>9, <2>10 DEF Traced
<1>9. CreditRespected'
  <2>1. InHand("APPLY")' = InHand("APPLY")
    BY <1>0 DEF InHand
  <2> QED
    BY <1>b, <1>c, <2>1, Counts DEF StreamInv, CreditRespected
<1> QED
  BY <1>1, <1>2, <1>3, <1>5, <1>6, <1>7, <1>8, <1>9 DEF StreamInv

(* The firmware opens a stream: nothing that was sent before is left of    *)
(* the one before it, and no answer to it can be on its way already.       *)
LEMMA RxResetKeeps ==
  ASSUME StreamInv, RxReset
  PROVE  StreamInv'
<1> DEFINE q == Head(wire).seq
<1>0. /\ UNCHANGED <<sched, worker, nextSeq, ctl, comm, mgmt, latched, report, age, lastKind>>
      /\ wire # <<>> /\ wire' = Tail(wire) /\ Head(wire).kind = "RESET"
      /\ traj' = ResetAndPush(traj, [seq |-> q]) /\ taken' = (taken + 1) % CountMod
  BY DEF RxReset, Received, hostVars, Counted
<1>a. /\ wire' \in Seq(Frame) /\ Len(wire') <= WireLimit
      /\ Len(wire) \in Nat /\ Len(wire) <= WireLimit
      /\ DOMAIN wire = 1..Len(wire) /\ DOMAIN wire' = 1..Len(wire) - 1
      /\ \A i \in 1..Len(wire) - 1 : wire'[i] = wire[i + 1]
      /\ 1 \in DOMAIN wire /\ Head(wire) = wire[1] /\ Numbered(1)
      /\ q \in Seqs /\ Ago(q) <= Len(wire) /\ [seq |-> q] \in Points
  <2>1. /\ Tail(wire) \in Seq(Frame) /\ Len(Tail(wire)) = Len(wire) - 1
        /\ 1 \in DOMAIN wire /\ Head(wire) = wire[1] /\ Len(wire) \in Nat
        /\ Len(wire) <= WireLimit
        /\ DOMAIN wire = 1..Len(wire) /\ DOMAIN wire' = 1..Len(wire) - 1
        /\ \A i \in 1..Len(wire) - 1 : wire'[i] = wire[i + 1]
    BY <1>0, TailElements, LenProperties DEF StreamInv, Typed, BusTyped
  <2>2. q \in Seqs /\ Numbered(1) /\ Ago(q) <= Len(wire) - 1 + 1
    BY <1>0, <2>1 DEF StreamInv, InOrder, Numbered
  <2> QED
    BY <1>0, <2>1, <2>2, Bounds, StreamAssumption DEF StreamInv, Points
<1>b. /\ ContextInv(Points, traj')
      /\ traj'.state = "PREFILL" /\ traj'.count = 1 /\ traj'.accepted = q
  <2>1. HasSeq(Points) /\ ContextInv(Points, traj)
    BY DEF HasSeq, Points, StreamInv, Typed, RemoteTyped
  <2>2. ContextInv(Points, traj') /\ traj \in Context(Points)
    BY <1>0, <1>a, <2>1, ResetAndPushInv DEF ContextInv
  <2> QED
    BY <1>0, <1>a, <2>2, ResetAndPushEffect
<1>c. Carries("RESET") /\ sched.tracking = FALSE /\ ~InHand("APPLY")
  <2>1. Carries("RESET")
    BY <1>0, TailCounts DEF StreamInv
  <2> QED
    BY <2>1 DEF StreamInv, Traced, Phases, Busy, InHand, Typed, HostTyped, WideScheduler
<1>d. ~Carries("APPLY")'
  <2>1. ASSUME NEW i \in DOMAIN wire' PROVE wire'[i].kind # "APPLY"
    <3>1. i + 1 \in DOMAIN wire /\ wire'[i] = wire[i + 1] /\ 1 < i + 1
      BY <1>a
    <3> QED
      BY <1>0, <1>a, <3>1 DEF StreamInv, InOrder, Numbered
  <2> QED
    BY <2>1 DEF Carries, OnWire
<1>1. Typed'
  <2>1. taken' \in 0..CountMod - 1
    <3>1. taken + 1 \in Nat /\ CountMod \in Nat \ {0}
      BY Counts, ContextAssumption DEF StreamInv, Typed, RemoteTyped
    <3> QED
      BY <1>0, <3>1
  <2> QED
    BY <1>0, <1>a, <1>b, <2>1 DEF StreamInv, Typed, HostTyped, RemoteTyped, BusTyped
<1>2. Phases'
  BY <1>0 DEF StreamInv, Phases, Busy, Opened
<1>3. InOrder'
  BY <1>0, TailInOrder DEF StreamInv
<1>4. Launching' = Launching /\ Budget' = Budget /\ Awaiting' = Awaiting
  BY <1>0 DEF Launching, Budget, Busy, Awaiting
<1>5. Quiet'
  BY <1>b, <1>d DEF Quiet
<1>6. Nears'
  <2>1. StatusBound' = StatusBound
    BY <1>0 DEF StatusBound, Active
  <2>2. ASSUME NEW r, NEW bound \in Int, Near(r, bound)
        PROVE  Near(r, bound)'
    BY <1>0, <1>4, <2>2, NearKept, Bounds DEF StreamInv
  <2>3. ASSUME NEW bound \in Int, WireLimit + 2 <= bound
        PROVE  Near(traj.accepted, bound)'
    <3>1. Ago(q) + Budget <= bound
      BY <1>a, <2>3, Bounds, StreamAssumption DEF StreamInv
    <3>2. ASSUME NEW i \in DOMAIN wire', Numbered(i)'
          PROVE  Ago(wire[i + 1].seq) < Ago(q) /\ wire'[i] = wire[i + 1]
      <4>1. i + 1 \in DOMAIN wire /\ wire'[i] = wire[i + 1] /\ 1 < i + 1
        BY <1>a
      <4>2. Numbered(i + 1)
        BY <3>2, <4>1 DEF Numbered
      <4> QED
        BY <1>a, <4>1, <4>2 DEF StreamInv, InOrder
    <3> QED
      BY <1>0, <1>a, <1>b, <1>4, <3>1, <3>2 DEF Near, Ago, Numbered
  <2>4. /\ StatusBound \in Int /\ Far \in Int /\ WireLimit + 2 * age.report + 2 \in Int
        /\ WireLimit + 2 <= StatusBound /\ WireLimit + 2 <= WireLimit + 2 * age.report + 2
    <3>1. WireLimit + 2 <= StatusBound
      BY Bounds, StreamAssumption DEF StreamInv, StatusBound
    <3> QED
      BY <3>1, Bounds, StreamAssumption DEF StreamInv
  <2> QED
    BY <1>0, <1>4, <2>1, <2>2, <2>3, <2>4
       DEF StreamInv, Nears, Stopped, Active, Pending, Reported
<1>7. Answered'
  <2>1. Awaiting => Launching
    BY DEF Awaiting, Launching, Busy
  <2>2. Awaiting => ~Answers(sched.status) /\ ~(Pending /\ Answers(Reported))
    BY <1>c, <2>1, NothingBehind DEF StreamInv, Nears, Answers
  <2> QED
    BY <1>0, <1>4, <2>2 DEF Answered, Answers, Ago, Active, Pending, Reported
<1>8. Traced'
  BY <1>0, <1>c DEF Traced
<1>9. CreditRespected'
  <2>1. Cardinality(OnWire("APPLY"))' = 0 /\ ~InHand("APPLY")'
    BY <1>0, <1>c, <1>d, Counts DEF Carries, InHand, StreamInv
  <2> QED
    BY <1>b, <2>1, Counts DEF StreamInv, CreditRespected
<1> QED
  BY <1>1, <1>2, <1>3, <1>5, <1>6, <1>7, <1>8, <1>9 DEF StreamInv

(* The firmware sends its status; one that was still on its way is lost.   *)
LEMMA RemoteReportKeeps ==
  ASSUME StreamInv, RemoteReport
  PROVE  StreamInv'
<1> DEFINE r == [state         |-> traj.state,
                 resetRequired |-> traj.resetRequired,
                 expected      |-> IF traj.sequenceValid THEN traj.expected ELSE NoSeq,
                 accepted      |-> traj.accepted,
                 generation    |-> traj.generation,
                 depth         |-> traj.count,
                 count         |-> taken,
                 latched       |-> latched]
<1>0. /\ UNCHANGED <<sched, worker, nextSeq, ctl, comm, mgmt, traj, taken, latched, wire, lastKind>>
      /\ report' = <<r>> /\ age' = [age EXCEPT !.report = 0]
  BY DEF RemoteReport, hostVars, remoteVars
<1>a. /\ r \in TrajectoryStatus /\ r.state = traj.state /\ r.accepted = traj.accepted
      /\ r.generation = traj.generation /\ r.depth = traj.count /\ r.count = taken
  <2>1. /\ traj.state \in {"IDLE", "PREFILL", "RUNNING", "HOLD"} /\ traj.resetRequired \in BOOLEAN
        /\ traj.expected \in Seqs /\ traj.accepted \in Seqs \cup {NoSeq}
        /\ traj.generation \in Gens /\ traj.count \in 0..Capacity
        /\ taken \in 0..CountMod - 1 /\ latched \in BOOLEAN
    BY DEF StreamInv, Typed, RemoteTyped, ContextInv, Context
  <2>2. (IF traj.sequenceValid THEN traj.expected ELSE NoSeq) \in Seqs \cup {NoSeq}
    BY <2>1
  <2> QED
    BY <2>1, <2>2 DEF TrajectoryStatus
<1> HIDE DEF r
<1>b. /\ report' \in Seq(TrajectoryStatus) /\ Len(report') = 1 /\ report'[1] = r
      /\ age' \in [status : 0..StatusLife, report : 0..1] /\ age'.status = age.status
      /\ Pending'
  BY <1>0, <1>a, StreamAssumption DEF StreamInv, Typed, BusTyped, Pending
<1>1. Typed'
  BY <1>0, <1>b DEF StreamInv, Typed, HostTyped, RemoteTyped, BusTyped
<1>2. Phases'
  BY <1>0 DEF StreamInv, Phases, Busy, Opened
<1>3. InOrder'
  BY <1>0 DEF StreamInv, InOrder, Numbered, Ago
<1>4. Launching' = Launching /\ Budget' = Budget /\ Awaiting' = Awaiting
  BY <1>0 DEF Launching, Budget, Busy, Awaiting
<1>5. Quiet'
  BY <1>0, <1>a, <1>b, <1>4 DEF StreamInv, Quiet, Carries, OnWire, Stopped, Active, Pending,
     Reported
<1>6. Nears'
  <2>1. StatusBound' = StatusBound
    BY <1>0, <1>b DEF StatusBound, Active
  <2>2. ASSUME NEW q, NEW bound \in Int, Near(q, bound)
        PROVE  Near(q, bound)'
    BY <1>0, <1>4, <2>2, NearKept, Bounds DEF StreamInv
  <2>3. StatusBound \in Int /\ Far \in Int
    BY Bounds DEF StreamInv
  <2> QED
    BY <1>0, <1>a, <1>b, <1>4, <2>1, <2>2, <2>3
       DEF StreamInv, Nears, Stopped, Active, Reported
<1>c. Since(Reported.count)' = 0
  <2>1. Reported' = r /\ Reported.count' = taken
    BY <1>a, <1>b DEF Reported
  <2>2. taken \in Int /\ taken - taken = 0
    BY Counts DEF StreamInv, Typed, RemoteTyped
  <2>3. Since(Reported.count)' = IF taken <= taken THEN taken - taken
                                 ELSE taken - taken + CountMod
    BY <1>0, <2>1 DEF Since
  <2> QED
    BY <2>2, <2>3
<1>7. Answered'
  <2>1. ASSUME traj.accepted # NoSeq PROVE About(Reported, 0)'
    BY <1>0, <1>a, <1>b, <1>c, <2>1, Counts
       DEF About, Since, Stopped, Active, Reported, StreamInv
  <2>2. ASSUME Answers(Reported)' PROVE traj.accepted # NoSeq
    BY <1>a, <1>b, <2>2 DEF Answers, Reported, NoSeq, Seqs
  <2>3. Answers(sched.status) => About(sched.status, 0)' \/ ~Awaiting
    BY <1>0 DEF StreamInv, Answered, About, Since, Stopped, Active
  <2> QED
    BY <1>0, <1>4, <2>1, <2>2, <2>3 DEF StreamInv, Answered, Answers, About, Ago, Active
<1>8. Traced'
  <2>1. ASSUME traj.accepted # NoSeq PROVE About(Reported, Since(Reported.count))'
    BY <1>0, <1>a, <1>b, <1>c, <2>1, Counts
       DEF About, Since, Stopped, Active, Reported, StreamInv
  <2>2. Since(Reported.count)' = 0 /\ Since(sched.status.count) \in Nat
    BY <1>c, Counts DEF StreamInv
  <2>3. Since(sched.status.count)' = Since(sched.status.count)
    BY <1>0 DEF Since
  <2>4. sched.tracking => /\ traj.accepted # NoSeq /\ About(sched.status, Since(sched.status.count))'
                          /\ (Stopped(sched.status) => Stopped(Reported))'
    BY <1>0, <1>a, <1>b DEF StreamInv, Traced, About, Since, Stopped, Active, Reported
  <2> QED
    BY <1>0, <1>b, <2>1, <2>2, <2>3, <2>4
       DEF StreamInv, Traced, Unknown, Busy, InHand, Carries, OnWire
<1>9. CreditRespected'
  BY <1>0 DEF StreamInv, CreditRespected, OnWire, InHand
<1> QED
  BY <1>1, <1>2, <1>3, <1>5, <1>6, <1>7, <1>8, <1>9 DEF StreamInv

-----------------------------------------------------------------------------
(* Nothing was sent or queued when the component was activated.            *)
LEMMA InitStreamInv == Init => StreamInv
<1> SUFFICES ASSUME Init PROVE StreamInv
  OBVIOUS
<1>0. /\ sched = NewScheduler /\ worker = [pc |-> "idle", kind |-> "HOLD", seq |-> NoSeq]
      /\ nextSeq = 0 /\ ctl = "read" /\ comm = [hold |-> FALSE, lost |-> FALSE]
      /\ mgmt = "idle" /\ wire = <<>> /\ report = <<>> /\ lastKind = "NONE"
      /\ age = [status |-> 0, report |-> 0]
      /\ traj = InitContext([seq |-> 0]) /\ taken = 0 /\ latched = FALSE
  BY DEF Init, Resting
<1>a. /\ sched \in WideScheduler /\ sched.state = "Idle" /\ sched.tracking = FALSE
      /\ sched.ahead = 0 /\ sched.lastSent = FALSE /\ sched.status = ZeroStatus
  BY <1>0, NewSchedulerTyped DEF NewScheduler
<1>b. traj.state = "IDLE" /\ traj.count = 0
  BY <1>0 DEF InitContext
<1>c. \A k : OnWire(k) = {}
  BY <1>0 DEF OnWire
<1>1. Typed
  <2>1. 0 \in Seqs /\ [seq |-> 0] \in Points
    BY ContextAssumption DEF Seqs, Points
  <2>2. ContextInv(Points, traj)
    BY <1>0, <2>1, InitContextInv
  <2>3. taken \in 0..CountMod - 1
    BY <1>0, SchedulerAssumption, ContextAssumption
  <2>4. BusTyped
    BY <1>0, StreamAssumption DEF BusTyped
  <2> QED
    BY <1>0, <1>a, <2>1, <2>2, <2>3, <2>4 DEF Typed, HostTyped, RemoteTyped
<1>2. Phases
  BY <1>0, <1>a DEF Phases, Busy, Opened
<1>3. InOrder
  BY <1>0, <1>a DEF InOrder
<1>4. Stopped(traj) /\ ~Pending
  BY <1>0, <1>b DEF Stopped, Active, Pending
<1>5. Quiet /\ Nears
  BY <1>4, Bounds, <1>1, <1>0, <1>a DEF Quiet, Nears, Launching, Busy, Stopped, Active
<1>6. Answered
  BY <1>0, <1>a DEF Answered, Awaiting
<1>7. Traced
  BY <1>a DEF Traced
<1>8. CreditRespected
  <2>1. Cardinality(OnWire("APPLY")) = 0 /\ ~InHand("APPLY") /\ High \in Nat
    BY <1>0, <1>1, <1>c, Counts DEF InHand
  <2> QED
    BY <1>b, <2>1 DEF CreditRespected
<1> QED
  BY <1>1, <1>2, <1>3, <1>5, <1>6, <1>7, <1>8 DEF StreamInv

-----------------------------------------------------------------------------
(* Every action of the system is one of the moves above.                   *)
LEMMA Restful ==
  ASSUME StreamInv
  PROVE  /\ sched \in WideScheduler /\ Sent(sched) /\ Moves(sched, sched)
         /\ {"Holding", "ResetRequired", "Fault"} = Rests
         /\ ctl \in {"read", "readFault", "readAbort", "write", "start", "submit",
                     "writeAbort", "settle", "finish"}
         /\ comm \in [hold : BOOLEAN, lost : BOOLEAN] /\ mgmt \in {"idle", "quickStop"}
         /\ ctl = "start" => sched.state \in Startable
<1>1. /\ sched \in WideScheduler /\ Sent(sched)
  BY DEF StreamInv, Typed, HostTyped, Phases, Sent, Opened, Underway
<1> QED
  BY <1>1, CallsMove DEF StreamInv, Typed, HostTyped, Phases, Rests

LEMMA StutterMoves ==
  ASSUME StreamInv, UNCHANGED vars
  PROVE  HostMoves
BY Restful DEF vars, hostVars, HostMoves

LEMMA ReadMoves ==
  ASSUME StreamInv, Read
  PROVE  HostMoves
<1>0. /\ sched \in WideScheduler /\ Sent(sched)
      /\ comm \in [hold : BOOLEAN, lost : BOOLEAN] /\ mgmt \in {"idle", "quickStop"}
  BY Restful
<1>1. ASSUME NEW ready \in BOOLEAN, NEW gate \in BOOLEAN, Judge(ready, gate),
             ctl' \in {"readAbort", "readFault", "write"}
      PROVE  HostMoves
  <2>1. /\ sched' = [sched EXCEPT !.enabled = gate]
        /\ UNCHANGED <<worker, nextSeq, mgmt, remoteVars, busVars>>
        /\ comm' = [hold |-> comm.hold \/ LossStarted(ready), lost |-> ~ready]
    BY <1>1 DEF Judge, Control
  <2>2. comm' \in [hold : BOOLEAN, lost : BOOLEAN]
    BY <1>0, <2>1 DEF LossStarted
  <2> QED
    BY <1>0, <1>1, <2>1, <2>2, CallsMove DEF HostMoves
<1>2. CASE ReadGate
  BY <1>1, <1>2 DEF ReadGate
<1>3. CASE ReadBusOff
  BY <1>1, <1>3 DEF ReadBusOff
<1>4. CASE ReadStop
  BY <1>0, <1>4, CallsMove DEF ReadStop, Control, HostMoves
<1> QED
  BY <1>2, <1>3, <1>4 DEF Read

LEMMA WriteMoves ==
  ASSUME StreamInv, Write
  PROVE  HostMoves \/ (HostRestarts /\ sched.state \in Startable \ {"Fault"})
<1>0. /\ sched \in WideScheduler /\ Sent(sched) /\ Moves(sched, sched)
      /\ comm \in [hold : BOOLEAN, lost : BOOLEAN] /\ mgmt \in {"idle", "quickStop"}
      /\ ctl = "start" => sched.state \in Startable
  BY Restful
<1>1. CASE WriteBadCommand \/ WriteInconvertible
  BY <1>0, <1>1, CallsMove DEF WriteBadCommand, WriteInconvertible, Control, HostMoves
<1>2. CASE WriteSample
  BY <1>0, <1>2 DEF WriteSample, Control, HostMoves, Startable
<1>3. CASE WriteStart
  <2>1. CASE CanStart(sched)
    BY <1>0, <1>3, <2>1 DEF WriteStart, Control, HostRestarts, CanStart, Startable
  <2>2. CASE ~CanStart(sched)
    BY <1>0, <1>3, <2>2 DEF WriteStart, Control, HostMoves
  <2> QED
    BY <2>1, <2>2
<1>4. CASE WriteSubmit
  BY <1>0, <1>4, CallsMove DEF WriteSubmit, Control, HostMoves
<1>5. CASE WriteAbort
  BY <1>0, <1>5, CallsMove DEF WriteAbort, Control, HostMoves
<1>6. CASE WriteSettle
  BY <1>0, <1>6 DEF WriteSettle, Control, HostMoves
<1>7. CASE WriteFinish
  BY <1>0, <1>7, CallsMove DEF WriteFinish, Control, HostMoves
<1> QED
  BY <1>1, <1>2, <1>3, <1>4, <1>5, <1>6, <1>7 DEF Write

LEMMA ServiceMoves ==
  ASSUME StreamInv, ServiceHold \/ ServiceQuickStop
  PROVE  HostMoves
<1>1. /\ UNCHANGED <<worker, nextSeq, ctl, comm, remoteVars, busVars>>
      /\ sched' = Abort(sched) /\ mgmt' \in {"idle", "quickStop"}
      /\ ctl = "start" => Overlap # {}
  BY Restful DEF ServiceHold, ServiceQuickStop, Manage
<1>2. ctl = "start" => sched'.state \in Startable
  BY <1>1, Restful DEF Startable, Abort, WideScheduler
<1> QED
  BY <1>1, <1>2, Restful, CallsMove DEF HostMoves

LEMMA ServiceResetMoves ==
  ASSUME StreamInv, "reset" \notin Overlap, ServiceReset
  PROVE  HostRestarts
<1>1. ctl # "start" /\ UNCHANGED <<worker, nextSeq, ctl, mgmt, remoteVars, busVars>>
      /\ sched' = Restart(sched) /\ comm' = [comm EXCEPT !.hold = FALSE]
      /\ sched.state \in {"ResetRequired", "Fault"}
  BY DEF ServiceReset, Manage, CanRecover
<1>2. comm' \in [hold : BOOLEAN, lost : BOOLEAN]
  BY <1>1, Restful
<1> QED
  BY <1>1, <1>2, Restful DEF HostRestarts

LEMMA WorkerMoves ==
  ASSUME StreamInv,
         \/ DecideStalePoint \/ DecideAckAbandoned \/ DecideAckLate
         \/ DecideStreamFault \/ DecideLocalUnderrun \/ DecideHold
  PROVE  HostMoves \/ HoldChosen
<1>0. /\ sched \in WideScheduler /\ Sent(sched) /\ Moves(sched, sched)
      /\ {"Holding", "ResetRequired", "Fault"} = Rests
      /\ ctl \in {"read", "readFault", "readAbort", "write", "start", "submit",
                  "writeAbort", "settle", "finish"}
      /\ comm \in [hold : BOOLEAN, lost : BOOLEAN] /\ mgmt \in {"idle", "quickStop"}
      /\ ctl = "start" => sched.state \in Startable
  BY Restful
<1>1. ASSUME NEW state, Deciding(state)
      PROVE  /\ worker.pc = "idle" /\ sched.state = state
             /\ UNCHANGED <<nextSeq, ctl, comm, mgmt, remoteVars, busVars>>
  BY <1>1 DEF Deciding, Choosing, Worker, busVars
<1>2. ASSUME NEW terminal \in Rests, sched.state \in {"ResetAwaitingAck", "Streaming"},
             worker.pc = "idle", sched' = BeginHold(sched, terminal), HoldNow,
             UNCHANGED <<nextSeq, ctl, comm, mgmt, remoteVars, busVars>>
      PROVE  HoldChosen
  <2>1. sched.lastSent = TRUE /\ sched.state \in Underway /\ ~IsFault(sched)
    BY <1>0, <1>2 DEF Sent, Underway, IsFault, WideScheduler
  <2>2. Moves(sched, sched') /\ sched'.state = "Finishing"
    BY <1>0, <1>2, <2>1, BeginHoldMoves
  <2> QED
    BY <1>2, <2>1, <2>2 DEF HoldNow, Chosen, HoldChosen
<1>3. CASE DecideStalePoint
  <2>1. /\ sched.state = "StartPending" /\ UNCHANGED worker
        /\ sched' = [sched EXCEPT !.queue = 0, !.state = "ResetRequired"]
        /\ UNCHANGED <<nextSeq, ctl, comm, mgmt, remoteVars, busVars>>
    BY <1>1, <1>3 DEF DecideStalePoint
  <2>2. Moves(sched, sched') /\ ctl # "start"
    BY <1>0, <2>1, DropMoves DEF Startable
  <2> QED
    BY <1>0, <2>1, <2>2 DEF HostMoves
<1>4. CASE DecideAckAbandoned
  <2>1. PICK fresh \in BOOLEAN :
          sched' = BeginHold(sched, IF fresh /\ SafetyFault(sched) THEN "Fault"
                                    ELSE "ResetRequired")
    BY <1>4 DEF DecideAckAbandoned
  <2>2. (IF fresh /\ SafetyFault(sched) THEN "Fault" ELSE "ResetRequired") \in Rests
    BY <1>0
  <2>3. Deciding("ResetAwaitingAck") /\ HoldNow
    BY <1>4 DEF DecideAckAbandoned
  <2> QED
    BY <1>1, <1>2, <2>1, <2>2, <2>3
<1>5. CASE DecideAckLate
  <2>1. /\ Deciding("ResetAwaitingAck") /\ HoldNow
        /\ sched' = [sched EXCEPT !.queue = 0, !.terminal = "ResetRequired",
                                  !.state = "Finishing"]
    BY <1>5 DEF DecideAckLate
  <2>2. sched' = BeginHold(sched, "ResetRequired")
    BY <1>0, <1>1, <2>1 DEF BeginHold, Sent, Underway
  <2> QED
    BY <1>0, <1>1, <1>2, <2>1, <2>2
<1>6. CASE DecideStreamFault
  <2>1. PICK fresh \in BOOLEAN :
          sched' = BeginHold(sched, IF fresh /\ SafetyFault(sched) THEN "Fault"
                                    ELSE "ResetRequired")
    BY <1>6 DEF DecideStreamFault
  <2>2. (IF fresh /\ SafetyFault(sched) THEN "Fault" ELSE "ResetRequired") \in Rests
    BY <1>0
  <2>3. Deciding("Streaming") /\ HoldNow
    BY <1>6 DEF DecideStreamFault
  <2> QED
    BY <1>1, <1>2, <2>1, <2>2, <2>3
<1>7. CASE DecideLocalUnderrun
  <2>1. /\ Deciding("Streaming") /\ HoldNow
        /\ sched' = BeginHold(sched, "ResetRequired")
    BY <1>7 DEF DecideLocalUnderrun, MaySend
  <2> QED
    BY <1>0, <1>1, <1>2, <2>1
<1>8. CASE DecideHold
  <2>1. /\ Deciding("Finishing") /\ HoldNow /\ sched.lastSent = TRUE /\ sched' = sched
    BY <1>0, <1>1, <1>8 DEF DecideHold, Sent, Underway, WideScheduler
  <2> QED
    BY <1>0, <1>1, <2>1 DEF HoldNow, Chosen, HoldChosen, Underway
<1> QED
  BY <1>3, <1>4, <1>5, <1>6, <1>7, <1>8

(* What the firmware does but for accepting points.                        *)
LEMMA FirmwareMoves ==
  ASSUME StreamInv,
         \/ RxHold \/ RxQuickStop \/ Lost \/ RemoteTake \/ RemoteStop \/ RemoteTimeout
         \/ RxApply /\ PushResult(traj, [seq |-> Head(wire).seq]) # "OK"
  PROVE  RemoteMoves
<1>0. /\ ContextInv(Points, traj) /\ traj \in Context(Points) /\ traj.count \in Nat
      /\ latched \in BOOLEAN /\ GoesOn(traj, traj)
  BY Counts DEF StreamInv, Typed, RemoteTyped, ContextInv, GoesOn
<1>1. ASSUME NEW cause \in HoldReasons
      PROVE  LET u == RequireReset(traj, cause) IN
             /\ ContextInv(Points, u) /\ GoesOn(traj, u) /\ u.count <= traj.count
             /\ ~Playing(u)
  BY <1>0, <1>1, RequireResetInv, RequireResetEffect
<1>2. {"EXPLICIT_0X180", "QUICK_STOP", "CSP_TIMEOUT", "DRIVE_FAULT"} \subseteq HoldReasons
  BY DEF HoldReasons
<1>3. CASE RxHold
  BY <1>0, <1>1, <1>2, <1>3 DEF RxHold, Received, RemoteMoves
<1>4. CASE RxQuickStop
  BY <1>0, <1>1, <1>2, <1>4 DEF RxQuickStop, Received, RemoteMoves
<1>5. CASE Lost
  BY <1>0, <1>5 DEF Lost, remoteVars, RemoteMoves
<1>6. CASE RemoteTake
  <2>1. PICK expired \in BOOLEAN : traj' = Take(traj, expired)
    BY <1>6 DEF RemoteTake
  <2>2. /\ ContextInv(Points, traj') /\ GoesOn(traj, traj') /\ traj'.count <= traj.count
        /\ traj.state = "PREFILL" /\ traj.count < Prefill => traj' = traj
    BY <1>0, <2>1, TakeInv, TakeCounts
  <2>3. /\ UNCHANGED <<hostVars, taken, latched, wire, report, age, lastKind>>
    BY <1>6 DEF RemoteTake, Remote, busVars
  <2> QED
    BY <1>0, <2>2, <2>3 DEF RemoteMoves
<1>7. CASE RemoteStop
  <2>1. PICK cause \in HoldReasons : traj' = RequireReset(traj, cause)
    BY <1>2, <1>7 DEF RemoteStop
  <2>2. /\ UNCHANGED <<hostVars, taken, latched, wire, report, age, lastKind>>
    BY <1>7 DEF RemoteStop, Remote, busVars
  <2> QED
    BY <1>0, <1>1, <2>1, <2>2 DEF RemoteMoves
<1>8. CASE RemoteTimeout
  <2>1. /\ UNCHANGED <<hostVars, traj, taken, wire, report, age, lastKind>>
        /\ latched' = TRUE
    BY <1>8 DEF RemoteTimeout, Remote, busVars
  <2> QED
    BY <1>0, <2>1 DEF RemoteMoves
<1>9. CASE RxApply /\ PushResult(traj, [seq |-> Head(wire).seq]) # "OK"
  <2> DEFINE p == [seq |-> Head(wire).seq]
  <2>1. /\ wire # <<>> /\ Head(wire).kind = "APPLY" /\ wire' = Tail(wire)
        /\ UNCHANGED <<hostVars, report, age, lastKind, taken, latched>>
        /\ traj' = Push(traj, p) /\ PushResult(traj, p) # "OK"
    BY <1>9 DEF RxApply, Received
  <2>2. p \in Points
    <3>1. 1 \in DOMAIN wire /\ Head(wire) = wire[1]
      BY <2>1, TailElements DEF StreamInv, Typed, BusTyped
    <3>2. wire[1].seq \in Seqs
      BY <2>1, <3>1 DEF StreamInv, InOrder, Numbered
    <3> QED
      BY <3>1, <3>2 DEF Points
  <2>3. HasSeq(Points)
    BY DEF HasSeq, Points
  <2> HIDE DEF p
  <2>4. ContextInv(Points, traj')
    BY <1>0, <2>1, <2>2, <2>3, PushInv
  <2>5. /\ GoesOn(traj, traj') /\ traj'.count <= traj.count
        /\ traj' # traj => ~Playing(traj')
    BY <1>0, <2>1, <2>2, PushCounts
  <2> QED
    BY <1>0, <2>1, <2>4, <2>5 DEF RemoteMoves
<1> QED
  BY <1>3, <1>4, <1>5, <1>6, <1>7, <1>8, <1>9

-----------------------------------------------------------------------------
LEMMA StepKeeps ==
  ASSUME "reset" \notin Overlap
  PROVE  StreamInv /\ [Next]_vars => StreamInv'
<1> SUFFICES ASSUME StreamInv, [Next]_vars PROVE StreamInv'
  OBVIOUS
<1>1. CASE Run
  <2>1. CASE DecideReset
    BY <2>1, DecideResetKeeps
  <2>2. CASE \/ DecideStalePoint \/ DecideAckAbandoned \/ DecideAckLate
             \/ DecideStreamFault \/ DecideLocalUnderrun \/ DecideHold
    BY <2>2, WorkerMoves, HostMovesKeeps, HoldChosenKeeps
  <2>3. CASE DecideAckAccepted
    BY <2>3, DecideAckAcceptedKeeps
  <2>4. CASE DecideApply \/ DecideFiller
    BY <2>4, ApplyChosenKeeps
  <2>5. CASE Send
    BY <2>5, SendKeeps
  <2>6. CASE SendFails \/ Book
    BY <2>6, DoneKeeps
  <2> QED
    BY <1>1, <2>1, <2>2, <2>3, <2>4, <2>5, <2>6 DEF Run
<1>2. CASE Read
  BY <1>2, ReadMoves, HostMovesKeeps
<1>3. CASE Write
  BY <1>3, WriteMoves, HostMovesKeeps, HostRestartsKeeps
<1>4. CASE Management
  BY <1>4, ServiceMoves, ServiceResetMoves, QuickStopSendKeeps, HostMovesKeeps,
     HostRestartsKeeps DEF Management
<1>5. CASE Dispatch
  BY <1>5, DispatchKeeps
<1>6. CASE Firmware
  <2>1. CASE RxReset
    BY <2>1, RxResetKeeps
  <2>2. CASE RxApply /\ PushResult(traj, [seq |-> Head(wire).seq]) = "OK"
    BY <2>2, AcceptKeeps
  <2>3. CASE RemoteReport
    BY <2>3, RemoteReportKeeps
  <2>4. CASE \/ RxHold \/ RxQuickStop \/ Lost \/ RemoteTake \/ RemoteStop \/ RemoteTimeout
             \/ RxApply /\ PushResult(traj, [seq |-> Head(wire).seq]) # "OK"
    BY <2>4, FirmwareMoves, RemoteMovesKeeps
  <2> QED
    BY <1>6, <2>1, <2>2, <2>3, <2>4 DEF Firmware
<1>7. CASE UNCHANGED vars
  BY <1>7, StutterMoves, HostMovesKeeps
<1> QED
  BY <1>1, <1>2, <1>3, <1>4, <1>5, <1>6, <1>7 DEF Next

-----------------------------------------------------------------------------
(* The invariant behind the theorems: whatever the worker, the control     *)
(* loop, the services, the bus and the firmware do, the host's bookkeeping *)
(* of what is under way agrees with what is (csp_scheduler.cpp against     *)
(* robot_trajectory.c).                                                    *)
THEOREM StreamInvariant ==
  ASSUME "reset" \notin Overlap
  PROVE  Spec => []StreamInv
<1>1. Init => StreamInv
  BY InitStreamInv
<1>2. StreamInv /\ [Next]_vars => StreamInv'
  BY StepKeeps
<1> QED
  BY <1>1, <1>2, PTL DEF Spec

(* Flow control (csp_scheduler.cpp:574): the variables keep their types,   *)
(* and the points queued at the firmware, on the bus and in the worker's   *)
(* hand never exceed the high watermark.                                   *)
THEOREM StreamIsFlowSafe ==
  ASSUME "reset" \notin Overlap
  PROVE  Spec => []FlowSafe
<1>1. ASSUME StreamInv PROVE FlowSafe
  <2>1. sched.ahead \in -1..Capacity
    <3>1. /\ Cardinality(OnWire("APPLY")) \in Nat /\ Since(sched.status.count) \in Nat
          /\ OneIf(InHand("APPLY")) \in 0..1 /\ sched.ahead \in Int
          /\ High <= Capacity /\ High \in Nat /\ Capacity \in Nat
      BY <1>1, Counts DEF StreamInv, OneIf
    <3>2. CASE sched.tracking
      <4>1. /\ Since(sched.status.count) + Cardinality(OnWire("APPLY"))
                 + OneIf(InHand("APPLY")) <= Unknown
            /\ Unknown <= High /\ (Unknown = sched.ahead \/ Unknown = sched.ahead + 1)
        BY <1>1, <3>1, <3>2 DEF StreamInv, Traced, Unknown
      <4> QED
        BY <3>1, <4>1
    <3>3. CASE ~sched.tracking
      BY <1>1, <3>1, <3>3 DEF StreamInv, Phases
    <3> QED
      BY <3>2, <3>3
  <2>2. sched \in Scheduler
    <3>1. sched \in WideScheduler /\ Rests \subseteq StreamStates
      BY <1>1 DEF StreamInv, Typed, HostTyped, Rests, StreamStates
    <3> QED
      BY <2>1, <3>1 DEF Scheduler, WideScheduler
  <2>3. traj \in Context([seq : Seqs])
    BY <1>1 DEF StreamInv, Typed, RemoteTyped, ContextInv, Points
  <2> QED
    BY <1>1, <2>2, <2>3
       DEF StreamInv, Typed, HostTyped, RemoteTyped, BusTyped, FlowSafe, TypeOK
<1> QED
  BY <1>1, StreamInvariant, PTL

(* While the firmware plays a stream no RESET is chosen or under way, so   *)
(* none drops its points and jumps.  Playing starts with more points than  *)
(* the one that a RESET brings (ROBOT_TRAJECTORY_PREFILL_COUNT).          *)
THEOREM ResetsFindNoneRunning ==
  ASSUME "reset" \notin Overlap, Prefill > 1
  PROVE  Spec => []NoResetWhileRunning
<1>1. ASSUME StreamInv, InHand("RESET") \/ Carries("RESET") PROVE traj.state # "RUNNING"
  <2>1. ~sched.tracking /\ (Carries("RESET") \/ Launching)
    BY <1>1 DEF StreamInv, Traced, Phases, Busy, InHand, Launching
  <2> QED
    BY <1>1, <2>1 DEF StreamInv, Quiet, Stopped, Active
<1>2. StreamInv => NoResetWhileRunning
  BY <1>1 DEF NoResetWhileRunning
<1> QED
  BY <1>2, StreamInvariant, PTL

-----------------------------------------------------------------------------
(* What a step does to the phase of the stream.                            *)
LEMMA StepMoves ==
  ASSUME "reset" \notin Overlap, StreamInv, [Next]_vars
  PROVE  \/ Moves(sched, sched')
         \/ HostRestarts /\ (ServiceReset \/ sched.state \in Startable \ {"Fault"})
         \/ sched.state = "StartPending" /\ sched'.state = "StartPending"
         \/ sched.state = "ResetAwaitingAck" /\ sched'.state = "Streaming"
         \/ SendFails \/ Book
         \/ sched'.state = sched.state /\ sched'.terminal = sched.terminal
<1>0. sched \in WideScheduler
  BY Restful
<1>1. CASE Run
  <2>1. CASE DecideReset
    BY <1>0, <2>1, ChooseResetEffect DEF DecideReset, Choosing
  <2>2. CASE \/ DecideStalePoint \/ DecideAckAbandoned \/ DecideAckLate
             \/ DecideStreamFault \/ DecideLocalUnderrun \/ DecideHold
    BY <2>2, WorkerMoves DEF HostMoves, HoldChosen
  <2>3. CASE DecideAckAccepted
    BY <1>0, <2>3, StartStreamingEffect DEF DecideAckAccepted, Deciding, Choosing
  <2>4. CASE DecideApply
    BY <1>0, <2>4, ChooseApplyMoves DEF DecideApply
  <2>5. CASE DecideFiller \/ Send
    BY <2>5 DEF DecideFiller, Send
  <2>6. CASE SendFails \/ Book
    BY <2>6
  <2> QED
    BY <1>1, <2>1, <2>2, <2>3, <2>4, <2>5, <2>6 DEF Run
<1>2. CASE Read
  BY <1>2, ReadMoves DEF HostMoves
<1>3. CASE Write
  BY <1>3, WriteMoves DEF HostMoves
<1>4. CASE Management
  <2>1. CASE ServiceHold \/ ServiceQuickStop
    BY <2>1, ServiceMoves DEF HostMoves
  <2>2. CASE ServiceReset
    BY <2>2, ServiceResetMoves
  <2>3. CASE ServiceQuickStopSend
    BY <2>3 DEF ServiceQuickStopSend
  <2> QED
    BY <1>4, <2>1, <2>2, <2>3 DEF Management
<1>5. CASE Dispatch
  <2>1. Head(report) \in TrajectoryStatus
    BY <1>5, ReportElements DEF Dispatch, Pending, StreamInv, Typed
  <2> QED
    BY <1>0, <1>5, <2>1, UpdateEffect DEF Dispatch
<1>6. CASE Firmware \/ UNCHANGED vars
  <2>1. UNCHANGED sched
    BY <1>6 DEF Firmware, RxReset, RxApply, RxHold, RxQuickStop, Received, Lost, RemoteTake,
                RemoteStop, RemoteTimeout, Remote, RemoteReport, hostVars, vars
  <2> QED
    BY <2>1
<1> QED
  BY <1>1, <1>2, <1>3, <1>4, <1>5, <1>6 DEF Next

(* abort_trajectory, finish_trajectory, mark_fault and the worker's own    *)
(* decisions (csp_scheduler.cpp): a stream that was opened comes to rest   *)
(* only when its HOLD was the last frame sent, and nothing is in hand.     *)
THEOREM StreamsEndWithHold ==
  ASSUME "reset" \notin Overlap
  PROVE  Spec => StreamEndsWithHold
<1>1. ASSUME StreamInv, [Next]_vars, sched.state \in Opened,
             sched'.state \in {"Holding", "ResetRequired"}
      PROVE  lastKind = "HOLD" /\ worker'.pc = "idle"
  <2>1. ~Moves(sched, sched')
    BY <1>1 DEF Moves, Opened, Underway
  <2>2. ~HostRestarts
    BY <1>1, RestartEffect DEF HostRestarts, StreamInv, Typed, HostTyped
  <2>3. SendFails \/ Book
    BY <1>1, <2>1, <2>2, StepMoves DEF Opened
  <2>4. /\ worker' = Resting
        /\ worker.pc = "book" /\ worker.kind = "HOLD"
    BY <1>1, <2>3, DoneEffect DEF Opened
  <2> QED
    BY <1>1, <2>4 DEF StreamInv, Phases, Resting
<1>2. StreamInv /\ [Next]_vars =>
        (/\ sched.state \in Opened
         /\ sched'.state \in {"Holding", "ResetRequired"}
         => lastKind = "HOLD" /\ worker'.pc = "idle")
  BY <1>1
<1> QED
  BY <1>2, StreamInvariant, PTL DEF Spec, StreamEndsWithHold

(* csp_scheduler.cpp: a fault that was reached, or that a HOLD leads to,   *)
(* stays one until the reset service is called.                            *)
THEOREM FaultsStand ==
  ASSUME "reset" \notin Overlap
  PROVE  Spec => FaultNeverDowngraded
<1>1. ASSUME StreamInv, [Next]_vars, IsFault(sched) PROVE IsFault(sched') \/ ServiceReset
  <2>1. CASE SendFails
    BY <1>1, <2>1, SendFailsEffect DEF SendFails, IsFault, StreamInv, Typed, HostTyped
  <2>2. CASE Book
    <3>0. /\ sched \in WideScheduler /\ worker.pc = "book" /\ worker.seq \in Seqs
          /\ worker.kind \in {"RESET", "APPLY", "HOLD"}
          /\ worker.kind # "APPLY" \/ sched.state # "Fault"
      BY <1>1, <2>2 DEF Book, Worker, StreamInv, Typed, HostTyped, Phases, Busy
    <3>1. CASE worker.kind = "HOLD"
      <4>1. sched' = BookHold(sched) /\ sched.state = "Finishing"
        BY <1>1, <2>2, <3>0, <3>1 DEF Book, StreamInv, Phases, Busy
      <4> QED
        BY <1>1, <3>0, <4>1, BookHoldEffect DEF IsFault
    <3>2. CASE worker.kind = "RESET"
      <4>1. sched' = BookReset(sched, worker.seq)
        BY <2>2, <3>2 DEF Book
      <4> QED
        BY <1>1, <3>0, <4>1, BookResetEffect DEF IsFault
    <3>3. CASE worker.kind = "APPLY"
      <4>1. sched' = BookApply(sched)
        BY <2>2, <3>3 DEF Book
      <4> QED
        BY <1>1, <3>0, <4>1, BookApplyEffect DEF IsFault
    <3> QED
      BY <3>0, <3>1, <3>2, <3>3
  <2> QED
    BY <1>1, <2>1, <2>2, StepMoves DEF Moves, IsFault, Startable
<1>2. StreamInv /\ [Next]_vars => (Faulted(sched) => Faulted(sched)' \/ ServiceReset)
  BY <1>1 DEF IsFault, Faulted
<1> QED
  BY <1>2, StreamInvariant, PTL DEF Spec, FaultNeverDowngraded

(* elfin3_canfd_system.cpp:497: a new command alone does not start a       *)
(* stream that ended abnormally; only the reset service does.              *)
THEOREM RestartsNeedReset ==
  ASSUME Overlap = {}
  PROVE  Spec => RestartNeedsReset
<1>0. "reset" \notin Overlap
  OBVIOUS
<1>1. ASSUME StreamInv, [Next]_vars, sched.state \in {"ResetRequired", "Fault"},
             sched'.state = "StartPending"
      PROVE  ServiceReset
  <2>1. ~Moves(sched, sched')
    BY <1>1 DEF Moves, Underway
  <2>2. ~SendFails /\ ~Book
    BY <1>1, DoneEffect DEF Rests
  <2> QED
    BY <1>0, <1>1, <2>1, <2>2, StepMoves DEF Startable
<1>2. StreamInv /\ [Next]_vars =>
        (/\ sched.state \in {"ResetRequired", "Fault"}
         /\ sched'.state = "StartPending"
         => ServiceReset)
  BY <1>1
<1> QED
  BY <1>0, <1>2, StreamInvariant, PTL DEF Spec, RestartNeedsReset

=============================================================================
