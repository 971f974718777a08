----------------------------- MODULE BoardProofs -----------------------------
(***************************************************************************)
(* What holds of the CAN link and of the tasks and interrupts of the       *)
(* firmware for every range of numbers, every size and every bound.        *)
(*                                                                         *)
(* Of the numbered frames: the firmware hears a new host process again     *)
(* after at most half the range and one more refused frames, and a frame   *)
(* that comes twice is acted on once.                                      *)
(*                                                                         *)
(* Of bus-off recovery: no bus-off is forgotten.  The clearing of          *)
(* bsp_can_bus_off_pending behind a restart is harmless because a          *)
(* controller just restarted has nothing to transmit, and the task, which  *)
(* clears the flag, is the one that sends.                                 *)
(*                                                                         *)
(* Of the receive ring: it is a bounded queue, across the wrap of its      *)
(* indices.                                                                *)
(*                                                                         *)
(* Of the mailboxes: no buffer is lost or in two hands, calls get their    *)
(* own answers until one has failed, and what was given up is not written. *)
(***************************************************************************)
EXTENDS Board, SequenceTheorems, FiniteSets, TLAPS

----------------------------------------------------------------------------
(* The numbered frames of the host.                                        *)

Distance(s) == Ahead(tracker[s].last, next[s])

(* Where a stream may stand, by how far the next number is ahead of the    *)
(* last one taken: refused frames move it through the far half up to the   *)
(* last number itself; from there only numbers the filter does not see     *)
(* move it on, and MaxUnseen of them do not reach the far half again.      *)
Bounded(s) ==
  /\ ignored[s] <= Half + 1
  /\ ~tracker[s].received => ignored[s] = 0
  /\ tracker[s].received =>
       /\ Distance(s) \in 1 .. (Half - 1) =>
            ignored[s] = 0 \/ Distance(s) <= unseen[s] + 1
       /\ Distance(s) = 0 => ignored[s] <= Half
       /\ Distance(s) >= Half => ignored[s] <= Distance(s) - Half

(* The frame that reached the filter would be refused now.                 *)
Used ==
  /\ taken <= 1
  /\ reached => ~Accepts(tracker[frame.stream], frame.number)

IInv == TypeOK /\ (\A s \in Streams : Bounded(s)) /\ Used

(* A forward distance is in the range, the next number is one further      *)
(* ahead around the circle, and a number is not ahead of itself.           *)
LEMMA Circle ==
  ASSUME NEW l \in Numbers, NEW n \in Numbers
  PROVE  /\ Ahead(l, n) \in Numbers
         /\ Following(n) \in Numbers
         /\ Ahead(l, Following(n)) = Following(Ahead(l, n))
         /\ Ahead(n, n) = 0
         /\ Following(0) = 1
BY HalfAssumption DEF HalfAssumption, Numbers, Modulus, Ahead, Following

(* The filter keeps a tracker, with the number taken or as it was.         *)
LEMMA TakeTracker ==
  ASSUME NEW t \in Trackers, NEW n \in Numbers
  PROVE  /\ Take(t, n) \in Trackers
         /\ Accepts(t, n) => Take(t, n) = [received |-> TRUE, last |-> n]
         /\ ~Accepts(t, n) => Take(t, n) = t
         /\ ~Accepts(Take(t, n), n)
<1>1. Ahead(n, n) = 0
  BY Circle
<1>2. Take(t, n) \in Trackers
  BY DEF Take, Trackers
<1>3. ASSUME Accepts(t, n)
      PROVE  ~Accepts(Take(t, n), n)
  <2>1. Take(t, n).received = TRUE /\ Take(t, n).last = n
    BY <1>3 DEF Take
  <2> QED
    BY <2>1, <1>1 DEF Accepts
<1> QED
  BY <1>2, <1>3 DEF Take

(* The initial state satisfies the invariant.                              *)
LEMMA InitInvariant == Init => IInv
<1> SUFFICES ASSUME Init PROVE IInv
  OBVIOUS
<1>1. 0 \in Numbers
  BY HalfAssumption DEF HalfAssumption, Numbers, Modulus
<1>2. TypeOK
  <2>1. Fresh \in Trackers
    BY <1>1 DEF Fresh, Trackers
  <2>2. tracker \in [Streams -> Trackers]
    BY <2>1 DEF Init
  <2>3. frame \in [stream : Streams, number : Numbers]
    BY <1>1 DEF Init, Streams
  <2>4. 0 \in 0 .. MaxUnseen
    BY MaxUnseenAssumption DEF MaxUnseenAssumption
  <2> QED
    BY <1>1, <2>2, <2>3, <2>4 DEF Init, TypeOK
<1>3. \A s \in Streams : Bounded(s)
  BY HalfAssumption DEF HalfAssumption, Init, Bounded, Fresh
<1> QED
  BY <1>2, <1>3 DEF IInv, Used, Init

(* What putting a frame on the bus does to the types.                      *)
LEMMA NumberTyped ==
  ASSUME TypeOK, NEW s \in Streams, Number(s)
  PROVE  /\ next' \in [Streams -> Numbers]
         /\ frame' \in [stream : Streams, number : Numbers]
         /\ next'[s] = Following(next[s])
         /\ \A r \in Streams \ {s} : next'[r] = next[r]
         /\ frame'.stream = s /\ frame'.number = next[s]
<1>1. next[s] \in Numbers
  BY DEF TypeOK
<1>2. Following(next[s]) \in Numbers
  BY <1>1, Circle
<1>3. frame' = [stream |-> s, number |-> next[s]]
  BY DEF Number
<1>4. frame' \in [stream : Streams, number : Numbers]
  BY <1>1, <1>3
<1>5. next' = [next EXCEPT ![s] = Following(next[s])]
  BY DEF Number
<1> QED
  BY <1>2, <1>3, <1>4, <1>5 DEF TypeOK

(* A frame the filter takes or refuses keeps the invariant.                *)
LEMMA ArriveStep ==
  ASSUME IInv, NEW s \in Streams, Arrive(s)
  PROVE  IInv'
<1> DEFINE d == Distance(s)
           n == next[s]
<1>0. TypeOK /\ Used /\ (\A r \in Streams : Bounded(r))
  BY DEF IInv
<1>1. n \in Numbers /\ tracker[s] \in Trackers /\ tracker[s].last \in Numbers
  BY <1>0 DEF TypeOK, Trackers
<1>2. Number(s)
  BY DEF Arrive
<1>3. tracker' = [tracker EXCEPT ![s] = Take(tracker[s], n)]
  BY DEF Arrive
<1>4. tracker'[s] = Take(tracker[s], n)
  BY <1>0, <1>3 DEF TypeOK
<1>5. next'[s] = Following(n)
  BY <1>0, <1>2, NumberTyped
<1>6. Distance(s)' = Ahead(tracker'[s].last, Following(n))
  BY <1>5 DEF Distance
<1>7. unseen' = [unseen EXCEPT ![s] = 0] /\ unseen'[s] = 0
  BY <1>0 DEF Arrive, TypeOK
<1>8. TypeOK'
  <2>1. tracker' \in [Streams -> Trackers]
    BY <1>0, <1>1, <1>3, TakeTracker DEF TypeOK
  <2>2. unseen' \in [Streams -> 0 .. MaxUnseen]
    BY <1>0, <1>7, MaxUnseenAssumption DEF TypeOK, MaxUnseenAssumption
  <2>3. ignored' \in [Streams -> Nat] /\ taken' \in Nat
    BY <1>0 DEF Arrive, TypeOK
  <2>4. reached' \in BOOLEAN
    BY DEF Arrive
  <2> QED
    BY <1>0, <1>2, <2>1, <2>2, <2>3, <2>4, NumberTyped DEF TypeOK
<1>9. Bounded(s)'
  <2>1. CASE Accepts(tracker[s], n)
    <3>1. tracker'[s].last = n
      BY <1>1, <1>4, <2>1, TakeTracker
    <3>2. Distance(s)' = 1
      BY <1>1, <1>6, <3>1, Circle
    <3>3. ignored'[s] = 0
      BY <1>0, <2>1 DEF Arrive, TypeOK
    <3> QED
      BY <3>2, <3>3, HalfAssumption DEF Bounded, HalfAssumption
  <2>2. CASE ~Accepts(tracker[s], n)
    <3>1. tracker'[s] = tracker[s]
      BY <1>1, <1>4, <2>2, TakeTracker
    <3>2. Distance(s)' = Following(d)
      BY <1>1, <1>6, <3>1, Circle DEF Distance
    <3>3. tracker[s].received /\ d \in Numbers /\ d \notin 1 .. (Half - 1)
      BY <1>1, <2>2, Circle DEF Accepts, Distance
    <3>4. ignored'[s] = ignored[s] + 1 /\ ignored[s] \in Nat
      BY <1>0, <2>2 DEF Arrive, TypeOK
    <3>5. Bounded(s)
      BY <1>0
    <3> HIDE DEF d
    <3>6. CASE d = 0
      <4>1. Distance(s)' = 1
        BY <1>1, <3>2, <3>6, Circle
      <4>2. ignored[s] <= Half
        BY <3>3, <3>5, <3>6 DEF Bounded, d
      <4>3. unseen'[s] = 0
        BY <1>7
      <4> QED
        BY <3>1, <3>3, <3>4, <4>1, <4>2, <4>3, HalfAssumption DEF Bounded, HalfAssumption
    <3>7. CASE d >= Half
      <4>1. ignored[s] <= d - Half
        BY <3>3, <3>5, <3>7 DEF Bounded, d
      <4>2. CASE d = Modulus - 1
        <5>1. Distance(s)' = 0
          BY <3>2, <4>2 DEF Following
        <5> QED
          BY <3>1, <3>3, <3>4, <4>1, <4>2, <5>1, HalfAssumption
          DEF Bounded, HalfAssumption, Modulus
      <4>3. CASE d # Modulus - 1
        <5>1. Distance(s)' = d + 1
          BY <3>2, <4>3 DEF Following
        <5> QED
          BY <3>1, <3>3, <3>4, <3>7, <4>1, <4>3, <5>1, HalfAssumption
          DEF Bounded, HalfAssumption, Modulus, Numbers
      <4> QED
        BY <4>2, <4>3
    <3> QED
      BY <3>3, <3>6, <3>7, HalfAssumption DEF HalfAssumption, Numbers, Modulus
  <2> QED
    BY <2>1, <2>2
<1>10. ASSUME NEW r \in Streams \ {s}
       PROVE  Bounded(r)'
  <2>1. /\ next'[r] = next[r] /\ tracker'[r] = tracker[r]
        /\ ignored'[r] = ignored[r] /\ unseen'[r] = unseen[r]
    BY <1>0, <1>2, <1>3, <1>7, NumberTyped DEF Arrive, TypeOK
  <2> QED
    BY <1>0, <2>1 DEF Bounded, Distance
<1>11. Used'
  <2>1. frame'.stream = s /\ frame'.number = n
    BY <1>0, <1>2, NumberTyped
  <2>2. ~Accepts(tracker'[s], n)
    BY <1>1, <1>4, TakeTracker
  <2>3. taken' <= 1
    BY DEF Arrive
  <2> QED
    BY <2>1, <2>2, <2>3 DEF Used, Accepts
<1> QED
  BY <1>8, <1>9, <1>10, <1>11 DEF IInv

(* A number the filter does not see keeps the invariant.                   *)
LEMMA PassStep ==
  ASSUME IInv, NEW s \in Streams, PassFilterBy(s)
  PROVE  IInv'
<1> DEFINE d == Distance(s)
           n == next[s]
<1>0. TypeOK /\ (\A r \in Streams : Bounded(r))
  BY DEF IInv
<1>1. n \in Numbers /\ tracker[s].last \in Numbers
  BY <1>0 DEF TypeOK, Trackers
<1>2. Number(s) /\ tracker' = tracker /\ ignored' = ignored
  BY DEF PassFilterBy
<1>3. Distance(s)' = Following(d) /\ d \in Numbers
  <2>1. next'[s] = Following(n)
    BY <1>0, <1>2, NumberTyped
  <2>2. Distance(s)' = Ahead(tracker[s].last, Following(n))
    BY <1>2, <2>1 DEF Distance
  <2> QED
    BY <1>1, <2>2, Circle DEF Distance
<1>4. /\ unseen' = [unseen EXCEPT ![s] = unseen[s] + 1]
      /\ unseen'[s] = unseen[s] + 1
      /\ unseen[s] \in Nat /\ unseen[s] < MaxUnseen
  BY <1>0 DEF PassFilterBy, TypeOK
<1>5. ignored[s] \in Nat /\ Bounded(s)
  BY <1>0 DEF TypeOK
<1>6. TypeOK'
  <2>1. unseen' \in [Streams -> 0 .. MaxUnseen]
    BY <1>0, <1>4, MaxUnseenAssumption DEF TypeOK, MaxUnseenAssumption
  <2>2. reached' \in BOOLEAN /\ taken' \in Nat
    BY DEF PassFilterBy
  <2> QED
    BY <1>0, <1>2, <2>1, <2>2, NumberTyped DEF TypeOK
<1>7. Bounded(s)'
  <2> HIDE DEF d
  <2>1. CASE ~tracker[s].received
    BY <1>2, <1>5, <2>1 DEF Bounded
  <2>2. CASE tracker[s].received /\ d = 0
    <3>1. Distance(s)' = 1
      BY <1>1, <1>3, <2>2, Circle
    <3> QED
      BY <1>2, <1>4, <1>5, <2>2, <3>1, HalfAssumption DEF Bounded, HalfAssumption
  <2>3. CASE tracker[s].received /\ d \in 1 .. (Half - 1)
    <3>1. Distance(s)' = d + 1
      BY <1>3, <2>3, HalfAssumption DEF Following, Modulus, HalfAssumption
    <3>2. ignored[s] = 0 \/ d <= unseen[s] + 1
      BY <1>5, <2>3 DEF Bounded, d
    <3>3. CASE ignored[s] = 0
      BY <1>2, <1>3, <2>3, <3>1, <3>3, HalfAssumption
      DEF Bounded, HalfAssumption
    <3>4. CASE d <= unseen[s] + 1
      <4>1. d + 1 <= unseen'[s] + 1 /\ d + 1 < Half
        BY <1>4, <2>3, <3>4, HalfAssumption, MaxUnseenAssumption
        DEF HalfAssumption, MaxUnseenAssumption
      <4> QED
        BY <1>2, <1>5, <2>3, <3>1, <4>1, HalfAssumption DEF Bounded, HalfAssumption
    <3> QED
      BY <3>2, <3>3, <3>4
  <2>4. CASE tracker[s].received /\ d >= Half
    <3>1. ignored[s] <= d - Half
      BY <1>5, <2>4 DEF Bounded, d
    <3>2. CASE d = Modulus - 1
      <4>1. Distance(s)' = 0
        BY <1>3, <3>2 DEF Following
      <4> QED
        BY <1>2, <1>5, <2>4, <3>1, <3>2, <4>1, HalfAssumption
        DEF Bounded, HalfAssumption, Modulus
    <3>3. CASE d # Modulus - 1
      <4>1. Distance(s)' = d + 1
        BY <1>3, <3>3 DEF Following
      <4> QED
        BY <1>2, <1>3, <1>5, <2>4, <3>1, <3>3, <4>1, HalfAssumption
        DEF Bounded, HalfAssumption, Modulus, Numbers
    <3> QED
      BY <3>2, <3>3
  <2>5. d = 0 \/ d \in 1 .. (Half - 1) \/ d >= Half
    BY <1>3, HalfAssumption DEF HalfAssumption, Numbers, Modulus
  <2> QED
    BY <2>1, <2>2, <2>3, <2>4, <2>5, Zenon
<1>8. ASSUME NEW r \in Streams \ {s}
      PROVE  Bounded(r)'
  <2>1. next'[r] = next[r] /\ unseen'[r] = unseen[r]
    BY <1>0, <1>2, <1>4, NumberTyped DEF TypeOK
  <2> QED
    BY <1>0, <1>2, <2>1 DEF Bounded, Distance
<1>9. Used'
  BY DEF PassFilterBy, Used
<1> QED
  BY <1>6, <1>7, <1>8, <1>9 DEF IInv

(* Every step keeps the invariant: a frame that comes again finds the      *)
(* filter closed, and a new host process has no refused frames yet.        *)
LEMMA StepInvariant == IInv /\ [Next]_vars => IInv'
<1> SUFFICES ASSUME IInv, [Next]_vars PROVE IInv'
  OBVIOUS
<1>0. TypeOK /\ Used /\ (\A r \in Streams : Bounded(r))
  BY DEF IInv
<1>1. CASE HostRestart
  <2>1. next' = [s \in Streams |-> 0] /\ ignored' = [s \in Streams |-> 0]
    BY <1>1 DEF HostRestart
  <2>2. UNCHANGED <<tracker, frame, unseen, reached, taken>>
    BY <1>1 DEF HostRestart
  <2>3. 0 \in Numbers
    BY HalfAssumption DEF HalfAssumption, Numbers, Modulus
  <2>4. TypeOK'
    BY <1>0, <2>1, <2>2, <2>3 DEF TypeOK
  <2>5. ASSUME NEW s \in Streams
        PROVE  Bounded(s)'
    <3>1. ignored'[s] = 0
      BY <2>1
    <3>2. Distance(s)' \in Numbers
      BY <2>4, Circle DEF TypeOK, Distance, Trackers
    <3> QED
      BY <3>1, <3>2, HalfAssumption DEF Bounded, HalfAssumption, Numbers, Modulus
  <2>6. Used'
    BY <1>0, <2>2 DEF Used
  <2> QED
    BY <2>4, <2>5, <2>6 DEF IInv
<1>2. ASSUME NEW s \in Streams, Arrive(s)
      PROVE  IInv'
  BY <1>2, ArriveStep
<1>3. ASSUME NEW s \in Streams, PassFilterBy(s)
      PROVE  IInv'
  BY <1>3, PassStep
<1>4. CASE ArriveAgain
  <2>1. ~Accepts(tracker[frame.stream], frame.number)
    BY <1>0, <1>4 DEF ArriveAgain, Used
  <2>2. Take(tracker[frame.stream], frame.number) = tracker[frame.stream]
    BY <2>1 DEF Take
  <2>3. tracker' = tracker /\ taken' = taken
    BY <1>0, <1>4, <2>1, <2>2 DEF ArriveAgain, TypeOK
  <2>4. UNCHANGED vars
    BY <1>4, <2>3 DEF ArriveAgain, vars
  <2> QED
    BY <1>0, <2>4 DEF IInv, TypeOK, Used, Bounded, Distance, vars
<1>5. CASE UNCHANGED vars
  BY <1>0, <1>5 DEF IInv, TypeOK, Used, Bounded, Distance, vars
<1> QED
  BY <1>1, <1>2, <1>3, <1>4, <1>5 DEF Next

(* For every range of numbers and every bound on the losses short of half  *)
(* of it, a new host process is heard again.                               *)
THEOREM IsHeardAgain == Spec => []HeardAgain
<1>1. IInv => HeardAgain
  BY DEF IInv, Bounded, HeardAgain
<1> QED
  BY <1>1, InitInvariant, StepInvariant, PTL DEF Spec

(* For every range of numbers, no frame is acted on twice.                 *)
THEOREM IsTakenOnce == Spec => []TakenOnce
<1>1. IInv => TakenOnce
  BY DEF IInv, Used, TakenOnce
<1> QED
  BY <1>1, InitInvariant, StepInvariant, PTL DEF Spec

(* The types are kept.                                                     *)
THEOREM HostSessionTyped == Spec => []TypeOK
<1>1. IInv => TypeOK
  BY DEF IInv
<1> QED
  BY <1>1, InitInvariant, StepInvariant, PTL DEF Spec

----------------------------------------------------------------------------
(* Bus-off and its recovery.                                               *)

(* A stopped controller has nothing to send, and between the restart and   *)
(* the last clearing of the flag it runs with nothing to send.             *)
SendsNothing ==
  /\ hal = "READY" => ctl.requests = 0
  /\ task \in {"started", "recovered"} => ~ctl.init /\ ctl.requests = 0

(* The task restarts on request, and a request that is not being answered  *)
(* concerns a controller that is still off and will not interrupt again.   *)
Requested == task \in {"stop", "start"} => pending
StillOff ==
  pending /\ task \notin {"started", "recovered"} =>
    ctl.off /\ ctl.init /\ ~irq

(* A controller rests only off the bus, and the interrupt that finds it    *)
(* off finds it resting.                                                   *)
RestsOff == (ctl.init => ctl.off) /\ (irq /\ ctl.off => ctl.init)

BusOffInv ==
  BusOff!TypeOK /\ BusOff!BusOffRemembered /\ SendsNothing /\ Requested /\ StillOff /\ RestsOff

LEMMA BusOffInit == ASSUME BusOff!BusOffAssumption PROVE BusOff!Init => BusOffInv
<1> SUFFICES ASSUME BusOff!Init PROVE BusOffInv
  OBVIOUS
<1>1. BusOff!TypeOK
  <2>1. ctl \in [init : BOOLEAN, off : BOOLEAN, requests : 0..TxDepth]
    BY DEF BusOff!BusOffAssumption, BusOff!Init
  <2>2. fails \in [stop : 0..StopFails, start : 0..StartFails]
    BY DEF BusOff!BusOffAssumption, BusOff!Init
  <2>3. irq \in BOOLEAN /\ pending \in BOOLEAN
    BY Zenon DEF BusOff!Init
  <2>4. age \in 0..Delay
    BY DEF BusOff!BusOffAssumption, BusOff!Init
  <2>5. hal \in {"READY", "BUSY", "ERROR"}
        /\ task \in {"idle", "stop", "start", "started", "recovered"}
    BY Zenon DEF BusOff!Init
  <2> QED
    BY <2>1, <2>2, <2>3, <2>4, <2>5, Zenon DEF BusOff!TypeOK
<1>2. BusOff!BusOffRemembered /\ SendsNothing /\ Requested /\ StillOff /\ RestsOff
  <2>1. ~ctl.init /\ task = "idle" /\ hal = "BUSY" /\ ~pending /\ ~irq
    BY DEF BusOff!Init
  <2> QED
    BY <2>1 DEF BusOff!BusOffRemembered, SendsNothing, Requested, StillOff, RestsOff
<1> QED
  BY <1>1, <1>2 DEF BusOffInv

LEMMA BusOffNext ==
  ASSUME BusOff!BusOffAssumption PROVE BusOffInv /\ [BusOff!Next]_(BusOff!vars) => BusOffInv'
<1> SUFFICES ASSUME BusOffInv, [BusOff!Next]_(BusOff!vars) PROVE BusOffInv'
  OBVIOUS
<1> USE DEF BusOff!BusOffAssumption, BusOffInv, BusOff!TypeOK, BusOff!BusOffRemembered,
   SendsNothing, Requested,
           StillOff, RestsOff
<1>1. CASE BusOff!Transmitted
  BY <1>1 DEF BusOff!Transmitted, BusOff!Transmitting
<1>2. CASE BusOff!GoBusOff
  <2>1. ctl' = [ctl EXCEPT !.off = TRUE, !.init = TRUE] /\ irq' = TRUE
    BY <1>2 DEF BusOff!GoBusOff
  <2>2. UNCHANGED <<hal, pending, age, task, fails>>
    BY <1>2 DEF BusOff!GoBusOff
  <2>3. task \notin {"started", "recovered"} /\ ~pending
    BY <1>2 DEF BusOff!GoBusOff, BusOff!Transmitting
  <2>4. ctl' \in [init : BOOLEAN, off : BOOLEAN, requests : 0..TxDepth]
    BY <2>1
  <2>5. BusOff!TypeOK'
    BY <2>1, <2>2, <2>4
  <2>6. BusOff!BusOffRemembered'
    BY <2>1
  <2>7. SendsNothing' /\ Requested' /\ StillOff' /\ RestsOff'
    BY <2>1, <2>2, <2>3
  <2> QED
    BY <2>5, <2>6, <2>7
<1>3. CASE BusOff!LeaveBusOff
  BY <1>3 DEF BusOff!LeaveBusOff
<1>4. CASE BusOff!Tick
  BY <1>4 DEF BusOff!Tick
<1>5. CASE BusOff!HAL_FDCAN_ErrorStatusCallback
  <2>1. irq /\ irq' = FALSE /\ UNCHANGED <<ctl, hal, task, fails>>
    BY <1>5 DEF BusOff!HAL_FDCAN_ErrorStatusCallback
  <2>2. CASE ctl.off /\ ~pending
    <3>1. pending' = TRUE /\ age' = 0
      BY <1>5, <2>2 DEF BusOff!HAL_FDCAN_ErrorStatusCallback
    <3>2. ctl.init
      BY <2>1, <2>2
    <3>3. irq' \in BOOLEAN /\ pending' \in BOOLEAN
      BY <2>1, <3>1, Zenon
    <3>4. BusOff!TypeOK'
      BY <2>1, <3>1, <3>3
    <3>5. BusOff!BusOffRemembered' /\ Requested'
      BY <3>1
    <3>6. SendsNothing' /\ StillOff' /\ RestsOff'
      BY <2>1, <2>2, <3>1, <3>2
    <3> QED
      BY <3>4, <3>5, <3>6
  <2>3. CASE ~(ctl.off /\ ~pending)
    <3>1. UNCHANGED <<pending, age>>
      BY <1>5, <2>3 DEF BusOff!HAL_FDCAN_ErrorStatusCallback
    <3>2. ctl.init => pending
      BY <2>3
    <3>3. irq' \in BOOLEAN
      BY <2>1, Zenon
    <3>4. BusOff!TypeOK'
      BY <2>1, <3>1, <3>3
    <3>5. BusOff!BusOffRemembered' /\ SendsNothing' /\ Requested'
      BY <2>1, <3>1, <3>2
    <3>6. StillOff' /\ RestsOff'
      BY <2>1, <3>1
    <3> QED
      BY <3>4, <3>5, <3>6
  <2> QED
    BY <2>2, <2>3
<1>6. CASE BusOff!Send
  BY <1>6 DEF BusOff!Send
<1>7. CASE BusOff!Due
  BY <1>7 DEF BusOff!Due
<1>8. CASE BusOff!ProcessStop
  <2>1. task = "stop" /\ UNCHANGED <<irq, pending>> /\ pending
    BY <1>8 DEF BusOff!ProcessStop
  <2>2. ctl.off /\ ctl.init /\ ~irq
    BY <2>1
  <2>3. CASE hal = "BUSY" /\ hal' = "READY" /\ BusOff!HAL_FDCAN_Stop
    <3>1. task' = "start" /\ UNCHANGED age
      BY <1>8, <2>3 DEF BusOff!ProcessStop
    <3>2. ctl' = [ctl EXCEPT !.init = TRUE, !.requests = 0]
          /\ UNCHANGED fails
      BY <2>3 DEF BusOff!HAL_FDCAN_Stop
    <3>3. ctl' = [init |-> TRUE, off |-> ctl.off, requests |-> 0]
      BY <3>2
    <3>4. ctl'.off /\ ctl'.init
      BY <2>2, <3>2
    <3>5. ctl' \in [init : BOOLEAN, off : BOOLEAN, requests : 0..TxDepth]
      BY <3>3
    <3>6. BusOff!TypeOK'
      BY <2>1, <2>3, <3>1, <3>2, <3>5
    <3>7. BusOff!BusOffRemembered' /\ Requested' /\ StillOff' /\ RestsOff'
      BY <2>1, <2>2, <3>1, <3>4
    <3>8. SendsNothing'
      BY <2>3, <3>1, <3>3
    <3> QED
      BY <3>6, <3>7, <3>8
  <2>4. CASE hal = "BUSY" /\ hal' # "READY" /\ BusOff!HAL_FDCAN_Stop
    <3>1. BusOff!Failed
      BY <1>8, <2>4 DEF BusOff!ProcessStop
    <3>2. /\ hal' = "ERROR" /\ UNCHANGED ctl /\ fails.stop > 0
          /\ fails' = [fails EXCEPT !.stop = @ - 1]
      BY <2>4 DEF BusOff!HAL_FDCAN_Stop
    <3> QED
      BY <2>1, <2>2, <3>1, <3>2 DEF BusOff!Failed
  <2>5. CASE hal # "BUSY"
    BY <1>8, <2>1, <2>2, <2>5 DEF BusOff!ProcessStop
  <2> QED
    BY <1>8, <2>3, <2>4, <2>5 DEF BusOff!ProcessStop
<1>9. CASE BusOff!ProcessStart
  <2>1. task = "start" /\ UNCHANGED <<irq, pending>> /\ pending
    BY <1>9 DEF BusOff!ProcessStart
  <2>2. ctl.off /\ ctl.init /\ ~irq
    BY <2>1
  <2>3. CASE /\ hal = "READY" /\ hal' = "BUSY"
             /\ ctl' = [ctl EXCEPT !.init = FALSE]
             /\ task' = "started" /\ UNCHANGED <<age, fails>>
    <3>1. ctl' = [init |-> FALSE, off |-> ctl.off, requests |-> 0]
      BY <2>3
    <3>2. ctl' \in [init : BOOLEAN, off : BOOLEAN, requests : 0..TxDepth]
      BY <3>1
    <3>3. BusOff!TypeOK'
      BY <2>1, <2>3, <3>2
    <3>4. ~ctl'.init /\ ctl'.requests = 0
      BY <3>1
    <3> QED
      BY <2>1, <2>2, <2>3, <3>3, <3>4
  <2>4. CASE /\ fails.start > 0 /\ BusOff!Failed /\ UNCHANGED <<ctl, hal>>
             /\ fails' = [fails EXCEPT !.start = @ - 1]
    BY <2>1, <2>2, <2>4 DEF BusOff!Failed
  <2>5. CASE BusOff!Failed /\ UNCHANGED <<ctl, hal, fails>>
    BY <2>1, <2>2, <2>5 DEF BusOff!Failed
  <2> QED
    BY <1>9, <2>3, <2>4, <2>5 DEF BusOff!ProcessStart
<1>10. CASE BusOff!ClearInStart \/ BusOff!ClearInProcess
  BY <1>10 DEF BusOff!ClearInStart, BusOff!ClearInProcess, BusOff!Clear
<1>11. CASE UNCHANGED BusOff!vars
  BY <1>11 DEF BusOff!vars
<1> QED
  BY <1>1, <1>2, <1>3, <1>4, <1>5, <1>6, <1>7, <1>8, <1>9, <1>10, <1>11
     DEF BusOff!Next, BusOff!BSP_CAN_Process

(* TypeOK and BusOffRemembered hold in every behaviour of bsp_can.c's      *)
(* error interrupt and recovery.                                           *)
THEOREM BusOffIsRemembered ==
  ASSUME BusOff!BusOffAssumption
  PROVE  BusOff!Spec => [](BusOff!TypeOK /\ BusOff!BusOffRemembered)
<1>1. BusOffInv => BusOff!TypeOK /\ BusOff!BusOffRemembered
  BY DEF BusOffInv
<1> QED
  BY <1>1, BusOffInit, BusOffNext, PTL DEF BusOff!Spec

(* The recovery of BSP_CAN_Process stops no working controller.            *)
THEOREM StopsOnlyWhenOff ==
  ASSUME BusOff!BusOffAssumption
  PROVE  BusOff!Spec => BusOff!OnlyStoppedWhenOff
<1>1. BusOffInv => (task = "stop" /\ task' = "start" => ctl.off /\ ctl.init)
  BY DEF BusOffInv, Requested, StillOff
<1> QED
  BY <1>1, BusOffInit, BusOffNext, PTL DEF BusOff!Spec, BusOff!OnlyStoppedWhenOff

----------------------------------------------------------------------------
(* The receive ring.                                                       *)

(* Numbers that wrap: what % is below, above and past the modulus.         *)
LEMMA Wraps ==
  ASSUME NEW m \in Nat \ {0}
  PROVE  /\ \A a \in 0 .. m - 1 : a % m = a
         /\ \A a \in m .. 2 * m - 1 : a % m = a - m
         /\ \A a \in Nat : a % m \in 0 .. m - 1
<1>1. \A a \in 0 .. m - 1 : a % m = a
  OBVIOUS
<1>2. \A a \in m .. 2 * m - 1 : a % m = a - m
  OBVIOUS
<1>3. \A a \in Nat : a % m \in 0 .. m - 1
  OBVIOUS
<1> QED
  BY <1>1, <1>2, <1>3

(* The indices are a circle longer than the ring.                          *)
LEMMA RingSizes ==
  /\ RingDepth \in Nat \ {0} /\ FifoDepth \in Nat
  /\ IndexMod \in Nat \ {0} /\ IndexMod > RingDepth
<1>1. RingDepth \in Nat \ {0} /\ FifoDepth \in Nat
  BY BoardRing DEF Ring!RingAssumption
<1>2. PICK k \in 2 .. IndexMod : IndexMod = k * RingDepth
  BY BoardRing DEF Ring!RingAssumption
<1>3. IndexMod = RingDepth + (k - 1) * RingDepth /\ k - 1 \in Nat \ {0}
  BY <1>1, <1>2, BoardRing DEF Ring!RingAssumption
<1>4. (k - 1) * RingDepth \in Nat \ {0}
  BY <1>1, <1>3
<1> QED
  BY <1>1, <1>3, <1>4

(* How far the indices are apart, and what each side's step does to it.    *)
LEMMA Apart ==
  ASSUME NEW w \in Ring!Indices, NEW r \in Ring!Indices
  PROVE  /\ Ring!Succ(w) = (IF w = IndexMod - 1 THEN 0 ELSE w + 1)
         /\ Ring!Succ(w) \in Ring!Indices
         /\ Ring!Pending(w, r) = (IF w >= r THEN w - r ELSE w + IndexMod - r)
         /\ Ring!Pending(w, r) \in 0 .. IndexMod - 1
         /\ Ring!Pending(w, r) = 0 <=> w = r
         /\ Ring!Pending(w, r) < RingDepth =>
              Ring!Pending(Ring!Succ(w), r) = Ring!Pending(w, r) + 1
         /\ w # r => Ring!Pending(w, Ring!Succ(r)) = Ring!Pending(w, r) - 1
<1> DEFINE Dist(u, v) == IF u >= v THEN u - v ELSE u + IndexMod - v
           Up(u) == IF u = IndexMod - 1 THEN 0 ELSE u + 1
<1>1. IndexMod \in Nat \ {0} /\ RingDepth \in Nat \ {0} /\ IndexMod > RingDepth
  BY RingSizes
<1>2. Ring!Indices = 0 .. IndexMod - 1
  BY DEF Ring!Indices
<1>3. \A u \in Ring!Indices : Ring!Succ(u) = Up(u) /\ Up(u) \in Ring!Indices
  <2> SUFFICES ASSUME NEW u \in Ring!Indices
               PROVE  Ring!Succ(u) = Up(u) /\ Up(u) \in Ring!Indices
    OBVIOUS
  <2>1. CASE u = IndexMod - 1
    <3>1. u + 1 = IndexMod /\ u + 1 \in IndexMod .. 2 * IndexMod - 1
      BY <1>1, <2>1
    <3>2. (u + 1) % IndexMod = 0
      BY <1>1, <3>1, Wraps
    <3> QED
      BY <1>1, <1>2, <2>1, <3>2 DEF Ring!Succ
  <2>2. CASE u # IndexMod - 1
    <3>1. u + 1 \in 0 .. IndexMod - 1
      BY <1>1, <1>2, <2>2
    <3>2. (u + 1) % IndexMod = u + 1
      BY <1>1, <3>1, Wraps
    <3> QED
      BY <1>2, <2>2, <3>1, <3>2 DEF Ring!Succ
  <2> QED
    BY <2>1, <2>2
<1>4. \A u, v \in Ring!Indices : Ring!Pending(u, v) = Dist(u, v)
  <2> SUFFICES ASSUME NEW u \in Ring!Indices, NEW v \in Ring!Indices
               PROVE  Ring!Pending(u, v) = Dist(u, v)
    OBVIOUS
  <2> DEFINE a == u + IndexMod - v
  <2>1. a \in Nat /\ (u < v => a \in 0 .. IndexMod - 1)
        /\ (u >= v => a \in IndexMod .. 2 * IndexMod - 1)
    BY <1>1, <1>2
  <2>2. (u < v => a % IndexMod = a) /\ (u >= v => a % IndexMod = a - IndexMod)
    BY <1>1, <2>1, Wraps
  <2>3. a - IndexMod = u - v
    BY <1>1, <1>2
  <2> QED
    BY <1>2, <2>2, <2>3 DEF Ring!Pending
<1>5. /\ Dist(w, r) \in 0 .. IndexMod - 1
      /\ Dist(w, r) = 0 <=> w = r
      /\ Dist(w, r) < RingDepth => Dist(Up(w), r) = Dist(w, r) + 1
      /\ w # r => Dist(w, Up(r)) = Dist(w, r) - 1
  BY <1>1, <1>2
<1> QED
  BY <1>3, <1>4, <1>5

(* The task holds a copy of its own index, of a frame that is there.       *)
Holds ==
  reader.pc # "idle" => reader.index = readIndex /\ readIndex # writeIndex
RingInv == Ring!TypeOK /\ Holds

LEMMA RingInit == Ring!Init => RingInv
<1> SUFFICES ASSUME Ring!Init PROVE RingInv
  OBVIOUS
<1>1. 0 \in Ring!Indices
  BY RingSizes DEF Ring!Indices
<1>2. Ring!Pending(0, 0) = 0
  BY <1>1, Apart
<1> QED
  BY <1>1, <1>2, RingSizes DEF Ring!Init, RingInv, Ring!TypeOK, Holds

(* The handler moves one frame, or counts it.                              *)
LEMMA DrainKeeps == ASSUME RingInv, Ring!Drain PROVE RingInv'
<1> USE DEF RingInv, Ring!TypeOK, Ring!Drain, Ring!Push
<1>1. Head(fifo) \in RingFrames /\ fifo' \in Seq(RingFrames) /\ Len(fifo') <= FifoDepth
  <2>1. Head(fifo) \in RingFrames /\ fifo' \in Seq(RingFrames) /\ Len(fifo') = Len(fifo) - 1
    BY HeadTailProperties
  <2> QED
    BY <2>1, LenProperties, RingSizes
<1>2. CASE Ring!Pending(writeIndex, readIndex) >= RingDepth
  <2>1. ringDropped' \in Ring!Indices
    BY <1>2, Apart
  <2> QED
    BY <1>1, <1>2, <2>1 DEF Holds
<1>3. CASE ~(Ring!Pending(writeIndex, readIndex) >= RingDepth)
  <2>1. /\ writeIndex' = Ring!Succ(writeIndex) /\ writeIndex' \in Ring!Indices
        /\ Ring!Pending(writeIndex, readIndex) \in 0 .. IndexMod - 1
    BY <1>3, Apart
  <2>2. Ring!Pending(writeIndex, readIndex) < RingDepth
    BY <1>3, <2>1, RingSizes
  <2>3. Ring!Pending(writeIndex', readIndex) = Ring!Pending(writeIndex, readIndex) + 1
    BY <2>1, <2>2, Apart
  <2>4. Ring!Pending(writeIndex', readIndex) <= RingDepth
    BY <2>1, <2>2, <2>3, RingSizes
  <2>5. readIndex # writeIndex'
    <3>1. Ring!Pending(writeIndex', readIndex) # 0
      BY <2>1, <2>3, RingSizes
    <3> QED
      BY <2>1, <3>1, Apart
  <2>6. ring' \in [0 .. RingDepth - 1 -> RingFrames]
    BY <1>1, <1>3
  <2>7. Ring!TypeOK'
    BY <1>1, <1>3, <2>1, <2>4, <2>6
  <2>8. Holds'
    BY <1>3, <2>5 DEF Holds
  <2> QED
    BY <2>7, <2>8
<1> QED
  BY <1>2, <1>3

(* The task looks, copies and gives the place back.                        *)
LEMMA ReceiveKeeps == ASSUME RingInv, Ring!TryReceive PROVE RingInv'
<1> USE DEF RingInv, Ring!TypeOK, Holds
<1>1. CASE Ring!Look
  BY <1>1 DEF Ring!Look
<1>2. CASE Ring!Copy
  <2>1. ring[Ring!Slot(reader.index)] \in RingFrames
    <3>1. reader.index \in Nat
      BY RingSizes DEF Ring!Indices
    <3>2. Ring!Slot(reader.index) \in 0 .. RingDepth - 1
      BY <3>1, Wraps, RingSizes DEF Ring!Slot
    <3> QED
      BY <3>2
  <2> QED
    BY <1>2, <2>1 DEF Ring!Copy
<1>3. CASE Ring!Publish
  <2>1. readIndex' = Ring!Succ(readIndex) /\ readIndex # writeIndex
    BY <1>3 DEF Ring!Publish
  <2>2. readIndex' \in Ring!Indices /\ Ring!Pending(writeIndex, readIndex) \in 0 .. IndexMod - 1
    BY <2>1, Apart
  <2>3. Ring!Pending(writeIndex, readIndex') = Ring!Pending(writeIndex, readIndex) - 1
    BY <2>1, Apart
  <2>4. Ring!Pending(writeIndex, readIndex') <= RingDepth
    BY <2>2, <2>3, RingSizes
  <2> QED
    BY <1>3, <2>2, <2>4 DEF Ring!Publish
<1> QED
  BY <1>1, <1>2, <1>3 DEF Ring!TryReceive

LEMMA RingNext == RingInv /\ [Ring!Next]_(Ring!vars) => RingInv'
<1> SUFFICES ASSUME RingInv, [Ring!Next]_(Ring!vars) PROVE RingInv'
  OBVIOUS
<1>1. CASE \E f \in RingFrames : Ring!Arrive(f)
  <2>1. PICK f \in RingFrames : Ring!Arrive(f)
    BY <1>1
  <2>2. fifo' \in Seq(RingFrames) /\ Len(fifo') <= FifoDepth
    <3>1. Len(fifo) \in Nat
      BY LenProperties DEF RingInv, Ring!TypeOK
    <3> QED
      BY <2>1, <3>1, AppendProperties, RingSizes DEF Ring!Arrive, RingInv, Ring!TypeOK
  <2> QED
    BY <2>1, <2>2 DEF Ring!Arrive, RingInv, Ring!TypeOK, Holds
<1>2. CASE UNCHANGED Ring!vars
  BY <1>2 DEF Ring!vars, RingInv, Ring!TypeOK, Holds
<1> QED
  BY <1>1, <1>2, DrainKeeps, ReceiveKeeps DEF Ring!Next

(* What % is of a number in its quotient and rest, of one a multiple of    *)
(* the modulus further, and of two that are close together.                *)
LEMMA Rests ==
  ASSUME NEW d \in Nat \ {0}, NEW a \in Nat
  PROVE  /\ \A k \in Nat : (a + k * d) % d = a % d
         /\ \A n \in 1 .. d - 1 : (a + n) % d # a % d
<1> DEFINE q == a \div d
           r == a % d
<1>1. a = d * q + r /\ r \in 0 .. d - 1 /\ q \in Nat
  OBVIOUS
<1> HIDE DEF q
<1>2. ASSUME NEW u \in Nat, NEW v \in 0 .. d - 1 PROVE (d * u + v) % d = v
  OBVIOUS
<1>3. ASSUME NEW k \in Nat PROVE (a + k * d) % d = r
  <2> HIDE DEF r
  <2>1. a + k * d = d * (q + k) + r /\ q + k \in Nat
    BY <1>1
  <2> QED
    BY <1>1, <1>2, <2>1
<1>4. ASSUME NEW n \in 1 .. d - 1 PROVE (a + n) % d # r
  <2> HIDE DEF r
  <2>1. CASE r + n < d
    <3>1. a + n = d * q + (r + n) /\ r + n \in 0 .. d - 1
      BY <1>1, <2>1
    <3>2. (a + n) % d = r + n
      BY <1>1, <1>2, <3>1
    <3> QED
      BY <1>1, <3>2
  <2>2. CASE r + n >= d
    <3>1. a + n = d * (q + 1) + (r + n - d) /\ r + n - d \in 0 .. d - 1 /\ q + 1 \in Nat
      BY <1>1, <2>2
    <3>2. (a + n) % d = r + n - d
      BY <1>1, <1>2, <3>1
    <3> QED
      BY <1>1, <3>2
  <2> QED
    BY <1>1, <2>1, <2>2
<1> QED
  BY <1>3, <1>4

(* The place of an index does not depend on its wrap: the circle of the    *)
(* indices is a number of rounds of the ring.                              *)
LEMMA Places ==
  ASSUME NEW r \in Ring!Indices, NEW n \in 0 .. IndexMod
  PROVE  Ring!Slot((r + n) % IndexMod) = (r + n) % RingDepth
<1>1. /\ IndexMod \in Nat \ {0} /\ RingDepth \in Nat \ {0} /\ r \in Nat /\ n \in Nat
      /\ r + n \in 0 .. 2 * IndexMod - 1
  BY RingSizes DEF Ring!Indices
<1>2. CASE r + n < IndexMod
  <2>1. r + n \in 0 .. IndexMod - 1
    BY <1>1, <1>2
  <2>2. (r + n) % IndexMod = r + n
    BY <1>1, <2>1, Wraps
  <2> QED
    BY <2>2 DEF Ring!Slot
<1>3. CASE r + n >= IndexMod
  <2> DEFINE a == r + n - IndexMod
  <2>1. a \in Nat /\ (r + n) % IndexMod = a
    <3>1. r + n \in IndexMod .. 2 * IndexMod - 1 /\ a \in Nat
      BY <1>1, <1>3
    <3> DEFINE b == r + n
    <3>2. b \in IndexMod .. 2 * IndexMod - 1 /\ b - IndexMod = a
      BY <1>1, <3>1
    <3> HIDE DEF b, a
    <3>3. \A c \in IndexMod .. 2 * IndexMod - 1 : c % IndexMod = c - IndexMod
      BY <1>1, Wraps
    <3>4. b % IndexMod = a
      BY <3>2, <3>3
    <3> QED
      BY <3>1, <3>4 DEF b
  <2>2. PICK k \in 2 .. IndexMod : IndexMod = k * RingDepth
    BY BoardRing DEF Ring!RingAssumption
  <2>3. a + k * RingDepth = r + n /\ k \in Nat
    BY <1>1, <2>2
  <2> HIDE DEF a
  <2>4. (a + k * RingDepth) % RingDepth = a % RingDepth
    BY <1>1, <2>1, <2>3, Rests
  <2> QED
    BY <2>1, <2>3, <2>4 DEF Ring!Slot
<1> QED
  BY <1>1, <1>2, <1>3

(* The ring as a queue: what lies between two indices, in the order of the *)
(* slots, of which no two are the same and the next one is free.           *)
QueueOf(w, r, g) ==
  [n \in 1 .. Ring!Pending(w, r) |-> g[Ring!Slot((r + n - 1) % IndexMod)]]

LEMMA QueueShape ==
  ASSUME NEW w \in Ring!Indices, NEW r \in Ring!Indices, Ring!Pending(w, r) <= RingDepth,
         NEW g \in [0 .. RingDepth - 1 -> RingFrames]
  PROVE  /\ Ring!Pending(w, r) \in 0 .. RingDepth
         /\ QueueOf(w, r, g) =
              [n \in 1 .. Ring!Pending(w, r) |-> g[(r + (n - 1)) % RingDepth]]
         /\ \A k \in Nat : (r + k) % RingDepth \in 0 .. RingDepth - 1
         /\ QueueOf(w, r, g) \in Seq(RingFrames)
         /\ Len(QueueOf(w, r, g)) = Ring!Pending(w, r)
         /\ Ring!Pending(w, r) < RingDepth =>
              Ring!Slot(w) = (r + Ring!Pending(w, r)) % RingDepth
         /\ \A i, j \in 0 .. RingDepth - 1 :
              i < j => (r + i) % RingDepth # (r + j) % RingDepth
<1> DEFINE p == Ring!Pending(w, r)
<1>1. /\ IndexMod \in Nat \ {0} /\ RingDepth \in Nat \ {0} /\ IndexMod > RingDepth
      /\ r \in Nat /\ w \in Nat /\ w \in 0 .. IndexMod - 1 /\ r \in 0 .. IndexMod - 1
  BY RingSizes DEF Ring!Indices
<1>2. /\ p \in 0 .. RingDepth
      /\ p = IF w >= r THEN w - r ELSE w + IndexMod - r
  BY <1>1, Apart
<1> HIDE DEF p
<1>3. \A n \in 1 .. p : Ring!Slot((r + n - 1) % IndexMod) = (r + (n - 1)) % RingDepth
  <2> SUFFICES ASSUME NEW n \in 1 .. p
               PROVE  Ring!Slot((r + n - 1) % IndexMod) = (r + (n - 1)) % RingDepth
    OBVIOUS
  <2>1. n - 1 \in 0 .. IndexMod /\ r + n - 1 = r + (n - 1)
    BY <1>1, <1>2
  <2> QED
    BY <2>1, Places
<1>4. QueueOf(w, r, g) = [n \in 1 .. p |-> g[(r + (n - 1)) % RingDepth]]
  BY <1>3 DEF QueueOf, p
<1>5. \A k \in Nat : (r + k) % RingDepth \in 0 .. RingDepth - 1
  <2> SUFFICES ASSUME NEW k \in Nat PROVE (r + k) % RingDepth \in 0 .. RingDepth - 1
    OBVIOUS
  <2>1. r + k \in Nat
    BY <1>1
  <2> QED
    BY <1>1, <2>1, Wraps
<1>6. QueueOf(w, r, g) \in Seq(RingFrames) /\ Len(QueueOf(w, r, g)) = p
  <2>1. \A n \in 1 .. p : g[(r + (n - 1)) % RingDepth] \in RingFrames
    <3> SUFFICES ASSUME NEW n \in 1 .. p PROVE g[(r + (n - 1)) % RingDepth] \in RingFrames
      OBVIOUS
    <3>1. n - 1 \in Nat
      BY <1>2
    <3> QED
      BY <1>5, <3>1
  <2> QED
    BY <1>2, <1>4, <2>1
<1>7. ASSUME p < RingDepth PROVE Ring!Slot(w) = (r + p) % RingDepth
  <2>1. (r + p) % IndexMod = w
    <3>1. CASE w >= r
      <4>1. r + p = w
        BY <1>1, <1>2, <3>1
      <4> QED
        BY <1>1, <4>1, Wraps
    <3>2. CASE w < r
      <4> DEFINE b == w + IndexMod
      <4>1. r + p = b /\ b \in IndexMod .. 2 * IndexMod - 1 /\ b - IndexMod = w
        BY <1>1, <1>2, <3>2
      <4> HIDE DEF b
      <4>2. \A c \in IndexMod .. 2 * IndexMod - 1 : c % IndexMod = c - IndexMod
        BY <1>1, Wraps
      <4> QED
        BY <4>1, <4>2
    <3> QED
      BY <1>1, <3>1, <3>2
  <2>2. p \in 0 .. IndexMod
    BY <1>1, <1>2
  <2> QED
    BY <2>1, <2>2, Places
<1>8. ASSUME NEW i \in 0 .. RingDepth - 1, NEW j \in 0 .. RingDepth - 1, i < j
      PROVE  (r + i) % RingDepth # (r + j) % RingDepth
  <2> DEFINE a == r + i
             m == j - i
  <2>1. a \in Nat /\ m \in 1 .. RingDepth - 1 /\ r + j = a + m
    BY <1>1, <1>8
  <2> HIDE DEF a, m
  <2>2. (a + m) % RingDepth # a % RingDepth
    BY <1>1, <2>1, Rests
  <2> QED
    BY <2>1, <2>2 DEF a
<1> QED
  BY <1>2, <1>4, <1>5, <1>6, <1>7, <1>8 DEF p

(* What the handler writes is the queue's new end.                         *)
LEMMA QueueAppend ==
  ASSUME NEW w \in Ring!Indices, NEW r \in Ring!Indices, Ring!Pending(w, r) < RingDepth,
         NEW g \in [0 .. RingDepth - 1 -> RingFrames], NEW f \in RingFrames
  PROVE  QueueOf(Ring!Succ(w), r, [g EXCEPT ![Ring!Slot(w)] = f]) =
           Append(QueueOf(w, r, g), f)
<1> DEFINE p == Ring!Pending(w, r)
           q == QueueOf(w, r, g)
           at == (r + p) % RingDepth
           h == [g EXCEPT ![at] = f]
           z == QueueOf(Ring!Succ(w), r, h)
<1>1. /\ RingDepth \in Nat \ {0} /\ Ring!Succ(w) \in Ring!Indices
      /\ Ring!Pending(Ring!Succ(w), r) = p + 1 /\ p \in Nat
      /\ Ring!Pending(w, r) <= RingDepth
  BY RingSizes, Apart
<1>2. /\ p \in 0 .. RingDepth - 1 /\ Ring!Slot(w) = at
      /\ q = [n \in 1 .. p |-> g[(r + (n - 1)) % RingDepth]]
      /\ q \in Seq(RingFrames) /\ Len(q) = p
      /\ \A k \in Nat : (r + k) % RingDepth \in 0 .. RingDepth - 1
      /\ \A i, j \in 0 .. RingDepth - 1 : i < j => (r + i) % RingDepth # (r + j) % RingDepth
  <2>1. Ring!Pending(w, r) <= RingDepth
    BY <1>1
  <2>2. p \in 0 .. RingDepth - 1
    BY <1>1
  <2> QED
    BY <2>1, <2>2, QueueShape
<1>3. h \in [0 .. RingDepth - 1 -> RingFrames] /\ at \in 0 .. RingDepth - 1 /\ h[at] = f
  BY <1>1, <1>2
<1>4. p + 1 <= RingDepth
  BY <1>1, <1>2
<1> HIDE DEF h, p, q
<1>5. /\ z = [n \in 1 .. p + 1 |-> h[(r + (n - 1)) % RingDepth]]
      /\ z \in Seq(RingFrames) /\ Len(z) = p + 1
  <2> DEFINE v == Ring!Succ(w)
  <2>1. v \in Ring!Indices /\ Ring!Pending(v, r) = p + 1 /\ Ring!Pending(v, r) <= RingDepth
    BY <1>1, <1>4
  <2> HIDE DEF v
  <2>2. /\ QueueOf(v, r, h) =
             [n \in 1 .. Ring!Pending(v, r) |-> h[(r + (n - 1)) % RingDepth]]
        /\ QueueOf(v, r, h) \in Seq(RingFrames)
        /\ Len(QueueOf(v, r, h)) = Ring!Pending(v, r)
    BY <1>3, <2>1, QueueShape
  <2> QED
    BY <2>1, <2>2 DEF v
<1> HIDE DEF z
<1>6. ASSUME NEW n \in 1 .. p PROVE z[n] = q[n]
  <2>1. n - 1 \in 0 .. RingDepth - 1 /\ n - 1 < p /\ n \in 1 .. p + 1 /\ n - 1 \in Nat
    BY <1>1, <1>2
  <2>2. (r + (n - 1)) % RingDepth # at /\ (r + (n - 1)) % RingDepth \in 0 .. RingDepth - 1
    BY <1>2, <2>1
  <2> HIDE DEF at
  <2>3. h[(r + (n - 1)) % RingDepth] = g[(r + (n - 1)) % RingDepth]
    BY <2>2 DEF h
  <2> QED
    BY <1>2, <1>5, <2>1, <2>3
<1>7. z[p + 1] = f
  <2>1. p + 1 \in 1 .. p + 1 /\ (p + 1) - 1 = p
    BY <1>1
  <2> QED
    BY <1>3, <1>5, <2>1
<1>8. /\ Append(q, f) \in Seq(RingFrames) /\ Len(Append(q, f)) = p + 1
      /\ \A n \in 1 .. p : Append(q, f)[n] = q[n]
      /\ Append(q, f)[p + 1] = f
  BY <1>2, AppendProperties
<1>9. ASSUME NEW n \in 1 .. Len(z) PROVE z[n] = Append(q, f)[n]
  <2>1. n \in 1 .. p \/ n = p + 1
    BY <1>1, <1>5
  <2> QED
    BY <1>6, <1>7, <1>8, <2>1
<1>10. z = Append(q, f)
  BY <1>5, <1>8, <1>9, SeqEqual
<1> QED
  BY <1>2, <1>10 DEF z, h, q

(* What the task releases is the queue's head.                             *)
LEMMA QueueTail ==
  ASSUME NEW w \in Ring!Indices, NEW r \in Ring!Indices, Ring!Pending(w, r) <= RingDepth,
         NEW g \in [0 .. RingDepth - 1 -> RingFrames], w # r
  PROVE  /\ QueueOf(w, r, g) # <<>>
         /\ Head(QueueOf(w, r, g)) = g[Ring!Slot(r)]
         /\ QueueOf(w, Ring!Succ(r), g) = Tail(QueueOf(w, r, g))
<1> DEFINE p == Ring!Pending(w, r)
           q == QueueOf(w, r, g)
           s == Ring!Succ(r)
           z == QueueOf(w, s, g)
<1>1. /\ RingDepth \in Nat \ {0} /\ IndexMod \in Nat \ {0} /\ s \in Ring!Indices
      /\ s = (IF r = IndexMod - 1 THEN 0 ELSE r + 1)
      /\ Ring!Pending(w, s) = p - 1 /\ p \in Nat /\ p # 0
      /\ r \in 0 .. IndexMod - 1
  BY RingSizes, Apart DEF Ring!Indices
<1>2. /\ p \in 1 .. RingDepth
      /\ q = [n \in 1 .. p |-> g[(r + (n - 1)) % RingDepth]]
      /\ q \in Seq(RingFrames) /\ Len(q) = p
  BY <1>1, QueueShape
<1>3. p - 1 <= RingDepth /\ p - 1 \in Nat
  BY <1>1, <1>2
<1> HIDE DEF p, q, s
<1>4. /\ z = [n \in 1 .. p - 1 |-> g[(s + (n - 1)) % RingDepth]]
      /\ z \in Seq(RingFrames) /\ Len(z) = p - 1
  <2>1. Ring!Pending(w, s) <= RingDepth /\ s \in Ring!Indices
    BY <1>1, <1>3
  <2>2. /\ z = [n \in 1 .. Ring!Pending(w, s) |-> g[(s + (n - 1)) % RingDepth]]
        /\ z \in Seq(RingFrames) /\ Len(z) = Ring!Pending(w, s)
    BY <2>1, QueueShape
  <2> QED
    BY <1>1, <2>2
<1> HIDE DEF z
<1>5. ASSUME NEW n \in Nat \ {0}
      PROVE  (s + (n - 1)) % RingDepth = (r + n) % RingDepth
  <2>1. CASE r # IndexMod - 1
    <3>1. s + (n - 1) = r + n
      BY <1>1, <2>1
    <3> QED
      BY <3>1
  <2>2. CASE r = IndexMod - 1
    <3> DEFINE a == n - 1
    <3>1. PICK k \in 2 .. IndexMod : IndexMod = k * RingDepth
      BY BoardRing DEF Ring!RingAssumption
    <3>2. a \in Nat /\ s + a = a /\ r + n = a + k * RingDepth /\ k \in Nat
      BY <1>1, <2>2, <3>1
    <3> HIDE DEF a
    <3>3. (a + k * RingDepth) % RingDepth = a % RingDepth
      BY <1>1, <3>2, Rests
    <3>4. (s + a) % RingDepth = (r + n) % RingDepth
      BY <3>2, <3>3
    <3> QED
      BY <3>4 DEF a
  <2> QED
    BY <2>1, <2>2
<1>6. q # <<>> /\ Head(q) = q[1] /\ q[1] = g[Ring!Slot(r)]
  <2>1. q # <<>> /\ Head(q) = q[1]
    BY <1>2
  <2>2. 1 \in 1 .. p /\ r + (1 - 1) = r
    BY <1>1, <1>2
  <2>3. q[1] = g[(r + (1 - 1)) % RingDepth]
    BY <1>2, <2>2
  <2> QED
    BY <2>1, <2>2, <2>3 DEF Ring!Slot
<1>7. /\ Tail(q) \in Seq(RingFrames) /\ Len(Tail(q)) = p - 1
      /\ \A n \in 1 .. p - 1 : Tail(q)[n] = q[n + 1]
  BY <1>2, <1>6, HeadTailProperties
<1>8. ASSUME NEW n \in 1 .. p - 1 PROVE z[n] = q[n + 1]
  <2>1. n + 1 \in 1 .. p /\ n \in Nat \ {0} /\ (n + 1) - 1 = n
    BY <1>2
  <2>2. z[n] = g[(s + (n - 1)) % RingDepth]
    BY <1>4
  <2>3. q[n + 1] = g[(r + n) % RingDepth]
    BY <1>2, <2>1
  <2> QED
    BY <1>5, <2>1, <2>2, <2>3
<1>9. z = Tail(q)
  BY <1>3, <1>4, <1>7, <1>8, SeqEqual
<1> QED
  BY <1>6, <1>9 DEF q, z, s

(* The steps of the ring are steps of the queue, or none of it; the task's *)
(* copy of a frame is what its slot still holds when the slot is released. *)
Copied == reader.pc = "publish" => reader.frame = ring[Ring!Slot(readIndex)]
FifoInv == RingInv /\ Copied

LEMMA QueueInRing ==
  ASSUME FifoInv
  PROVE  /\ readIndex \in Ring!Indices /\ writeIndex \in Ring!Indices
         /\ Ring!Pending(writeIndex, readIndex) \in 0 .. RingDepth
         /\ ring \in [0 .. RingDepth - 1 -> RingFrames]
         /\ Ring!Queued = QueueOf(writeIndex, readIndex, ring)
         /\ Len(Ring!Queued) = Ring!Pending(writeIndex, readIndex)
<1>1. /\ readIndex \in Ring!Indices /\ writeIndex \in Ring!Indices
      /\ Ring!Pending(writeIndex, readIndex) <= RingDepth
      /\ ring \in [0 .. RingDepth - 1 -> RingFrames]
  BY DEF FifoInv, RingInv, Ring!TypeOK
<1>2. Ring!Queued = QueueOf(writeIndex, readIndex, ring)
  BY DEF Ring!Queued, QueueOf
<1> QED
  BY <1>1, <1>2, QueueShape

LEMMA DrainQueues ==
  ASSUME FifoInv, Ring!Drain
  PROVE  Copied' /\ Ring!Fifo!Next
<1> DEFINE p == Ring!Pending(writeIndex, readIndex)
           f == Head(fifo)
           at == Ring!Slot(writeIndex)
<1>1. /\ UNCHANGED <<readIndex, reader, given>> /\ f \in RingFrames
      /\ RingDepth \in Nat \ {0} /\ p \in 0 .. RingDepth
      /\ readIndex \in Ring!Indices /\ writeIndex \in Ring!Indices
      /\ ring \in [0 .. RingDepth - 1 -> RingFrames]
  <2>1. fifo # <<>> /\ fifo \in Seq(RingFrames) /\ UNCHANGED <<readIndex, reader, given>>
    BY DEF FifoInv, RingInv, Ring!TypeOK, Ring!Drain
  <2>2. f \in RingFrames
    BY <2>1, HeadTailProperties
  <2> QED
    BY <2>1, <2>2, RingSizes, QueueInRing
<1>2. Ring!Queued = QueueOf(writeIndex, readIndex, ring) /\ Len(Ring!Queued) = p
  BY QueueInRing
<1>3. Ring!Queued' = QueueOf(writeIndex', readIndex', ring')
  BY DEF Ring!Queued, QueueOf
<1>4. CASE p >= RingDepth
  <2>1. /\ ringDropped' = Ring!Succ(ringDropped) /\ UNCHANGED <<ring, writeIndex>>
        /\ p = RingDepth
    BY <1>1, <1>4 DEF Ring!Drain, Ring!Push
  <2>2. Ring!Queued' = Ring!Queued
    BY <1>1, <1>2, <1>3, <2>1
  <2>3. Ring!Fifo!Refuse
    BY <1>1, <1>2, <2>1, <2>2 DEF Ring!Fifo!Refuse, Ring!Succ
  <2>4. Copied'
    BY <1>1, <2>1 DEF FifoInv, Copied
  <2> QED
    BY <2>3, <2>4 DEF Ring!Fifo!Next
<1>5. CASE p < RingDepth
  <2>1. /\ ring' = [ring EXCEPT ![at] = f] /\ writeIndex' = Ring!Succ(writeIndex)
        /\ UNCHANGED ringDropped
    BY <1>1, <1>5 DEF Ring!Drain, Ring!Push
  <2>2. QueueOf(Ring!Succ(writeIndex), readIndex, [ring EXCEPT ![at] = f]) =
          Append(QueueOf(writeIndex, readIndex, ring), f)
    BY <1>1, <1>5, QueueAppend
  <2>3. Ring!Queued' = Append(Ring!Queued, f)
    BY <1>1, <1>2, <1>3, <2>1, <2>2
  <2>4. Ring!Fifo!Put(f)
    BY <1>1, <1>2, <1>5, <2>1, <2>3 DEF Ring!Fifo!Put
  <2>5. Copied'
    <3> SUFFICES ASSUME reader.pc = "publish"
                 PROVE  reader.frame = ring'[Ring!Slot(readIndex)]
      BY <1>1 DEF Copied
    <3>1. p # 0
      BY <1>1, Apart DEF FifoInv, RingInv, Holds
    <3>2. /\ at = (readIndex + p) % RingDepth
          /\ \A i, j \in 0 .. RingDepth - 1 :
               i < j => (readIndex + i) % RingDepth # (readIndex + j) % RingDepth
      BY <1>1, <1>5, QueueShape
    <3>3. (readIndex + 0) % RingDepth # (readIndex + p) % RingDepth
      BY <1>1, <1>5, <3>1, <3>2
    <3>4. readIndex + 0 = readIndex /\ readIndex \in Nat
      BY <1>1, RingSizes DEF Ring!Indices
    <3>5. Ring!Slot(readIndex) # at /\ Ring!Slot(readIndex) \in 0 .. RingDepth - 1
      BY <1>1, <3>2, <3>3, <3>4, Wraps DEF Ring!Slot
    <3> HIDE DEF at
    <3>6. ring'[Ring!Slot(readIndex)] = ring[Ring!Slot(readIndex)]
      BY <1>1, <2>1, <3>5
    <3> QED
      BY <3>6 DEF FifoInv, Copied
  <2> QED
    BY <1>1, <2>4, <2>5 DEF Ring!Fifo!Next
<1> QED
  BY <1>1, <1>4, <1>5

LEMMA ReceiveQueues ==
  ASSUME FifoInv, Ring!TryReceive
  PROVE  Copied' /\ [Ring!Fifo!Next]_(Ring!Fifo!vars)
<1>1. Ring!Queued' = QueueOf(writeIndex', readIndex', ring')
  BY DEF Ring!Queued, QueueOf
<1>2. /\ Ring!Queued = QueueOf(writeIndex, readIndex, ring)
      /\ readIndex \in Ring!Indices /\ writeIndex \in Ring!Indices
      /\ Ring!Pending(writeIndex, readIndex) <= RingDepth
      /\ ring \in [0 .. RingDepth - 1 -> RingFrames]
  BY QueueInRing, RingSizes DEF FifoInv, RingInv, Ring!TypeOK
<1>3. reader \in [pc : {"idle", "copy", "publish"}, index : Ring!Indices,
                  frame : RingFrames \cup {"none"}]
  BY DEF FifoInv, RingInv, Ring!TypeOK
<1>4. CASE Ring!Look \/ Ring!Copy
  <2>1. UNCHANGED <<writeIndex, readIndex, ring, given, ringDropped>>
    BY <1>4 DEF Ring!Look, Ring!Copy
  <2>2. UNCHANGED Ring!Fifo!vars
    BY <1>1, <1>2, <2>1 DEF Ring!Fifo!vars
  <2>3. Copied'
    BY <1>3, <1>4, <2>1 DEF Ring!Look, Ring!Copy, FifoInv, RingInv, Holds, Copied
  <2> QED
    BY <2>2, <2>3
<1>5. CASE Ring!Publish
  <2>1. /\ readIndex' = Ring!Succ(readIndex) /\ readIndex # writeIndex
        /\ given' = ring[Ring!Slot(readIndex)]
        /\ UNCHANGED <<writeIndex, ring, ringDropped>> /\ reader'.pc = "idle"
    BY <1>3, <1>5 DEF Ring!Publish, FifoInv, RingInv, Holds, Copied
  <2>2. /\ Ring!Queued # <<>> /\ Head(Ring!Queued) = ring[Ring!Slot(readIndex)]
        /\ QueueOf(writeIndex, Ring!Succ(readIndex), ring) = Tail(Ring!Queued)
    BY <1>2, <2>1, QueueTail
  <2>3. Ring!Fifo!Take
    BY <1>1, <2>1, <2>2 DEF Ring!Fifo!Take
  <2>4. Copied'
    BY <2>1 DEF Copied
  <2> QED
    BY <2>3, <2>4 DEF Ring!Fifo!Next
<1> QED
  BY <1>4, <1>5 DEF Ring!TryReceive

LEMMA StepsQueue ==
  FifoInv /\ [Ring!Next]_(Ring!vars) => FifoInv' /\ [Ring!Fifo!Next]_(Ring!Fifo!vars)
<1> SUFFICES ASSUME FifoInv, [Ring!Next]_(Ring!vars)
             PROVE  FifoInv' /\ [Ring!Fifo!Next]_(Ring!Fifo!vars)
  OBVIOUS
<1>1. RingInv'
  BY RingNext DEF FifoInv
<1>2. CASE (\E f \in RingFrames : Ring!Arrive(f)) \/ UNCHANGED Ring!vars
  <2>1. UNCHANGED <<ring, writeIndex, readIndex, ringDropped, reader, given>>
    BY <1>2 DEF Ring!Arrive, Ring!vars
  <2>2. UNCHANGED Ring!Queued
    BY <2>1 DEF Ring!Queued
  <2> QED
    BY <1>1, <2>1, <2>2 DEF Ring!Fifo!vars, FifoInv, Copied
<1> QED
  BY <1>1, <1>2, DrainQueues, ReceiveQueues DEF Ring!Next, FifoInv

(* Whatever the handler interrupts, the two indices, the slots and the     *)
(* task's copy are one bounded queue (bsp_can.c): frames leave it in the   *)
(* order they came, none twice and none overwritten, only the newest is    *)
(* refused, only when the ring is full, and every refusal is counted.      *)
THEOREM RingIsAQueue == Ring!Spec => Ring!Fifo!SafeSpec
<1>1. Ring!Init => FifoInv /\ Ring!Fifo!Init
  <2> SUFFICES ASSUME Ring!Init PROVE FifoInv /\ Ring!Fifo!Init
    OBVIOUS
  <2>1. FifoInv
    BY RingInit DEF FifoInv, Copied, Ring!Init
  <2>2. Ring!Pending(writeIndex, readIndex) = 0
    BY <2>1, Apart, QueueInRing DEF Ring!Init
  <2>3. Ring!Queued = <<>>
    BY <2>2 DEF Ring!Queued
  <2> QED
    BY <2>1, <2>3 DEF Ring!Init, Ring!Fifo!Init
<1> QED
  BY <1>1, StepsQueue, PTL DEF Ring!Spec, Ring!Fifo!SafeSpec

----------------------------------------------------------------------------
(* The serial log.                                                         *)

(* A transfer has ended, well or with an error of the stream.              *)
Ended ==
  /\ dma = "idle" /\ uart.ready /\ ~uart.tcie
  /\ \/ event = "COMPLETE" /\ ~uart.dmat
     \/ event = "ERROR" /\ uart.dmat

(* How the UART and its stream stand at each step of the log task: at rest *)
(* between two messages; while the task waits, sending, shifting the last  *)
(* byte out, or ended and announced; and stopped or stalled in an abort.   *)
AtRest ==
  logPc \in {"get", "drain", "clear", "start"} =>
    dma = "idle" /\ uart.ready /\ ~uart.dmat /\ ~uart.tcie
Waits ==
  logPc = "wait" =>
    \/ dma # "idle" /\ ~uart.ready /\ uart.dmat /\ ~uart.tcie /\ ~sem
    \/ dma = "idle" /\ ~uart.ready /\ ~uart.dmat /\ uart.tcie /\ ~sem
    \/ sem /\ Ended
Aborts ==
  /\ logPc \in {"abort", "abortDmat", "abortDma"} =>
       dma \in {"idle", "stalled"} /\ ~uart.tcie
  /\ logPc \in {"abort", "abortDmat"} => uart.dmat
  /\ logPc = "abortDma" => ~uart.dmat
LogPhases ==
  /\ AtRest /\ Waits /\ Aborts
  /\ logPc \in {"clear", "start"} => ~sem
  /\ logPc = "judge" => Ended

LogInv == Log!TypeOK /\ (Log!Aborted => LogPhases)

LEMMA LogInit == Log!Init => LogInv
<1> SUFFICES ASSUME Log!Init PROVE LogInv
  OBVIOUS
<1>1. logQueue \in 0 .. LogDepth /\ logFails \in 0 .. AbortFails
  BY BoardLog DEF Log!LogAssumption, Log!Init
<1>2. Log!TypeOK
  BY <1>1 DEF Log!Init, Log!TypeOK, Log!Steps
<1>3. LogPhases
  BY DEF Log!Init, LogPhases, AtRest, Waits, Aborts
<1> QED
  BY <1>2, <1>3 DEF LogInv

(* The types, and that an abort that failed is not taken back.             *)
LEMMA LogTyped ==
  ASSUME Log!TypeOK, [Log!Next]_(Log!vars)
  PROVE  Log!TypeOK' /\ (Log!Aborted' => Log!Aborted)
<1> USE BoardLog
    DEF Log!LogAssumption, Log!TypeOK, Log!Steps, Log!Aborted, Log!taskVars
<1>1. CASE Log!Hardware
  <2>1. CASE Log!TransferEnds \/ Log!TransferFails \/ Log!TransferStalls
    BY <2>1 DEF Log!TransferEnds, Log!TransferFails, Log!TransferStalls, Log!DmaTurns
  <2>2. CASE Log!DmaComplete
    BY <2>2 DEF Log!DmaComplete, Log!DmaTurns
  <2>3. CASE Log!DmaError
    BY <2>3 DEF Log!DmaError, Log!Notify
  <2>4. CASE Log!TransmitComplete
    BY <2>4 DEF Log!TransmitComplete, Log!Notify
  <2> QED
    BY <1>1, <2>1, <2>2, <2>3, <2>4 DEF Log!Hardware
<1>2. CASE Log!Write
  BY <1>2 DEF Log!Write
<1>3. CASE Log!Get
  <2>1. logQueue' \in 0 .. LogDepth
    BY <1>3 DEF Log!Get
  <2> QED
    BY <1>3, <2>1 DEF Log!Get, Log!Go
<1>7. CASE Log!Drain \/ Log!Clear \/ Log!Start
  BY <1>7 DEF Log!Drain, Log!Clear, Log!Start, Log!Go
<1>4. CASE Log!Notified \/ Log!TimedOut \/ Log!Judge \/ Log!Abort \/ Log!AbortDmat
  BY <1>4 DEF Log!Notified, Log!TimedOut, Log!Judge, Log!Abort, Log!AbortDmat, Log!Go
<1>5. CASE Log!AbortDma
  <2>1. logFails' \in 0 .. AbortFails /\ (logFails' = AbortFails => logFails = AbortFails)
    BY <1>5 DEF Log!AbortDma
  <2> QED
    BY <1>5, <2>1 DEF Log!AbortDma
<1>6. CASE UNCHANGED Log!vars
  BY <1>6 DEF Log!vars
<1> QED
  BY <1>1, <1>2, <1>3, <1>4, <1>5, <1>6, <1>7 DEF Log!Next, Log!Process

LEMMA LogNext == LogInv /\ [Log!Next]_(Log!vars) => LogInv'
<1> SUFFICES ASSUME LogInv, [Log!Next]_(Log!vars), Log!Aborted' PROVE LogPhases'
  BY LogTyped DEF LogInv
<1>0. Log!TypeOK /\ Log!Aborted /\ LogPhases
  BY LogTyped DEF LogInv
<1> USE <1>0 DEF Log!TypeOK, LogPhases, AtRest, Waits, Aborts, Ended, Log!taskVars
<1>1. CASE Log!TransferEnds \/ Log!TransferFails \/ Log!TransferStalls
  BY <1>1 DEF Log!TransferEnds, Log!TransferFails, Log!TransferStalls, Log!DmaTurns
<1>2. CASE Log!DmaComplete
  BY <1>2 DEF Log!DmaComplete, Log!DmaTurns
<1>3. CASE Log!DmaError
  BY <1>3 DEF Log!DmaError, Log!Notify
<1>4. CASE Log!TransmitComplete
  BY <1>4 DEF Log!TransmitComplete, Log!Notify
<1>5. CASE Log!Write
  BY <1>5 DEF Log!Write
<1>6. CASE Log!Get \/ Log!Drain \/ Log!Clear
  BY <1>6 DEF Log!Get, Log!Drain, Log!Clear, Log!Go
<1>7. CASE Log!Start
  BY <1>7 DEF Log!Start, Log!Go
<1>8. CASE Log!Notified \/ Log!TimedOut \/ Log!Judge
  BY <1>8 DEF Log!Notified, Log!TimedOut, Log!Judge, Log!Go
<1>9. CASE Log!Abort \/ Log!AbortDmat
  BY <1>9 DEF Log!Abort, Log!AbortDmat, Log!Go
<1>10. CASE Log!AbortDma
  <2>1. ~(logFails > 0 /\ logFails' = logFails - 1)
    BY <1>0 DEF Log!Aborted
  <2>2. /\ logPc = "abortDma" /\ logPc' = "get"
        /\ dma' = "idle" /\ uart' = [uart EXCEPT !.ready = TRUE]
    BY <1>10, <2>1 DEF Log!AbortDma
  <2> QED
    BY <2>2
<1>11. CASE UNCHANGED Log!vars
  BY <1>11 DEF Log!vars
<1> QED
  BY <1>1, <1>2, <1>3, <1>4, <1>5, <1>6, <1>7, <1>8, <1>9, <1>10, <1>11
     DEF Log!Next, Log!Hardware, Log!Process

(* Between two messages nothing reads the buffer on the log task's stack,  *)
(* and the next transfer is accepted, as long as every abort of a stalled  *)
(* transfer worked (app_uart_log.c:98, :129).                              *)
THEOREM LogIsSafe == Log!Spec => []Log!LogSafe
<1>1. LogInv => Log!LogSafe
  BY DEF LogInv, LogPhases, AtRest, Log!LogSafe, Log!BufferReleased, Log!StartAccepted
<1> QED
  BY <1>1, LogInit, LogNext, PTL DEF Log!Spec

----------------------------------------------------------------------------
(* The drives' reports.                                                    *)

(* Captures since the reader took the number of its snapshot.              *)
Gap == IF publish >= rd.seq THEN publish - rd.seq ELSE publish + SeqMod - rd.seq

Published == buffer[publish % ReportBuffers] = [p \in 1 .. ReportSlaves |-> publish]

(* A copy that no capture came in between is one of the snapshot, and a    *)
(* number printed stays marked until it is used again.                     *)
Copying ==
  /\ rd.pc \in {"copy", "check"} =>
       /\ Gap <= captures
       /\ Gap = 0 => \A p \in 1 .. rd.part - 1 : rd.copy[p] = rd.seq
  /\ rd.pc = "copy" => rd.part \in 1 .. ReportSlaves
  /\ rd.pc = "check" => rd.part = ReportSlaves + 1
  /\ rd.pc = "consume" => \A p \in 1 .. ReportSlaves : rd.copy[p] = rd.seq
Printed ==
  /\ reported = publish => consumed = publish
  /\ rd.pc # "look" => rd.seq # reported

SnapshotInv == Snapshot!TypeOK /\ Published /\ Copying /\ Printed

Readers == [pc : {"look", "copy", "check", "consume"}, try : 0 .. Tries - 1,
            seq : Snapshot!Seqs, part : 0 .. ReportSlaves + 1,
            copy : [Snapshot!Parts -> Snapshot!Seqs]]

(* The sizes, and the numbers of the snapshots: one is in its buffer, the  *)
(* next is another one, and one further away.                              *)
LEMMA SnapshotSizes ==
  /\ ReportSlaves \in Nat \ {0} /\ Tries \in Nat \ {0} /\ ReportBuffers \in Nat \ {0}
  /\ MaxCaptures \in Nat /\ SeqMod \in Nat \ {0} /\ MaxCaptures < SeqMod
  /\ \A n \in Snapshot!Seqs : n % ReportBuffers \in 0 .. ReportBuffers - 1
<1>1. /\ ReportSlaves \in Nat \ {0} /\ Tries \in Nat \ {0} /\ ReportBuffers \in Nat \ {0}
      /\ MaxCaptures \in Nat /\ SeqMod \in Nat \ {0} /\ MaxCaptures < SeqMod
  BY BoardSnapshot DEF Snapshot!SnapshotAssumption
<1>2. \A n \in Snapshot!Seqs : n % ReportBuffers \in 0 .. ReportBuffers - 1
  BY <1>1, Wraps DEF Snapshot!Seqs
<1> QED
  BY <1>1, <1>2

LEMMA NextNumber ==
  ASSUME publish \in Snapshot!Seqs
  PROVE  /\ Snapshot!NextSeq = (IF publish = SeqMod - 1 THEN 0 ELSE publish + 1)
         /\ Snapshot!NextSeq \in Snapshot!Seqs
<1>1. SeqMod \in Nat \ {0}
  BY SnapshotSizes
<1>2. CASE publish = SeqMod - 1
  <2>1. publish + 1 = SeqMod /\ publish + 1 \in SeqMod .. 2 * SeqMod - 1
    BY <1>1, <1>2
  <2>2. (publish + 1) % SeqMod = 0
    BY <1>1, <2>1, Wraps
  <2> QED
    BY <1>1, <1>2, <2>2 DEF Snapshot!NextSeq, Snapshot!Seqs
<1>3. CASE publish # SeqMod - 1
  <2>1. publish + 1 \in 0 .. SeqMod - 1
    BY <1>1, <1>3 DEF Snapshot!Seqs
  <2>2. (publish + 1) % SeqMod = publish + 1
    BY <1>1, <2>1, Wraps
  <2> QED
    BY <1>3, <2>1, <2>2 DEF Snapshot!NextSeq, Snapshot!Seqs
<1> QED
  BY <1>2, <1>3

LEMMA SnapshotInit == Snapshot!Init => SnapshotInv
<1> SUFFICES ASSUME Snapshot!Init PROVE SnapshotInv
  OBVIOUS
<1> USE SnapshotSizes DEF Snapshot!Init
<1>1. 0 \in Snapshot!Seqs /\ 0 \in 0 .. MaxCaptures /\ 0 \in 0 .. Tries - 1 /\ 0 \in 0 .. ReportSlaves + 1
  BY DEF Snapshot!Seqs
<1>2. Snapshot!TypeOK
  BY <1>1 DEF Snapshot!TypeOK, Snapshot!Parts
<1>3. 0 % ReportBuffers \in 0 .. ReportBuffers - 1
  BY <1>1
<1>4. Published
  BY <1>3 DEF Published, Snapshot!Parts
<1>5. reported # publish
  BY DEF Snapshot!None
<1>6. Copying /\ Printed
  BY <1>5 DEF Copying, Printed
<1> QED
  BY <1>2, <1>4, <1>6 DEF SnapshotInv

(* The EtherCAT task publishes the next snapshot.                          *)
LEMMA CaptureKeeps == ASSUME SnapshotInv, Snapshot!Capture PROVE SnapshotInv'
<1> DEFINE n == Snapshot!NextSeq
<1>0. rd \in Readers /\ rd' = rd /\ rd.seq \in Snapshot!Seqs
  BY DEF SnapshotInv, Snapshot!TypeOK, Snapshot!Capture, Readers
<1>1. /\ publish \in Snapshot!Seqs /\ n \in Snapshot!Seqs
      /\ n = (IF publish = SeqMod - 1 THEN 0 ELSE publish + 1)
  BY NextNumber DEF SnapshotInv, Snapshot!TypeOK
<1>2. /\ buffer' = [buffer EXCEPT ![n % ReportBuffers] = [p \in Snapshot!Parts |-> n]]
      /\ publish' = n /\ captures' = captures + 1 /\ captures < MaxCaptures
      /\ reported' = IF reported = n THEN Snapshot!None ELSE reported
      /\ consumed' = consumed
  BY DEF Snapshot!Capture
<1> HIDE DEF n
<1>3. /\ captures \in Nat /\ captures' \in 0 .. MaxCaptures /\ MaxCaptures < SeqMod
      /\ SeqMod \in Nat \ {0}
  BY <1>2, SnapshotSizes DEF SnapshotInv, Snapshot!TypeOK
<1>4. n % ReportBuffers \in 0 .. ReportBuffers - 1
  BY <1>1, SnapshotSizes
<1>5. Snapshot!TypeOK'
  BY <1>0, <1>1, <1>2, <1>3, <1>4 DEF SnapshotInv, Snapshot!TypeOK
<1>6. Published'
  BY <1>1, <1>2, <1>4 DEF SnapshotInv, Snapshot!TypeOK, Published, Snapshot!Parts
<1>7. Gap <= captures => Gap' = Gap + 1 /\ Gap \in Nat
  <2> DEFINE s == rd.seq
             Away(a) == IF a >= s THEN a - s ELSE a + SeqMod - s
  <2>1. s \in 0 .. SeqMod - 1 /\ publish \in 0 .. SeqMod - 1 /\ captures < SeqMod - 1
    <3>1. s \in 0 .. SeqMod - 1 /\ publish \in 0 .. SeqMod - 1
      BY <1>0, <1>1 DEF Snapshot!Seqs
    <3>2. captures < SeqMod - 1
      BY <1>2, <1>3, SnapshotSizes
    <3> QED
      BY <3>1, <3>2
  <2>2. Gap = Away(publish) /\ Gap' = Away(n)
    BY <1>0, <1>2 DEF Gap
  <2> HIDE DEF s
  <2>3. Away(publish) <= captures => Away(n) = Away(publish) + 1 /\ Away(publish) \in Nat
    BY <1>1, <1>3, <2>1
  <2> QED
    BY <2>2, <2>3
<1>8. Copying'
  BY <1>0, <1>2, <1>3, <1>7 DEF SnapshotInv, Copying
<1>9. n # Snapshot!None /\ rd.seq # Snapshot!None
  BY <1>0, <1>1, <1>3 DEF Snapshot!Seqs, Snapshot!None
<1>10. Printed'
  BY <1>0, <1>2, <1>9 DEF SnapshotInv, Printed
<1> QED
  BY <1>5, <1>6, <1>8, <1>10 DEF SnapshotInv

(* The reader's steps.                                                     *)
LEMMA LookKeeps == ASSUME SnapshotInv, Snapshot!Look PROVE SnapshotInv'
<1> USE DEF SnapshotInv, Snapshot!TypeOK, Snapshot!Look, Snapshot!Idle, Snapshot!Seqs
<1>a. SeqMod \in Nat \ {0} /\ captures' \in 0 .. MaxCaptures /\ captures' \in Nat
  BY SnapshotSizes
<1>b. 0 \in 0 .. Tries - 1 /\ 1 \in 0 .. ReportSlaves + 1 /\ 1 \in 1 .. ReportSlaves
  <2> HIDE DEF SnapshotInv, Snapshot!TypeOK, Snapshot!Look, Snapshot!Idle, Snapshot!Seqs
  <2> QED
    BY SnapshotSizes
<1>0. SeqMod \in Nat \ {0} /\ captures' \in 0 .. MaxCaptures /\ captures' \in Nat
      /\ 0 \in 0 .. Tries - 1 /\ 1 \in 0 .. ReportSlaves + 1 /\ 1 \in 1 .. ReportSlaves
  BY <1>a, <1>b
<1>1. Snapshot!TypeOK'
  BY <1>0
<1>2. Published'
  BY DEF Published
<1>3. CASE publish = consumed
  <2>1. rd'.pc = "look" /\ UNCHANGED <<publish, consumed, reported>>
    BY <1>3
  <2> QED
    BY <1>1, <1>2, <2>1 DEF Copying, Printed
<1>4. CASE publish # consumed
  <2>1. /\ rd'.pc = "copy" /\ rd'.seq = publish /\ rd'.part = 1 /\ publish' = publish
        /\ reported' = reported /\ consumed' = consumed
    BY <1>4
  <2>2. Gap' = 0
    BY <1>0, <2>1 DEF Gap
  <2>3. Copying'
    BY <1>0, <2>1, <2>2 DEF Copying
  <2>4. Printed'
    BY <1>4, <2>1 DEF Printed
  <2> QED
    BY <1>1, <1>2, <2>3, <2>4
<1> QED
  BY <1>1, <1>2, <1>3, <1>4

LEMMA CopyKeeps == ASSUME SnapshotInv, Snapshot!Copy PROVE SnapshotInv'
<1> DEFINE value == buffer[rd.seq % ReportBuffers][rd.part]
<1>0. /\ rd \in Readers /\ rd.pc = "copy" /\ rd.part \in 1 .. ReportSlaves /\ ReportSlaves \in Nat
      /\ publish \in Snapshot!Seqs /\ rd.seq \in Snapshot!Seqs
      /\ UNCHANGED <<buffer, publish, consumed, reported, captures>>
  BY SnapshotSizes DEF SnapshotInv, Snapshot!TypeOK, Snapshot!Copy, Copying, Readers
<1>1. /\ rd'.copy = [rd.copy EXCEPT ![rd.part] = value]
      /\ rd'.part = rd.part + 1 /\ rd'.seq = rd.seq /\ rd'.try = rd.try
      /\ rd'.pc = IF rd.part = ReportSlaves THEN "check" ELSE "copy"
  BY <1>0 DEF Snapshot!Copy, Readers
<1>2. value \in Snapshot!Seqs
  BY <1>0, SnapshotSizes, SMTT(30) DEF SnapshotInv, Snapshot!TypeOK, Snapshot!Parts
<1>3. rd' \in Readers
  <2> DEFINE c == [rd.copy EXCEPT ![rd.part] = value]
             q == IF rd.part = ReportSlaves THEN "check" ELSE "copy"
  <2>1. c \in [Snapshot!Parts -> Snapshot!Seqs]
    BY <1>0, <1>2 DEF Readers, Snapshot!Parts
  <2>2. rd' = [rd EXCEPT !.copy = c, !.part = rd.part + 1, !.pc = q]
    BY DEF Snapshot!Copy
  <2>3. rd.part + 1 \in 0 .. ReportSlaves + 1 /\ q \in {"check", "copy"}
    BY <1>0
  <2> HIDE DEF c, q
  <2>4. rd'.copy = c /\ rd'.part = rd.part + 1 /\ rd'.pc = q
        /\ rd' = [rd EXCEPT !.copy = rd'.copy, !.part = rd'.part, !.pc = rd'.pc]
    BY <1>0, <2>2 DEF Readers
  <2> HIDE DEF value
  <2> QED
    BY <1>0, <2>1, <2>3, <2>4, ZenonT(30) DEF Readers
<1>4. Snapshot!TypeOK' /\ Published'
  BY <1>0, <1>3 DEF SnapshotInv, Snapshot!TypeOK, Readers, Published
<1>5. Gap' = Gap
  BY <1>0, <1>1 DEF Gap
<1>6. Gap = 0 => value = rd.seq
  <2>1. Gap = 0 => publish = rd.seq
    BY <1>0, SnapshotSizes DEF Gap, Snapshot!Seqs
  <2> QED
    BY <1>0, <2>1 DEF SnapshotInv, Published
<1> HIDE DEF value
<1>7. Gap = 0 => \A p \in 1 .. rd'.part - 1 : rd'.copy[p] = rd'.seq
  <2> SUFFICES ASSUME Gap = 0, NEW p \in 1 .. rd'.part - 1
               PROVE  rd'.copy[p] = rd'.seq
    OBVIOUS
  <2>1. p \in 1 .. rd.part /\ p \in Snapshot!Parts
    BY <1>0, <1>1 DEF Snapshot!Parts
  <2>2. rd.copy \in [Snapshot!Parts -> Snapshot!Seqs]
    BY <1>0 DEF Readers
  <2>3. CASE p = rd.part
    BY <1>1, <1>6, <2>1, <2>2, <2>3
  <2>4. CASE p # rd.part
    <3>1. p \in 1 .. rd.part - 1
      BY <1>0, <2>1, <2>4
    <3> QED
      BY <1>0, <1>1, <2>1, <2>2, <2>4, <3>1 DEF SnapshotInv, Copying
  <2> QED
    BY <2>3, <2>4
<1>8. Copying'
  BY <1>0, <1>1, <1>5, <1>7 DEF SnapshotInv, Copying
<1>9. Printed'
  BY <1>0, <1>1 DEF SnapshotInv, Printed
<1> QED
  BY <1>4, <1>8, <1>9 DEF SnapshotInv

LEMMA CheckKeeps ==
  ASSUME SnapshotInv, Snapshot!Check \/ Snapshot!Consume \/ Snapshot!ResetAfterError
  PROVE  SnapshotInv'
<1> USE DEF SnapshotInv, Snapshot!TypeOK, Snapshot!Idle
<1>1. CASE Snapshot!Check
  <2>1. SeqMod \in Nat \ {0} /\ ReportSlaves \in Nat /\ Tries \in Nat \ {0} /\ 0 \in 0 .. Tries - 1
    BY SnapshotSizes
  <2>2. publish = rd.seq => Gap = 0
    BY <2>1 DEF Gap, Snapshot!Seqs
  <2>3. rd.try + 1 < Tries => rd.try + 1 \in 0 .. Tries - 1
    BY <2>1
  <2>4. Snapshot!TypeOK' /\ Published'
    BY <1>1, <2>1, <2>3 DEF Snapshot!Check, Published
  <2>5. Copying'
    BY <1>1, <2>1, <2>2 DEF Snapshot!Check, Copying
  <2>6. Printed'
    BY <1>1 DEF Snapshot!Check, Printed
  <2> QED
    BY <2>4, <2>5, <2>6
<1>2. CASE Snapshot!Consume
  <2>1. 0 \in 0 .. Tries - 1
    BY SnapshotSizes
  <2> QED
    BY <1>2, <2>1 DEF Snapshot!Consume, Published, Copying, Printed
<1>3. CASE Snapshot!ResetAfterError
  <2>1. Gap' = Gap
    BY <1>3 DEF Snapshot!ResetAfterError, Gap
  <2> QED
    BY <1>3, <2>1 DEF Snapshot!ResetAfterError, Published, Copying, Printed
<1> QED
  BY <1>1, <1>2, <1>3

LEMMA SnapshotNext == SnapshotInv /\ [Snapshot!Next]_(Snapshot!vars) => SnapshotInv'
<1> SUFFICES ASSUME SnapshotInv, [Snapshot!Next]_(Snapshot!vars) PROVE SnapshotInv'
  OBVIOUS
<1>1. CASE UNCHANGED Snapshot!vars
  BY <1>1 DEF Snapshot!vars, SnapshotInv, Snapshot!TypeOK, Published, Copying, Printed, Gap
<1> QED
  BY <1>1, CaptureKeeps, LookKeeps, CopyKeeps, CheckKeeps
     DEF Snapshot!Next, Snapshot!ProcessTxPdoReport

(* What is printed is one snapshot, the one whose number it carries, and   *)
(* none is printed twice, for every number of slaves, buffers and tries,   *)
(* although the copy is preempted anywhere (ECAT_runtime.c:2627, :237).    *)
THEOREM SnapshotIsSafe == Snapshot!Spec => []Snapshot!SnapshotSafe
<1>1. SnapshotInv => Snapshot!SnapshotSafe
  BY DEF SnapshotInv, Copying, Printed, Snapshot!SnapshotSafe, Snapshot!ReportIsWhole,
         Snapshot!NeverTwice, Snapshot!Parts
<1> QED
  BY <1>1, SnapshotInit, SnapshotNext, PTL DEF Snapshot!Spec

----------------------------------------------------------------------------
(* The feedback of the device.  What the host holds of an earlier life is  *)
(* older than the present life, or out of date; and a streak of periods in *)
(* which nothing is lost brings it up to date step by step.                *)
InFlight == {f \in Device!Frames : \E i \in 1 .. Len(wire) : wire[i] = f}
Positions == {f \in InFlight : f.kind = "position"}
Heartbeats == {f \in InFlight : f.kind = "heartbeat"}

Devices == [life : 1 .. MaxLives, up : BOOLEAN, boot : 0 .. BootTicks,
            position : Device!Numbers, heartbeat : Device!Numbers,
            due : 0 .. (HeartbeatPeriod - 1)]
Hosts == [position : Device!Trackers, heartbeat : Device!Trackers,
          hasPosition : BOOLEAN, hasHeartbeat : BOOLEAN,
          positionAge : 0 .. PositionTimeout + 1,
          heartbeatAge : 0 .. HeartbeatTimeout + 1, operational : BOOLEAN,
          positionLife : 1 .. MaxLives, heartbeatLife : 1 .. MaxLives]
SessionTyped ==
  /\ device \in Devices /\ host \in Hosts
  /\ busOff \in BOOLEAN /\ losses \in 0 .. MaxLosses /\ quiet \in 0 .. Device!RecoveryTicks
  /\ quiet > 0 => device.up
  /\ ~device.up => device.life < MaxLives
  /\ host.heartbeat.received => host.hasHeartbeat

OnePeriod ==
  \/ wire = <<>>
  \/ \E f \in Device!Frames : wire = <<f>>
  \/ \E f, g \in Device!Frames :
       /\ wire = <<f, g>> /\ f.kind = "position" /\ g.kind = "heartbeat"
       /\ f.life = g.life /\ f.operational = g.operational

OutOfDate(ticks, timeout) == ticks > timeout \/ ticks >= device.boot
Lives ==
  /\ host.positionLife <= device.life /\ host.heartbeatLife <= device.life
  /\ host.positionLife < device.life => OutOfDate(host.positionAge, PositionTimeout)
  /\ host.heartbeatLife < device.life => OutOfDate(host.heartbeatAge, HeartbeatTimeout)
  /\ host.hasHeartbeat /\ host.operational /\ host.positionLife < host.heartbeatLife =>
       host.positionAge > PositionTimeout
  /\ host.hasPosition /\ host.heartbeatLife < host.positionLife =>
       host.heartbeatAge > HeartbeatTimeout
LivesInFlight ==
  \A f \in InFlight :
    /\ host.positionLife <= f.life /\ host.heartbeatLife <= f.life /\ f.life <= device.life
    /\ f.life < device.life => device.boot = 0
    /\ f.operational /\ host.positionLife < f.life => host.positionAge > PositionTimeout
    /\ f.operational /\ host.heartbeatLife < f.life => host.heartbeatAge > HeartbeatTimeout

(* How many of the numbers to come are refused.                            *)
Refusals(t, n) ==
  IF Device!Accepts(t, n) THEN 0
  ELSE IF Device!Ahead(t.last, n) = 0 THEN 1
  ELSE Device!Modulus - Device!Ahead(t.last, n) + 1
Follows(t, n) == t.received /\ n = Device!Following(t.last)

Booted == device.boot = BootTicks /\ \A f \in InFlight : f.operational
HeartbeatFollows ==
  /\ \A f \in Heartbeats : Follows(host.heartbeat, f.number) /\ host.heartbeatAge <= HeartbeatPeriod
  /\ Heartbeats = {} => /\ Follows(host.heartbeat, device.heartbeat)
                        /\ host.heartbeatAge + device.due <= HeartbeatPeriod - 1
HeartbeatGood == HeartbeatFollows /\ host.operational /\ Booted
PositionGood ==
  /\ host.hasPosition /\ Booted
  /\ \A f \in Positions : Follows(host.position, f.number)
  /\ Positions = {} => Follows(host.position, device.position) /\ host.positionAge = 0
InStep ==
  \A f \in InFlight :
    /\ f.operational => device.boot = BootTicks
    /\ f.operational \/ quiet <= BootTicks
    /\ f.kind = "position" => device.position = Device!Following(f.number)
    /\ f.kind = "heartbeat" => /\ device.heartbeat = Device!Following(f.number)
                               /\ device.due = HeartbeatPeriod - 1
HeartbeatDue ==
  /\ HeartbeatFollows \/ host.heartbeatAge > HeartbeatTimeout \/ host.heartbeatAge >= quiet
  /\ \/ HeartbeatGood
     \/ Heartbeats # {} /\ quiet <= BootTicks + HeartbeatPeriod
     \/ Heartbeats = {} /\ quiet + device.due <= BootTicks + HeartbeatPeriod - 1
PositionDue ==
  \/ PositionGood
  \/ /\ \A f \in Positions : quiet + Refusals(host.position, f.number) <= Device!RecoveryTicks
     /\ Positions = {} =>
          quiet + Refusals(host.position, device.position) <= Device!RecoveryTicks - 1
Streak ==
  quiet > 0 =>
    /\ InStep /\ HeartbeatDue /\ PositionDue
    /\ device.boot = BootTicks \/ device.boot >= quiet
    /\ busOff => wire # <<>>
SessionInv == SessionTyped /\ OnePeriod /\ Lives /\ LivesInFlight /\ Streak

LEMMA Times ==
  /\ HeartbeatPeriod \in Nat /\ HeartbeatPeriod >= 2
  /\ PositionTimeout \in Nat /\ HeartbeatTimeout \in Nat /\ BootTicks \in Nat
  /\ HeartbeatPeriod <= HeartbeatTimeout
  /\ PositionTimeout < BootTicks /\ HeartbeatTimeout < BootTicks
  /\ MaxLives \in Nat \ {0} /\ MaxLosses \in Nat
  /\ Half \in Nat /\ Half >= 2
  /\ Device!RecoveryTicks \in Nat /\ Device!RecoveryTicks = BootTicks + Half + HeartbeatPeriod
BY BoardSession, HalfAssumption DEF Device!SessionAssumption, HalfAssumption, Device!RecoveryTicks

LEMMA NumbersAround ==
  ASSUME NEW t \in Device!Trackers, NEW n \in Device!Numbers
  PROVE  /\ Device!Following(n) \in Device!Numbers
         /\ Device!Take(t, n) \in Device!Trackers /\ Device!Fresh \in Device!Trackers
         /\ Device!Accepts(t, n) => Device!Take(t, n) = [received |-> TRUE, last |-> n]
         /\ ~Device!Accepts(t, n) => Device!Take(t, n) = t
         /\ Device!Accepts(Device!Fresh, n)
         /\ ~t.received => Device!Accepts(t, n)
         /\ Follows(t, n) => Device!Accepts(t, n)
         /\ Refusals(t, n) \in 0 .. Half + 1
         /\ ~Device!Accepts(t, n) =>
              Refusals(t, Device!Following(n)) <= Refusals(t, n) - 1
<1> DEFINE N2 == 2 * Half
<1>1. Half \in Nat /\ Half >= 2 /\ Device!Modulus = N2 /\ Device!Numbers = 0 .. N2 - 1
  BY Times DEF Device!Modulus, Device!Numbers
<1>2. t.last \in 0 .. N2 - 1 /\ n \in 0 .. N2 - 1 /\ t.received \in BOOLEAN
  BY <1>1 DEF Device!Trackers
<1>3. Device!Following(n) = (IF n = N2 - 1 THEN 0 ELSE n + 1) /\ Device!Following(n) \in 0 .. N2 - 1
  BY <1>1, <1>2 DEF Device!Following
<1> DEFINE d == Device!Ahead(t.last, n)
           e == Device!Ahead(t.last, Device!Following(n))
<1>4. d \in 0 .. N2 - 1 /\ e = (IF d = N2 - 1 THEN 0 ELSE d + 1)
  BY <1>1, <1>2, <1>3 DEF Device!Ahead
<1>5. /\ Device!Accepts(t, n) <=> (t.received => d \in 1 .. Half - 1)
      /\ Device!Accepts(t, Device!Following(n)) <=> (t.received => e \in 1 .. Half - 1)
  BY DEF Device!Accepts
<1>6. Follows(t, n) => Device!Accepts(t, n)
  <2> SUFFICES ASSUME Follows(t, n) PROVE d = 1
    BY <1>1, <1>5
  <2>1. n = IF t.last = N2 - 1 THEN 0 ELSE t.last + 1
    BY <1>1 DEF Follows, Device!Following
  <2> QED
    BY <1>1, <1>2, <2>1 DEF Device!Ahead
<1>7. /\ Refusals(t, n) = IF Device!Accepts(t, n) THEN 0 ELSE IF d = 0 THEN 1 ELSE N2 - d + 1
      /\ Refusals(t, Device!Following(n)) =
           IF Device!Accepts(t, Device!Following(n)) THEN 0 ELSE IF e = 0 THEN 1 ELSE N2 - e + 1
  BY <1>1 DEF Refusals
<1> HIDE DEF d, e
<1>8. Refusals(t, n) \in 0 .. Half + 1
  BY <1>1, <1>4, <1>5, <1>7
<1>9. ~Device!Accepts(t, n) => Refusals(t, Device!Following(n)) <= Refusals(t, n) - 1
  BY <1>1, <1>4, <1>5, <1>7
<1>10. /\ Device!Take(t, n) \in Device!Trackers /\ Device!Fresh \in Device!Trackers
       /\ Device!Accepts(t, n) => Device!Take(t, n) = [received |-> TRUE, last |-> n]
       /\ ~Device!Accepts(t, n) => Device!Take(t, n) = t
       /\ Device!Accepts(Device!Fresh, n)
  <2>1. 0 \in Device!Numbers
    BY <1>1
  <2> QED
    BY <2>1 DEF Device!Take, Device!Trackers, Device!Fresh, Device!Accepts
<1> QED
  BY <1>1, <1>3, <1>5, <1>6, <1>8, <1>9, <1>10

LEMMA FramesInFlight ==
  /\ wire = <<>> => InFlight = {}
  /\ \A f \in Device!Frames : wire = <<f>> => InFlight = {f}
  /\ \A f, g \in Device!Frames : wire = <<f, g>> => InFlight = {f, g}
<1>1. wire = <<>> => InFlight = {}
  BY DEF InFlight
<1>2. ASSUME NEW f \in Device!Frames, wire = <<f>> PROVE InFlight = {f}
  <2>1. Len(wire) = 1 /\ wire[1] = f
    BY <1>2
  <2> QED
    BY <2>1 DEF InFlight
<1>3. ASSUME NEW f \in Device!Frames, NEW g \in Device!Frames, wire = <<f, g>>
      PROVE  InFlight = {f, g}
  <2>1. Len(wire) = 2 /\ wire[1] = f /\ wire[2] = g
    BY <1>3
  <2> QED
    BY <2>1 DEF InFlight
<1> QED
  BY <1>1, <1>2, <1>3

(* A period passes for the host.                                           *)
LEMMA HostAges ==
  ASSUME host \in Hosts, Device!TimePasses
  PROVE  /\ host' \in Hosts
         /\ host'.position = host.position /\ host'.heartbeat = host.heartbeat
         /\ host'.hasPosition = host.hasPosition /\ host'.hasHeartbeat = host.hasHeartbeat
         /\ host'.operational = host.operational
         /\ host'.positionLife = host.positionLife /\ host'.heartbeatLife = host.heartbeatLife
         /\ host'.positionAge = IF host.positionAge > PositionTimeout THEN host.positionAge
                                ELSE host.positionAge + 1
         /\ host'.heartbeatAge = IF host.heartbeatAge > HeartbeatTimeout THEN host.heartbeatAge
                                 ELSE host.heartbeatAge + 1
<1> DEFINE p == IF host.positionAge > PositionTimeout THEN host.positionAge
                ELSE host.positionAge + 1
           h == IF host.heartbeatAge > HeartbeatTimeout THEN host.heartbeatAge
                ELSE host.heartbeatAge + 1
<1>1. host' = [host EXCEPT !.positionAge = p, !.heartbeatAge = h]
  BY DEF Device!TimePasses, Device!Older
<1>2. p \in 0 .. PositionTimeout + 1 /\ h \in 0 .. HeartbeatTimeout + 1
  BY Times DEF Hosts
<1> HIDE DEF p, h
<1>3. host' \in Hosts
  BY <1>1, <1>2 DEF Hosts
<1>4. /\ host'.position = host.position /\ host'.heartbeat = host.heartbeat
      /\ host'.hasPosition = host.hasPosition /\ host'.hasHeartbeat = host.hasHeartbeat
      /\ host'.operational = host.operational
      /\ host'.positionLife = host.positionLife /\ host'.heartbeatLife = host.heartbeatLife
      /\ host'.positionAge = p /\ host'.heartbeatAge = h
  BY <1>1 DEF Hosts
<1> QED
  BY <1>3, <1>4 DEF p, h

LEMMA SessionStarts == Device!Init => SessionInv
<1> SUFFICES ASSUME Device!Init PROVE SessionInv
  OBVIOUS
<1>1. /\ 0 \in Device!Numbers /\ Device!Fresh \in Device!Trackers
      /\ 0 \in 0 .. (HeartbeatPeriod - 1) /\ 0 \in 0 .. BootTicks
      /\ 0 \in 0 .. PositionTimeout + 1 /\ 0 \in 0 .. HeartbeatTimeout + 1
      /\ 0 \in 0 .. MaxLosses /\ 0 \in 0 .. Device!RecoveryTicks /\ 1 \in 1 .. MaxLives
  <2>1. 0 \in Device!Numbers
    BY Times DEF Device!Numbers, Device!Modulus
  <2> QED
    BY <2>1, Times DEF Device!Fresh, Device!Trackers
<1>2. device \in Devices
  BY <1>1 DEF Device!Init, Devices
<1>3. host \in Hosts
  BY <1>1 DEF Device!Init, Hosts
<1>4. InFlight = {} /\ wire = <<>>
  BY FramesInFlight DEF Device!Init
<1>5. SessionTyped
  BY <1>1, <1>2, <1>3 DEF Device!Init, SessionTyped, Device!Fresh
<1> QED
  BY <1>4, <1>5 DEF Device!Init, SessionInv, OnePeriod, Lives, LivesInFlight, Streak

(* A period of the device: what it sends, unless some of it is lost.       *)
LEMMA SessionSends ==
  ASSUME SessionInv, NEW gone \in SUBSET {"position", "heartbeat"}, Device!ProcessTx(gone)
  PROVE  SessionInv'
<1> DEFINE p == Device!Frame("position", device.position)
           h == Device!Frame("heartbeat", device.heartbeat)
<1>1. /\ device \in Devices /\ host \in Hosts /\ quiet \in 0 .. Device!RecoveryTicks
      /\ host.heartbeat.received => host.hasHeartbeat
      /\ device.up /\ wire = <<>> /\ UNCHANGED busOff
      /\ losses' = losses + (IF gone = {} THEN 0 ELSE 1) /\ losses' <= MaxLosses
      /\ losses \in 0 .. MaxLosses /\ busOff \in BOOLEAN
      /\ quiet' = (IF gone # {} THEN 0
                   ELSE IF quiet < Device!RecoveryTicks THEN quiet + 1 ELSE quiet)
      /\ Device!TimePasses /\ InFlight = {}
  BY FramesInFlight DEF SessionInv, SessionTyped, Device!ProcessTx
<1>2. /\ device.life \in 1 .. MaxLives /\ device.boot \in 0 .. BootTicks
      /\ device.position \in Device!Numbers /\ device.heartbeat \in Device!Numbers
      /\ device.due \in 0 .. (HeartbeatPeriod - 1)
  BY <1>1 DEF Devices
<1>3. /\ p \in Device!Frames /\ p.kind = "position" /\ p.number = device.position
      /\ h \in Device!Frames /\ h.kind = "heartbeat" /\ h.number = device.heartbeat
      /\ p.life = device.life /\ h.life = device.life
      /\ p.operational <=> device.boot = BootTicks
      /\ h.operational <=> device.boot = BootTicks
      /\ p.operational = h.operational
  BY <1>2 DEF Device!Frame, Device!Frames, Device!Operational
<1>4. /\ device' \in Devices
      /\ device'.life = device.life /\ device'.up = device.up
      /\ device'.position = Device!Following(device.position)
      /\ device'.heartbeat = (IF device.due = 0 THEN Device!Following(device.heartbeat)
                              ELSE device.heartbeat)
      /\ device'.due = (IF device.due = 0 THEN HeartbeatPeriod - 1 ELSE device.due - 1)
      /\ device'.boot = (IF device.boot < BootTicks THEN device.boot + 1 ELSE device.boot)
  <2> DEFINE np == Device!Following(device.position)
             nh == IF device.due = 0 THEN Device!Following(device.heartbeat) ELSE device.heartbeat
             nd == IF device.due = 0 THEN HeartbeatPeriod - 1 ELSE device.due - 1
             nb == IF device.boot < BootTicks THEN device.boot + 1 ELSE device.boot
  <2>1. device' = [device EXCEPT !.position = np, !.heartbeat = nh, !.due = nd, !.boot = nb]
    BY DEF Device!ProcessTx
  <2>2. Device!Fresh \in Device!Trackers
    BY Times DEF Device!Fresh, Device!Trackers, Device!Numbers, Device!Modulus
  <2>3. np \in Device!Numbers /\ nh \in Device!Numbers
    BY <1>2, <2>2, NumbersAround
  <2>4. nd \in 0 .. (HeartbeatPeriod - 1) /\ nb \in 0 .. BootTicks
    BY <1>2, Times
  <2> HIDE DEF np, nh, nd, nb
  <2>5. /\ device' \in Devices
        /\ device'.life = device.life /\ device'.up = device.up
        /\ device'.position = np /\ device'.heartbeat = nh
        /\ device'.due = nd /\ device'.boot = nb
    BY <1>1, <2>1, <2>3, <2>4 DEF Devices
  <2> QED
    BY <2>5 DEF np, nh, nd, nb
<1>5. /\ host' \in Hosts
      /\ host'.position = host.position /\ host'.heartbeat = host.heartbeat
      /\ host'.hasPosition = host.hasPosition /\ host'.hasHeartbeat = host.hasHeartbeat
      /\ host'.operational = host.operational
      /\ host'.positionLife = host.positionLife /\ host'.heartbeatLife = host.heartbeatLife
      /\ host'.positionAge = (IF host.positionAge > PositionTimeout THEN host.positionAge
                              ELSE host.positionAge + 1)
      /\ host'.heartbeatAge = (IF host.heartbeatAge > HeartbeatTimeout THEN host.heartbeatAge
                               ELSE host.heartbeatAge + 1)
  BY <1>1, HostAges
<1>6. /\ host.positionAge \in Nat /\ host.heartbeatAge \in Nat
      /\ host.positionLife \in 1 .. MaxLives /\ host.heartbeatLife \in 1 .. MaxLives
      /\ host.position \in Device!Trackers /\ host.heartbeat \in Device!Trackers
  BY <1>1, Times DEF Hosts
<1>7. /\ OnePeriod' /\ InFlight' \subseteq {p, h}
      /\ h \in InFlight' => device.due = 0
      /\ gone = {} => /\ p \in InFlight' /\ wire' # <<>>
                      /\ device.due = 0 => h \in InFlight'
  <2> HIDE DEF p, h
  <2>1. \/ wire' = <<>> /\ gone # {}
        \/ wire' = <<p>> /\ (gone = {} => device.due # 0)
        \/ wire' = <<h>> /\ device.due = 0 /\ gone # {}
        \/ wire' = <<p, h>> /\ device.due = 0
    <3> DEFINE toSend == IF device.due = 0 THEN {"position", "heartbeat"} ELSE {"position"}
    <3>1. wire' = (IF "position" \in toSend \ gone THEN <<p>> ELSE <<>>)
                    \o (IF "heartbeat" \in toSend \ gone THEN <<h>> ELSE <<>>)
      BY DEF Device!ProcessTx, p, h
    <3>2. /\ <<p>> \o <<h>> = <<p, h>> /\ <<p>> \o <<>> = <<p>>
          /\ <<>> \o <<h>> = <<h>> /\ <<>> \o <<>> = <<>>
      <4>1. <<p>> \in Seq(Device!Frames) /\ <<h>> \in Seq(Device!Frames) /\ <<>> \in Seq(Device!Frames)
        BY <1>3
      <4>2. /\ <<p>> \o <<>> = <<p>> /\ <<>> \o <<h>> = <<h>> /\ <<>> \o <<>> = <<>>
        BY <4>1, ConcatEmptySeq
      <4>3. Append(<<p>>, h) = <<p>> \o <<h>>
        BY <1>3, <4>1, AppendIsConcat
      <4>4. Append(<<p>>, h) = <<p, h>>
        <5> DEFINE x == <<p>>
                   a == Append(x, h)
                   b == <<p, h>>
        <5>1. x \in Seq(Device!Frames) /\ Len(x) = 1 /\ x[1] = p
          BY <1>3
        <5> HIDE DEF x
        <5>2. /\ a \in Seq(Device!Frames) /\ Len(a) = 2 /\ a[2] = h /\ a[1] = p
          <6>0. x \in Seq(Device!Frames) /\ h \in Device!Frames
            BY <1>3, <5>1
          <6>1. /\ Append(x, h) \in Seq(Device!Frames) /\ Len(Append(x, h)) = Len(x) + 1
                /\ \A i \in 1 .. Len(x) : Append(x, h)[i] = x[i]
                /\ Append(x, h)[Len(x) + 1] = h
            BY ONLY <6>0, AppendProperties
          <6>2. 1 \in 1 .. Len(x) /\ Len(x) + 1 = 2
            BY <5>1
          <6> QED
            BY <5>1, <6>1, <6>2
        <5>3. /\ b \in Seq(Device!Frames) /\ Len(b) = 2 /\ b[2] = h /\ b[1] = p
          BY <1>3
        <5> HIDE DEF a, b
        <5>4. \A i \in 1 .. Len(a) : a[i] = b[i]
          BY <5>2, <5>3
        <5>5. a = b
          BY <5>2, <5>3, <5>4, SeqEqual
        <5> QED
          BY <5>5 DEF a, b, x
      <4> QED
        BY <4>2, <4>3, <4>4
    <3>3. /\ ("position" \in toSend \ gone) <=> ("position" \notin gone)
          /\ ("heartbeat" \in toSend \ gone) <=> (device.due = 0 /\ "heartbeat" \notin gone)
      <4>1. CASE device.due = 0
        BY <4>1
      <4>2. CASE device.due # 0
        BY <4>2
      <4> QED
        BY <4>1, <4>2
    <3>4. gone = {} => "position" \notin gone /\ "heartbeat" \notin gone
      OBVIOUS
    <3> HIDE DEF toSend
    <3>5. CASE "position" \in gone /\ ("heartbeat" \in gone \/ device.due # 0)
      BY <3>1, <3>2, <3>3, <3>4, <3>5
    <3>6. CASE "position" \in gone /\ "heartbeat" \notin gone /\ device.due = 0
      BY <3>1, <3>2, <3>3, <3>4, <3>6
    <3>7. CASE "position" \notin gone /\ ("heartbeat" \in gone \/ device.due # 0)
      BY <3>1, <3>2, <3>3, <3>4, <3>7
    <3>8. CASE "position" \notin gone /\ "heartbeat" \notin gone /\ device.due = 0
      BY <3>1, <3>2, <3>3, <3>4, <3>8
    <3> QED
      BY <3>5, <3>6, <3>7, <3>8
  <2>2. /\ wire' = <<>> => InFlight' = {}
        /\ wire' = <<p>> => InFlight' = {p}
        /\ wire' = <<h>> => InFlight' = {h}
        /\ wire' = <<p, h>> => InFlight' = {p, h}
    <3>1. p \in Device!Frames /\ h \in Device!Frames
      BY <1>3
    <3>2. wire' = <<>> => InFlight' = {}
      BY DEF InFlight
    <3>3. ASSUME wire' = <<p>> PROVE InFlight' = {p}
      <4>1. Len(wire') = 1 /\ wire'[1] = p
        BY <3>3
      <4> QED
        BY <3>1, <4>1 DEF InFlight
    <3>4. ASSUME wire' = <<h>> PROVE InFlight' = {h}
      <4>1. Len(wire') = 1 /\ wire'[1] = h
        BY <3>4
      <4> QED
        BY <3>1, <4>1 DEF InFlight
    <3>5. ASSUME wire' = <<p, h>> PROVE InFlight' = {p, h}
      <4>1. Len(wire') = 2 /\ wire'[1] = p /\ wire'[2] = h
        BY <3>5
      <4> QED
        BY <3>1, <4>1 DEF InFlight
    <3> QED
      BY <3>2, <3>3, <3>4, <3>5
  <2>3. p # h
    BY <1>3
  <2>4. OnePeriod'
    BY <1>3, <2>1 DEF OnePeriod
  <2>5. InFlight' \subseteq {p, h} /\ (h \in InFlight' => device.due = 0)
    BY <2>1, <2>2, <2>3
  <2>6. ASSUME gone = {}
        PROVE  p \in InFlight' /\ wire' # <<>> /\ (device.due = 0 => h \in InFlight')
    <3>1. (wire' = <<p>> /\ device.due # 0) \/ wire' = <<p, h>>
      BY <2>1, <2>6
    <3> QED
      BY <2>2, <3>1
  <2> QED
    BY <2>4, <2>5, <2>6
<1>8. SessionTyped'
  <2>1. quiet' \in 0 .. Device!RecoveryTicks /\ losses' \in 0 .. MaxLosses
    BY <1>1, Times
  <2> QED
    BY <1>1, <1>4, <1>5, <2>1 DEF SessionTyped
<1>9. Lives' /\ LivesInFlight'
  <2>1. Lives
    BY DEF SessionInv
  <2>2. Lives'
    BY <1>2, <1>4, <1>5, <1>6, <2>1, Times DEF Lives, OutOfDate
  <2>3. ASSUME NEW f \in InFlight'
        PROVE  /\ f.life = device.life
               /\ f.operational => device.boot = BootTicks
    BY <1>3, <1>7
  <2>4. LivesInFlight'
    BY <1>2, <1>4, <1>5, <1>6, <2>1, <2>3, Times DEF Lives, LivesInFlight, OutOfDate
  <2> QED
    BY <2>2, <2>4
<1>10. Streak'
  <2> SUFFICES ASSUME quiet' > 0 PROVE Streak'
    BY DEF Streak
  <2>1. gone = {} /\ p \in InFlight' /\ wire' # <<>>
    BY <1>1, <1>7
  <2>2. /\ quiet' >= 1 /\ quiet' <= quiet + 1 /\ quiet \in Nat /\ quiet' \in Nat
        /\ quiet = 0 => quiet' = 1
    BY <1>1, <2>1, Times
  <2>3. /\ Positions' = {p}
        /\ device.due = 0 => Heartbeats' = {h}
        /\ device.due # 0 => Heartbeats' = {}
    <3> HIDE DEF p, h
    <3>1. Positions' = {p}
      BY <1>3, <1>7, <2>1 DEF Positions
    <3>2. Heartbeats' = {f \in InFlight' : f.kind = "heartbeat"}
      BY DEF Heartbeats
    <3>3. device.due = 0 => h \in InFlight'
      BY <1>7, <2>1
    <3> QED
      BY <1>3, <1>7, <3>1, <3>2, <3>3
  <2>4. quiet > 0 => HeartbeatDue /\ PositionDue /\ (device.boot = BootTicks \/ device.boot >= quiet)
    BY DEF SessionInv, Streak
  <2>5. Positions = {} /\ Heartbeats = {}
    BY <1>1 DEF Positions, Heartbeats
  <2>6. InStep'
    <3>1. ASSUME NEW f \in InFlight'
          PROVE  f.operational => device'.boot = BootTicks
      BY <1>2, <1>3, <1>4, <1>7, Times
    <3>2. ASSUME NEW f \in InFlight'
          PROVE  f.operational \/ quiet' <= BootTicks
      BY <1>2, <1>3, <1>7, <2>2, <2>4, Times
    <3>3. ASSUME NEW f \in InFlight'
          PROVE  /\ f.kind = "position" => device'.position = Device!Following(f.number)
                 /\ f.kind = "heartbeat" => /\ device'.heartbeat = Device!Following(f.number)
                                            /\ device'.due = HeartbeatPeriod - 1
      BY <1>3, <1>4, <1>7
    <3> QED
      BY <3>1, <3>2, <3>3 DEF InStep
  <2>7. Booted => Booted'
    BY <1>2, <1>3, <1>4, <1>7, Times DEF Booted
  <2>8. HeartbeatFollows => HeartbeatFollows'
    <3> SUFFICES ASSUME HeartbeatFollows PROVE HeartbeatFollows'
      OBVIOUS
    <3>1. Follows(host.heartbeat, device.heartbeat) /\ host.heartbeatAge + device.due <= HeartbeatPeriod - 1
      BY <2>5 DEF HeartbeatFollows
    <3>2. CASE device.due = 0
      <4>1. host'.heartbeatAge <= HeartbeatPeriod
        BY <1>5, <1>6, <3>1, <3>2, Times
      <4> QED
        BY <1>3, <1>5, <2>3, <3>1, <3>2, <4>1 DEF HeartbeatFollows, Follows
    <3>3. CASE device.due # 0
      <4>1. host'.heartbeatAge + device'.due <= HeartbeatPeriod - 1
        BY <1>2, <1>4, <1>5, <1>6, <3>1, <3>3, Times
      <4> QED
        BY <1>4, <1>5, <2>3, <3>1, <3>3, <4>1 DEF HeartbeatFollows, Follows
    <3> QED
      BY <3>2, <3>3
  <2>9. HeartbeatDue'
    <3>1. HeartbeatFollows' \/ host'.heartbeatAge > HeartbeatTimeout \/ host'.heartbeatAge >= quiet'
      BY <1>5, <1>6, <2>2, <2>4, <2>8, Times DEF HeartbeatDue
    <3>2. \/ HeartbeatGood'
          \/ Heartbeats' # {} /\ quiet' <= BootTicks + HeartbeatPeriod
          \/ Heartbeats' = {} /\ quiet' + device'.due <= BootTicks + HeartbeatPeriod - 1
      <4>1. CASE quiet = 0
        BY <1>2, <1>4, <2>2, <4>1, Times
      <4>2. CASE quiet > 0 /\ HeartbeatGood
        BY <1>5, <2>7, <2>8, <4>2 DEF HeartbeatGood
      <4>3. CASE quiet > 0 /\ quiet + device.due <= BootTicks + HeartbeatPeriod - 1
        BY <1>2, <1>4, <2>2, <2>3, <4>3, Times
      <4> QED
        BY <2>2, <2>4, <2>5, <4>1, <4>2, <4>3 DEF HeartbeatDue
    <3> QED
      BY <3>1, <3>2 DEF HeartbeatDue
  <2>10. PositionDue'
    <3>1. CASE quiet = 0
      <4>1. Refusals(host'.position, p.number) \in 0 .. Half + 1
        BY <1>2, <1>3, <1>5, <1>6, NumbersAround
      <4>2. quiet' + Refusals(host'.position, p.number) <= Device!RecoveryTicks
        BY <2>2, <3>1, <4>1, Times
      <4> QED
        BY <2>3, <4>2 DEF PositionDue
    <3>2. CASE PositionGood
      <4>1. Follows(host.position, device.position)
        BY <2>5, <3>2 DEF PositionGood
      <4> QED
        BY <1>3, <1>5, <2>3, <2>7, <3>2, <4>1 DEF PositionDue, PositionGood
    <3>3. CASE quiet > 0 /\ ~PositionGood
      <4>1. quiet + Refusals(host.position, device.position) <= Device!RecoveryTicks - 1
        BY <2>4, <2>5, <3>3 DEF PositionDue
      <4>2. Refusals(host.position, device.position) \in Nat
        BY <1>2, <1>6, NumbersAround
      <4>3. quiet' + Refusals(host'.position, p.number) <= Device!RecoveryTicks
        <5>1. p.number = device.position /\ host'.position = host.position
          BY <1>3, <1>5
        <5> HIDE DEF p
        <5> QED
          BY <2>2, <4>1, <4>2, <5>1, Times
      <4> QED
        BY <2>3, <4>3 DEF PositionDue
    <3> QED
      BY <2>2, <3>1, <3>2, <3>3
  <2>11. device'.boot = BootTicks \/ device'.boot >= quiet'
    BY <1>2, <1>4, <2>2, <2>4, Times
  <2> QED
    BY <2>1, <2>6, <2>9, <2>10, <2>11 DEF Streak
<1> QED
  BY <1>7, <1>8, <1>9, <1>10 DEF SessionInv

(* A frame is taken from the wire: the period's first, or its last.        *)
LEMMA FrameHeard ==
  ASSUME SessionInv, Device!Dispatch
  PROVE  \E f \in Device!Frames :
           /\ f \in InFlight /\ InFlight' \subseteq InFlight /\ f \notin InFlight' /\ OnePeriod'
           /\ f.kind = "position" \/ f.kind = "heartbeat"
           /\ \A g \in InFlight : g.life = f.life /\ g.operational = f.operational
           /\ f.kind = "position" => /\ Positions = {f} /\ Positions' = {}
                                     /\ Heartbeats' = Heartbeats
                                     /\ host' = Device!TakePosition(f)
           /\ f.kind = "heartbeat" => /\ Heartbeats = {f} /\ InFlight' = {} /\ Positions = {}
                                      /\ host' = Device!TakeHeartbeat(f)
<1>1. /\ wire # <<>> /\ wire' = Tail(wire)
      /\ host' = IF Head(wire).kind = "position"
                 THEN Device!TakePosition(Head(wire)) ELSE Device!TakeHeartbeat(Head(wire))
  BY DEF Device!Dispatch
<1>2. ASSUME NEW f \in Device!Frames PROVE f.kind = "position" \/ f.kind = "heartbeat"
  BY DEF Device!Frames
<1>3. CASE \E f \in Device!Frames : wire = <<f>>
  <2>1. PICK f \in Device!Frames : wire = <<f>>
    BY <1>3
  <2>2. Head(wire) = f /\ wire' = <<>> /\ InFlight = {f}
    BY <1>1, <2>1, FramesInFlight
  <2>3. InFlight' = {} /\ OnePeriod'
    BY <2>2 DEF InFlight, OnePeriod
  <2> QED
    BY <1>1, <1>2, <2>2, <2>3 DEF Positions, Heartbeats
<1>4. CASE \E f, g \in Device!Frames :
             /\ wire = <<f, g>> /\ f.kind = "position" /\ g.kind = "heartbeat"
             /\ f.life = g.life /\ f.operational = g.operational
  <2>1. PICK f, g \in Device!Frames :
             /\ wire = <<f, g>> /\ f.kind = "position" /\ g.kind = "heartbeat"
             /\ f.life = g.life /\ f.operational = g.operational
    BY <1>4
  <2>2. Head(wire) = f /\ wire' = <<g>> /\ InFlight = {f, g}
    BY <1>1, <2>1, FramesInFlight
  <2>3. InFlight' = {g} /\ OnePeriod'
    <3>1. Len(wire') = 1 /\ wire'[1] = g
      BY <2>2
    <3> QED
      BY <2>2, <3>1 DEF InFlight, OnePeriod
  <2>4. Positions = {f} /\ Positions' = {} /\ Heartbeats = {g} /\ Heartbeats' = {g}
    BY <2>1, <2>2, <2>3 DEF Positions, Heartbeats
  <2> QED
    BY <1>1, <2>1, <2>2, <2>3, <2>4
<1> QED
  BY <1>1, <1>3, <1>4 DEF SessionInv, OnePeriod

(* A position is heard: heard, when the axes are operational and its       *)
(* number is accepted, or one refusal is behind.                           *)
LEMMA PositionHeard ==
  ASSUME SessionInv, NEW f \in Device!Frames, f \in InFlight, InFlight' \subseteq InFlight, OnePeriod',
         \A g \in InFlight : g.life = f.life /\ g.operational = f.operational,
         Positions = {f}, Positions' = {}, Heartbeats' = Heartbeats, f.kind = "position",
         host' = Device!TakePosition(f), busOff' = FALSE, UNCHANGED <<device, losses, quiet>>
  PROVE  SessionInv'
<1> DEFINE heard == f.operational /\ Device!Accepts(host.position, f.number)
<1>1. /\ device \in Devices /\ host \in Hosts /\ quiet \in 0 .. Device!RecoveryTicks
      /\ Lives /\ LivesInFlight /\ device.life \in 1 .. MaxLives /\ device.boot \in 0 .. BootTicks
      /\ host.position \in Device!Trackers /\ host.heartbeatAge \in Nat
      /\ f.number \in Device!Numbers /\ f.life \in 1 .. MaxLives
  BY Times DEF SessionInv, SessionTyped, Devices, Hosts, Device!Frames
<1>2. /\ host' \in Hosts
      /\ host'.heartbeat = host.heartbeat /\ host'.hasHeartbeat = host.hasHeartbeat
      /\ host'.heartbeatAge = host.heartbeatAge /\ host'.operational = host.operational
      /\ host'.heartbeatLife = host.heartbeatLife
      /\ heard => /\ host'.position = [received |-> TRUE, last |-> f.number]
                  /\ host'.hasPosition /\ host'.positionAge = 0 /\ host'.positionLife = f.life
      /\ ~heard => host' = host
  <2>1. CASE ~heard
    BY <1>1, <2>1 DEF Device!TakePosition
  <2>2. CASE heard
    <3> DEFINE t == Device!Take(host.position, f.number)
    <3>1. t = [received |-> TRUE, last |-> f.number] /\ t \in Device!Trackers
      BY <1>1, <2>2, NumbersAround
    <3>2. host' = [host EXCEPT !.position = t, !.hasPosition = TRUE,
                               !.positionAge = 0, !.positionLife = f.life]
      BY <2>2 DEF Device!TakePosition
    <3> HIDE DEF t
    <3>3. 0 \in 0 .. PositionTimeout + 1
      BY Times
    <3> QED
      BY <1>1, <2>2, <3>1, <3>2, <3>3 DEF Hosts
  <2> QED
    BY <2>1, <2>2
<1> HIDE DEF heard
<1>3. heard => f.operational
  BY DEF heard
<1>4. SessionTyped'
  BY <1>2 DEF SessionInv, SessionTyped
<1>5. Lives' /\ LivesInFlight'
  <2>1. CASE heard
    <3>1. /\ host.positionLife <= f.life /\ host.heartbeatLife <= f.life /\ f.life <= device.life
          /\ f.life < device.life => device.boot = 0
          /\ host.heartbeatLife < f.life => host.heartbeatAge > HeartbeatTimeout
      BY <1>1, <1>3, <2>1 DEF LivesInFlight
    <3>3. /\ host.heartbeatLife <= device.life /\ host.heartbeatLife \in 1 .. MaxLives
          /\ host.heartbeatLife < device.life => OutOfDate(host.heartbeatAge, HeartbeatTimeout)
      BY <1>1 DEF Lives, Hosts
    <3>4. host'.positionLife < device.life => (OutOfDate(host.positionAge, PositionTimeout))'
      BY <1>1, <1>2, <2>1, <3>1 DEF OutOfDate
    <3>5. OutOfDate(host.heartbeatAge, HeartbeatTimeout)
            <=> (OutOfDate(host.heartbeatAge, HeartbeatTimeout))'
      BY <1>2 DEF OutOfDate
    <3>6. ~(host'.positionLife < host'.heartbeatLife)
      BY <1>1, <1>2, <2>1, <3>1, <3>3, Times
    <3>7. Lives'
      BY <1>2, <2>1, <3>1, <3>3, <3>4, <3>5, <3>6 DEF Lives
    <3>2. LivesInFlight'
      BY <1>1, <1>2, <1>3, <2>1, Times DEF LivesInFlight
    <3> QED
      BY <3>2, <3>7
  <2>2. CASE ~heard
    BY <1>1, <1>2, <2>2 DEF Lives, LivesInFlight, OutOfDate
  <2> QED
    BY <2>1, <2>2
<1>6. Streak'
  <2> SUFFICES ASSUME quiet' > 0 PROVE Streak'
    BY DEF Streak
  <2>1. /\ InStep /\ HeartbeatDue /\ PositionDue /\ quiet > 0
        /\ device.boot = BootTicks \/ device.boot >= quiet
    BY DEF SessionInv, Streak
  <2>2. InStep'
    BY <2>1 DEF InStep
  <2>3. Booted => Booted'
    BY DEF Booted
  <2>4. HeartbeatDue'
    <3>1. HeartbeatFollows' <=> HeartbeatFollows
      BY <1>2 DEF HeartbeatFollows
    <3>2. HeartbeatGood => HeartbeatGood'
      BY <1>2, <2>3, <3>1 DEF HeartbeatGood
    <3> QED
      BY <1>2, <2>1, <3>1, <3>2 DEF HeartbeatDue
  <2>5. /\ f.operational => device.boot = BootTicks
        /\ f.operational \/ quiet <= BootTicks
        /\ device.position = Device!Following(f.number)
    BY <2>1 DEF InStep
  <2>6. heard => PositionGood'
    <3> SUFFICES ASSUME heard PROVE PositionGood'
      OBVIOUS
    <3>1. Booted'
      BY <1>3, <2>5 DEF Booted
    <3>2. Follows(host'.position, device.position)
      BY <1>2, <2>5 DEF Follows
    <3> QED
      BY <1>2, <3>1, <3>2 DEF PositionGood
  <2>7. PositionGood => heard
    BY <1>1, NumbersAround DEF PositionGood, Booted, heard
  <2>8. ASSUME ~heard
        PROVE  quiet + Refusals(host.position, device.position) <= Device!RecoveryTicks - 1
    <3>1. quiet + Refusals(host.position, f.number) <= Device!RecoveryTicks
      BY <2>1, <2>7, <2>8 DEF PositionDue
    <3>2. /\ Refusals(host.position, f.number) \in 0 .. Half + 1
          /\ Refusals(host.position, device.position) \in 0 .. Half + 1
      BY <1>1, <2>5, NumbersAround
    <3>3. CASE f.operational
      <4>1. ~Device!Accepts(host.position, f.number)
        BY <2>8, <3>3 DEF heard
      <4>2. Refusals(host.position, device.position) <= Refusals(host.position, f.number) - 1
        BY <1>1, <2>5, <4>1, NumbersAround
      <4> QED
        BY <1>1, <3>1, <3>2, <4>2, Times
    <3>4. CASE ~f.operational
      BY <1>1, <2>5, <3>2, <3>4, Times
    <3> QED
      BY <3>3, <3>4
  <2>9. PositionDue'
    BY <1>2, <2>6, <2>8 DEF PositionDue
  <2> QED
    BY <2>1, <2>2, <2>4, <2>9 DEF Streak
<1> QED
  BY <1>4, <1>5, <1>6 DEF SessionInv

(* A heartbeat is heard.  After a silence it starts a fresh session, and     *)
(* then it is accepted; otherwise it is refused only while the streak is   *)
(* younger than the heartbeat the host still holds.                        *)
LEMMA HeartbeatHeard ==
  ASSUME SessionInv, NEW f \in Device!Frames, f \in InFlight, InFlight' = {}, OnePeriod',
         Positions = {}, Heartbeats = {f}, f.kind = "heartbeat",
         host' = Device!TakeHeartbeat(f), busOff' = FALSE, UNCHANGED <<device, losses, quiet>>
  PROVE  SessionInv'
<1> DEFINE fresh == host.hasHeartbeat /\ host.heartbeatAge > HeartbeatTimeout
           heard == fresh \/ Device!Accepts(host.heartbeat, f.number)
<1>1. /\ device \in Devices /\ host \in Hosts /\ quiet \in 0 .. Device!RecoveryTicks
      /\ Lives /\ LivesInFlight /\ device.life \in 1 .. MaxLives /\ device.boot \in 0 .. BootTicks
      /\ device.position \in Device!Numbers
      /\ host.position \in Device!Trackers /\ host.heartbeat \in Device!Trackers
      /\ host.heartbeatAge \in Nat
      /\ host.heartbeat.received => host.hasHeartbeat
      /\ f.number \in Device!Numbers /\ f.life \in 1 .. MaxLives /\ f.operational \in BOOLEAN
  BY Times DEF SessionInv, SessionTyped, Devices, Hosts, Device!Frames
<1>2. /\ host' \in Hosts
      /\ host'.heartbeat.received => host'.hasHeartbeat
      /\ host'.position = (IF fresh THEN Device!Fresh ELSE host.position)
      /\ host'.hasPosition = (host.hasPosition /\ ~fresh)
      /\ host'.positionAge = host.positionAge /\ host'.positionLife = host.positionLife
      /\ heard => /\ host'.heartbeat = [received |-> TRUE, last |-> f.number]
                  /\ host'.hasHeartbeat /\ host'.heartbeatAge = 0
                  /\ host'.operational = f.operational /\ host'.heartbeatLife = f.life
      /\ ~heard => host' = host
  <2> DEFINE h == IF fresh THEN Device!NewSession(host) ELSE host
             t == Device!Take(h.heartbeat, f.number)
  <2>1. /\ h \in Hosts
        /\ h.position = (IF fresh THEN Device!Fresh ELSE host.position)
        /\ h.heartbeat = (IF fresh THEN Device!Fresh ELSE host.heartbeat)
        /\ h.hasPosition = (host.hasPosition /\ ~fresh)
        /\ h.positionAge = host.positionAge /\ h.positionLife = host.positionLife
        /\ h.heartbeatAge = host.heartbeatAge /\ h.heartbeatLife = host.heartbeatLife
        /\ h.hasHeartbeat = host.hasHeartbeat /\ h.operational = host.operational
        /\ ~fresh => h = host
    <3>1. CASE fresh
      <4>1. Device!Fresh \in Device!Trackers
        BY <1>1, NumbersAround
      <4>2. h = [host EXCEPT !.hasPosition = FALSE, !.position = Device!Fresh,
                             !.heartbeat = Device!Fresh]
        BY <3>1 DEF Device!NewSession
      <4> HIDE DEF h
      <4> QED
        BY <1>1, <3>1, <4>1, <4>2 DEF Hosts
    <3>2. CASE ~fresh
      BY <1>1, <3>2 DEF Hosts
    <3> QED
      BY <3>1, <3>2
  <2>2. host' = IF Device!Accepts(h.heartbeat, f.number)
                THEN [h EXCEPT !.heartbeat = t, !.hasHeartbeat = TRUE, !.heartbeatAge = 0,
                               !.operational = f.operational, !.heartbeatLife = f.life]
                ELSE h
    BY DEF Device!TakeHeartbeat
  <2>3. Device!Accepts(h.heartbeat, f.number) <=> heard
    BY <1>1, <2>1, NumbersAround
  <2>4. CASE ~heard
    <3>1. host' = host /\ ~fresh
      BY <2>1, <2>2, <2>3, <2>4
    <3> QED
      BY <1>1, <2>4, <3>1 DEF Hosts
  <2>5. CASE heard
    <3>1. h.heartbeat \in Device!Trackers
      BY <2>1 DEF Hosts
    <3>2. t = [received |-> TRUE, last |-> f.number] /\ t \in Device!Trackers
      BY <1>1, <2>3, <2>5, <3>1, NumbersAround
    <3>3. 0 \in 0 .. HeartbeatTimeout + 1
      BY Times
    <3> HIDE DEF t, h
    <3>4. host' = [h EXCEPT !.heartbeat = t, !.hasHeartbeat = TRUE, !.heartbeatAge = 0,
                            !.operational = f.operational, !.heartbeatLife = f.life]
      BY <2>2, <2>3, <2>5
    <3>5. /\ host' \in Hosts /\ host'.heartbeat = t
          /\ host'.hasHeartbeat /\ host'.heartbeatAge = 0
          /\ host'.operational = f.operational /\ host'.heartbeatLife = f.life
          /\ host'.position = h.position /\ host'.hasPosition = h.hasPosition
          /\ host'.positionAge = h.positionAge /\ host'.positionLife = h.positionLife
      BY <1>1, <2>1, <3>2, <3>3, <3>4 DEF Hosts
    <3> HIDE DEF fresh, heard
    <3> QED
      BY <2>1, <2>5, <3>2, <3>5
  <2> QED
    BY <2>4, <2>5
<1>3. /\ fresh => host.hasHeartbeat /\ host.heartbeatAge > HeartbeatTimeout /\ heard
      /\ ~heard => host.heartbeatAge <= HeartbeatTimeout
      /\ Follows(host.heartbeat, f.number) => heard
  <2>1. /\ ~host.heartbeat.received => Device!Accepts(host.heartbeat, f.number)
        /\ Follows(host.heartbeat, f.number) => Device!Accepts(host.heartbeat, f.number)
    BY <1>1, NumbersAround
  <2>2. host.heartbeatAge <= HeartbeatTimeout \/ host.heartbeatAge > HeartbeatTimeout
    BY <1>1, Times
  <2> QED
    BY <1>1, <2>1, <2>2
<1> HIDE DEF fresh, heard
<1>4. SessionTyped'
  <2>1. host' \in Hosts /\ (host'.heartbeat.received => host'.hasHeartbeat)
    BY <1>2
  <2> QED
    BY <2>1 DEF SessionInv, SessionTyped
<1>5. Lives' /\ LivesInFlight'
  <2>1. LivesInFlight'
    BY DEF LivesInFlight
  <2>2. CASE heard
    <3>1. /\ host.positionLife <= f.life /\ host.heartbeatLife <= f.life /\ f.life <= device.life
          /\ f.life < device.life => device.boot = 0
          /\ f.operational /\ host.positionLife < f.life => host.positionAge > PositionTimeout
      BY <1>1, <2>2 DEF LivesInFlight
    <3>3. /\ host.positionLife <= device.life /\ host.positionLife \in 1 .. MaxLives
          /\ host.positionLife < device.life => OutOfDate(host.positionAge, PositionTimeout)
      BY <1>1 DEF Lives, Hosts
    <3>4. host'.heartbeatLife < device.life => (OutOfDate(host.heartbeatAge, HeartbeatTimeout))'
      BY <1>1, <1>2, <2>2, <3>1 DEF OutOfDate
    <3>5. OutOfDate(host.positionAge, PositionTimeout)
            <=> (OutOfDate(host.positionAge, PositionTimeout))'
      BY <1>2 DEF OutOfDate
    <3>6. ~(host'.heartbeatLife < host'.positionLife)
      BY <1>1, <1>2, <2>2, <3>1, <3>3, Times
    <3>7. host'.hasHeartbeat /\ host'.operational /\ host'.positionLife < host'.heartbeatLife
            => host'.positionAge > PositionTimeout
      BY <1>2, <2>2, <3>1
    <3>8. host'.positionLife <= device'.life /\ host'.heartbeatLife <= device'.life
      BY <1>2, <2>2, <3>1, <3>3
    <3>9. host'.positionLife < device'.life => (OutOfDate(host.positionAge, PositionTimeout))'
      BY <1>2, <3>3, <3>5
    <3> QED
      BY <2>1, <3>4, <3>6, <3>7, <3>8, <3>9 DEF Lives
  <2>3. CASE ~heard
    BY <1>1, <1>2, <2>1, <2>3 DEF Lives, OutOfDate
  <2> QED
    BY <2>2, <2>3
<1>6. Streak'
  <2> SUFFICES ASSUME quiet' > 0 PROVE Streak'
    BY DEF Streak
  <2>1. /\ InStep /\ HeartbeatDue /\ PositionDue /\ quiet > 0
        /\ device.boot = BootTicks \/ device.boot >= quiet
    BY DEF SessionInv, Streak
  <2>2. InStep' /\ Heartbeats' = {} /\ Positions' = {}
    BY DEF InStep, Heartbeats, Positions
  <2>3. /\ f.operational => device.boot = BootTicks
        /\ f.operational \/ quiet <= BootTicks
        /\ device.heartbeat = Device!Following(f.number) /\ device.due = HeartbeatPeriod - 1
    BY <2>1 DEF InStep
  <2>4. heard => HeartbeatFollows'
    <3> SUFFICES ASSUME heard PROVE HeartbeatFollows'
      OBVIOUS
    <3>1. Follows(host'.heartbeat, device.heartbeat)
      BY <1>2, <2>3 DEF Follows
    <3>2. host'.heartbeatAge + device.due <= HeartbeatPeriod - 1
      BY <1>2, <2>3, Times
    <3> QED
      BY <2>2, <3>1, <3>2 DEF HeartbeatFollows
  <2>5. HeartbeatFollows => heard /\ ~fresh
    <3> SUFFICES ASSUME HeartbeatFollows PROVE heard /\ ~fresh
      OBVIOUS
    <3>1. Follows(host.heartbeat, f.number) /\ host.heartbeatAge <= HeartbeatPeriod
      BY DEF HeartbeatFollows
    <3>2. ~(host.heartbeatAge > HeartbeatTimeout)
      BY <1>1, <3>1, Times
    <3> QED
      BY <1>3, <3>1, <3>2
  <2>6. HeartbeatGood => HeartbeatFollows /\ f.operational
    BY DEF HeartbeatGood, Booted
  <2>7. HeartbeatGood \/ quiet <= BootTicks + HeartbeatPeriod
    BY <2>1 DEF HeartbeatDue
  <2>8. HeartbeatDue'
    <3>1. HeartbeatFollows' \/ host'.heartbeatAge > HeartbeatTimeout \/ host'.heartbeatAge >= quiet'
      BY <1>2, <2>1, <2>4, <2>5 DEF HeartbeatDue
    <3>2. CASE heard /\ f.operational
      <4>1. Booted' /\ host'.operational
        BY <1>2, <2>3, <3>2 DEF Booted
      <4> QED
        BY <2>4, <3>1, <3>2, <4>1 DEF HeartbeatDue, HeartbeatGood
    <3>3. CASE heard /\ ~f.operational
      <4>1. quiet' + device'.due <= BootTicks + HeartbeatPeriod - 1
        BY <1>1, <2>3, <3>3, Times
      <4> QED
        BY <2>2, <3>1, <4>1 DEF HeartbeatDue
    <3>4. CASE ~heard
      <4>1. quiet <= BootTicks
        <5>1. host.heartbeatAge > HeartbeatTimeout \/ host.heartbeatAge >= quiet
          BY <2>1, <2>5, <3>4 DEF HeartbeatDue
        <5>2. host.heartbeatAge <= HeartbeatTimeout
          BY <1>3, <3>4
        <5> QED
          BY <1>1, <5>1, <5>2, Times
      <4>2. quiet' + device'.due <= BootTicks + HeartbeatPeriod - 1
        BY <1>1, <2>3, <4>1, Times
      <4> QED
        BY <2>2, <3>1, <4>2 DEF HeartbeatDue
    <3> QED
      BY <3>2, <3>3, <3>4
  <2>9. PositionDue'
    <3>1. CASE ~fresh
      <4>1. PositionGood => PositionGood'
        BY <1>2, <2>2, <3>1 DEF PositionGood, Booted
      <4> QED
        BY <1>2, <2>1, <2>2, <3>1, <4>1 DEF PositionDue
    <3>2. CASE fresh
      <4>1. quiet <= BootTicks + HeartbeatPeriod
        BY <2>5, <2>6, <2>7, <3>2
      <4>2. Refusals(host'.position, device.position) = 0
        BY <1>1, <1>2, <3>2, NumbersAround DEF Refusals
      <4>3. quiet + 0 <= Device!RecoveryTicks - 1
        BY <1>1, <4>1, Times
      <4> QED
        BY <2>2, <4>2, <4>3 DEF PositionDue
    <3> QED
      BY <3>1, <3>2
  <2> QED
    BY <2>1, <2>2, <2>8, <2>9 DEF Streak
<1> QED
  BY <1>4, <1>5, <1>6 DEF SessionInv

LEMMA SessionHears == SessionInv /\ Device!Dispatch => SessionInv'
<1> SUFFICES ASSUME SessionInv, Device!Dispatch PROVE SessionInv'
  OBVIOUS
<1>1. busOff' = FALSE /\ UNCHANGED <<device, losses, quiet>>
  BY DEF Device!Dispatch
<1> QED
  BY <1>1, FrameHeard, PositionHeard, HeartbeatHeard

(* Nothing is on the way of a device that is down, and a streak ends there. *)
LEMMA SessionPauses ==
  ASSUME SessionInv, Device!Stop \/ Device!Silence \/ Device!Start \/ Device!BusOff
  PROVE  SessionInv'
<1>1. /\ device \in Devices /\ host \in Hosts /\ SessionTyped /\ Lives /\ LivesInFlight /\ OnePeriod
      /\ device.life \in 1 .. MaxLives /\ device.boot \in 0 .. BootTicks
      /\ host.positionAge \in Nat /\ host.heartbeatAge \in Nat
      /\ host.positionLife \in Nat /\ host.heartbeatLife \in Nat
      /\ quiet \in Nat
      /\ quiet > 0 => device.up
  BY Times DEF SessionInv, SessionTyped, Devices, Hosts
<1>2. wire' = wire /\ quiet' = 0
  <2>1. CASE Device!Stop
    BY <2>1 DEF Device!Stop
  <2>2. CASE Device!BusOff
    BY <2>2 DEF Device!BusOff
  <2>3. quiet > 0 \/ quiet = 0
    BY <1>1
  <2>4. CASE Device!Silence
    BY <1>1, <2>3, <2>4 DEF Device!Silence
  <2>5. CASE Device!Start
    BY <1>1, <2>3, <2>5 DEF Device!Start
  <2> QED
    BY <2>1, <2>2, <2>4, <2>5
<1>3. InFlight' = InFlight /\ OnePeriod'
  BY <1>1, <1>2 DEF InFlight, OnePeriod
<1>4. Streak' /\ 0 \in 0 .. Device!RecoveryTicks
  BY <1>2, Times DEF Streak
<1>5. CASE Device!Stop
  <2>1. /\ device' \in Devices /\ device'.life = device.life /\ device'.boot = device.boot
        /\ device'.up = FALSE /\ device.life < MaxLives
    BY <1>1, <1>5 DEF Device!Stop, Devices
  <2>2. UNCHANGED <<host, busOff, losses>>
    BY <1>5 DEF Device!Stop
  <2>3. SessionTyped'
    BY <1>1, <1>2, <1>4, <2>1, <2>2 DEF SessionTyped
  <2>4. Lives' /\ LivesInFlight'
    BY <1>1, <1>3, <2>1, <2>2 DEF Lives, LivesInFlight, OutOfDate
  <2> QED
    BY <1>3, <1>4, <2>3, <2>4 DEF SessionInv
<1>6. CASE Device!BusOff
  <2>1. UNCHANGED <<device, host, losses>> /\ busOff' = TRUE
    BY <1>6 DEF Device!BusOff
  <2>2. SessionTyped'
    BY <1>1, <1>2, <1>4, <2>1 DEF SessionTyped
  <2>3. Lives' /\ LivesInFlight'
    BY <1>1, <1>3, <2>1 DEF Lives, LivesInFlight, OutOfDate
  <2> QED
    BY <1>3, <1>4, <2>2, <2>3 DEF SessionInv
<1>7. CASE Device!Start
  <2> DEFINE l == device.life + 1
  <2>1. /\ device' = [life |-> l, up |-> TRUE, boot |-> 0, position |-> 0, heartbeat |-> 0, due |-> 0]
        /\ ~device.up /\ losses' = 0 /\ UNCHANGED <<host, busOff>>
    BY <1>7 DEF Device!Start
  <2>2. device.life < MaxLives
    BY <1>1, <2>1 DEF SessionTyped
  <2>3. l \in 1 .. MaxLives /\ l > device.life
    BY <1>1, <2>2, Times
  <2> HIDE DEF l
  <2>4. /\ 0 \in Device!Numbers /\ 0 \in 0 .. BootTicks /\ 0 \in 0 .. (HeartbeatPeriod - 1)
        /\ 0 \in 0 .. MaxLosses
    BY Times DEF Device!Numbers, Device!Modulus
  <2>5. device' \in Devices /\ device'.life = l /\ device'.boot = 0 /\ device'.up = TRUE
    BY <2>1, <2>3, <2>4 DEF Devices
  <2>6. SessionTyped'
    BY <1>1, <1>2, <1>4, <2>1, <2>4, <2>5 DEF SessionTyped
  <2>7. Lives'
    BY <1>1, <2>1, <2>3, <2>5 DEF Lives, OutOfDate
  <2>8. LivesInFlight'
    <3> SUFFICES ASSUME NEW f \in InFlight
                 PROVE  /\ host.positionLife <= f.life /\ host.heartbeatLife <= f.life /\ f.life <= l
                        /\ f.operational /\ host.positionLife < f.life => host.positionAge > PositionTimeout
                        /\ f.operational /\ host.heartbeatLife < f.life => host.heartbeatAge > HeartbeatTimeout
      BY <1>3, <2>1, <2>5 DEF LivesInFlight
    <3>1. f.life \in 1 .. MaxLives
      BY DEF InFlight, Device!Frames
    <3> QED
      BY <1>1, <2>3, <3>1 DEF LivesInFlight
  <2> QED
    BY <1>3, <1>4, <2>6, <2>7, <2>8 DEF SessionInv
<1>8. CASE Device!Silence
  <2>1. Device!TimePasses /\ UNCHANGED <<device, busOff, losses>> /\ wire = <<>>
    BY <1>8 DEF Device!Silence
  <2>2. /\ host' \in Hosts /\ host'.heartbeat = host.heartbeat
        /\ host'.hasPosition = host.hasPosition /\ host'.hasHeartbeat = host.hasHeartbeat
        /\ host'.operational = host.operational
        /\ host'.positionLife = host.positionLife /\ host'.heartbeatLife = host.heartbeatLife
        /\ host'.positionAge = (IF host.positionAge > PositionTimeout THEN host.positionAge
                                ELSE host.positionAge + 1)
        /\ host'.heartbeatAge = (IF host.heartbeatAge > HeartbeatTimeout THEN host.heartbeatAge
                                 ELSE host.heartbeatAge + 1)
    BY <1>1, <2>1, HostAges
  <2>3. SessionTyped'
    BY <1>1, <1>2, <1>4, <2>1, <2>2 DEF SessionTyped
  <2>4. Lives'
    BY <1>1, <2>1, <2>2, Times DEF Lives, OutOfDate
  <2>5. LivesInFlight'
    BY <1>3, <2>1, FramesInFlight DEF LivesInFlight
  <2> QED
    BY <1>3, <1>4, <2>3, <2>4, <2>5 DEF SessionInv
<1> QED
  BY <1>5, <1>6, <1>7, <1>8

LEMMA SessionIsReal == SessionInv => Device!TypeOK /\ Device!ReadyOnOneLife /\ Device!ReadyInTime
<1> SUFFICES ASSUME SessionInv PROVE Device!TypeOK /\ Device!ReadyOnOneLife /\ Device!ReadyInTime
  OBVIOUS
<1>1. /\ device \in Devices /\ host \in Hosts /\ SessionTyped /\ Lives /\ OnePeriod /\ Streak
      /\ device.position \in Device!Numbers /\ device.due \in Nat
      /\ host.position \in Device!Trackers /\ host.heartbeatAge \in Nat /\ host.positionAge \in Nat
      /\ host.positionLife \in Nat /\ host.heartbeatLife \in Nat
  BY Times DEF SessionInv, SessionTyped, Devices, Hosts
<1>2. Device!TypeOK
  <2>1. wire \in Seq(Device!Frames) /\ Len(wire) <= 2
    <3>1. CASE wire = <<>>
      BY <3>1
    <3>2. ASSUME NEW f \in Device!Frames, wire = <<f>> PROVE <2>1
      BY <3>2
    <3>3. ASSUME NEW f \in Device!Frames, NEW g \in Device!Frames, wire = <<f, g>> PROVE <2>1
      BY <3>3
    <3> QED
      BY <1>1, <3>1, <3>2, <3>3 DEF OnePeriod
  <2> QED
    BY <1>1, <2>1 DEF SessionTyped, Devices, Hosts, Device!TypeOK
<1>3. Device!ReadyOnOneLife
  BY <1>1, Times DEF Lives, Device!ReadyOnOneLife, Device!MotionReady
<1>4. Device!ReadyInTime
  <2> SUFFICES ASSUME quiet = Device!RecoveryTicks, wire = <<>> PROVE Device!MotionReady
    BY DEF Device!ReadyInTime
  <2>1. Positions = {} /\ Heartbeats = {}
    BY FramesInFlight DEF Positions, Heartbeats
  <2>2. HeartbeatDue /\ PositionDue /\ ~busOff
    BY <1>1, Times DEF Streak, SessionTyped
  <2>3. HeartbeatGood
    BY <1>1, <2>1, <2>2, Times DEF HeartbeatDue
  <2>4. /\ Follows(host.heartbeat, device.heartbeat) /\ host.operational
        /\ host.heartbeatAge + device.due <= HeartbeatPeriod - 1
    BY <2>1, <2>3 DEF HeartbeatGood, HeartbeatFollows
  <2>5. host.hasHeartbeat /\ host.heartbeatAge <= HeartbeatTimeout
    BY <1>1, <2>4, Times DEF Follows, SessionTyped
  <2>6. PositionGood
    <3>1. Refusals(host.position, device.position) \in 0 .. Half + 1
      BY <1>1, NumbersAround
    <3> QED
      BY <2>1, <2>2, <3>1, Times DEF PositionDue
  <2>7. host.hasPosition /\ host.positionAge <= PositionTimeout
    BY <2>1, <2>6, Times DEF PositionGood
  <2> QED
    BY <2>2, <2>4, <2>5, <2>7 DEF Device!MotionReady
<1> QED
  BY <1>2, <1>3, <1>4

LEMMA SessionStays == SessionInv /\ [Device!Next]_(Device!vars) => SessionInv'
<1>1. SessionInv /\ UNCHANGED Device!vars => SessionInv'
  BY DEF Device!vars, SessionInv, SessionTyped, OnePeriod, Lives, LivesInFlight, Streak, InFlight,
         OutOfDate, InStep, HeartbeatDue, PositionDue, HeartbeatGood, HeartbeatFollows,
         PositionGood, Positions, Heartbeats, Booted
<1>2. SessionInv /\ Device!Next => SessionInv'
  BY SessionSends, SessionHears, SessionPauses DEF Device!Next
<1> QED
  BY <1>1, <1>2

(* The axes the host takes for operational are, on data of one life of the *)
(* device, and the host is ready in bounded time after a restart           *)
(* (elfin3_canfd_system.cpp, app_can.c),  for every range of numbers and   *)
(* every period and timeout that keeps SessionAssumption.                  *)
LEMMA FeedbackIsReal ==
  Device!Spec => [](Device!TypeOK /\ Device!ReadyOnOneLife /\ Device!ReadyInTime)
BY SessionStarts, SessionStays, SessionIsReal, PTL DEF Device!Spec

----------------------------------------------------------------------------
(* All parts side by side.                                                 *)

(* Each part takes the steps of its module, or none.                       *)
LEMMA SideBySide ==
  BoardSpec => /\ Spec /\ Device!Spec /\ BusOff!Spec /\ Ring!Spec
               /\ Log!Spec /\ Snapshot!Spec
<1>1. BoardInit => /\ Init /\ Device!Init /\ BusOff!Init /\ Ring!Init
                   /\ Log!Init /\ Snapshot!Init
  BY DEF BoardInit
<1>2. [BoardNext]_boardVars =>
        /\ [Next]_vars /\ [Device!Next]_(Device!vars) /\ [BusOff!Next]_(BusOff!vars)
        /\ [Ring!Next]_(Ring!vars)
        /\ [Log!Next]_(Log!vars) /\ [Snapshot!Next]_(Snapshot!vars)
  BY DEF BoardNext, HostPart, DevicePart, BusOffPart, RingPart, LogPart, SnapshotPart,
         MailboxPart, LinkVars, LogAndRing, boardVars, deviceVars, Device!vars,
         busOffVars, ringVars, logVars, snapVars,
         BusOff!vars, Ring!vars, Log!vars, Log!taskVars, Snapshot!vars
<1> QED
  BY <1>1, <1>2, PTL
     DEF BoardSpec, Spec, Device!Spec, BusOff!Spec, Ring!Spec, Log!Spec, Snapshot!Spec

(* A frame that comes twice is acted on once (app_can.c), no bus-off is    *)
(* forgotten and the indices of the receive ring stay a queue length apart *)
(* (bsp_can.c), the log's buffer is released before it is filled again     *)
(* (app_uart_log.c), and what is printed of the drives is one snapshot,    *)
(* once (ECAT_runtime.c).                                                  *)
THEOREM BoardIsSafe == BoardSpec => []BoardSafe
<1>1. RingInv => Ring!TypeOK
  BY DEF RingInv
<1>2. Ring!Spec => []Ring!TypeOK
  BY <1>1, RingInit, RingNext, PTL DEF Ring!Spec
<1>3. BusOff!Spec => [](BusOff!TypeOK /\ BusOff!BusOffRemembered)
  BY BoardBusOff, BusOffIsRemembered
<1> QED
  BY <1>2, <1>3, SideBySide, HostSessionTyped, IsTakenOnce, LogIsSafe, SnapshotIsSafe, PTL
     DEF BoardSafe

(* The host never takes the arm for ready on a heartbeat of one life of    *)
(* the device and a position of another, and it is ready in bounded time   *)
(* after a restart when nothing is lost (elfin3_canfd_system.cpp,          *)
(* app_can.c), for every range of numbers, period and timeout that keeps   *)
(* SessionAssumption.                                                      *)
THEOREM FeedbackOnBoard == BoardSpec => []ReadyIsReal
BY SideBySide, FeedbackIsReal, PTL DEF ReadyIsReal

----------------------------------------------------------------------------
(* The mailboxes, once with buffers enough for all and once with few: what *)
(* CyclicMailboxProofs shows of each.                                      *)
Ample == INSTANCE CyclicMailboxProofs WITH Noisy <- {}, taken <- mbxTaken
Scarce == INSTANCE CyclicMailboxProofs
            WITH PoolSize <- SmallPoolSize, MaxLost <- 0, taken <- mbxTaken

(* The mailbox with buffers enough for all is the one of the proofs.       *)
LEMMA MailboxIsAmple ==
  /\ Ample!MailboxAssumption /\ Ample!PoolIsAmple
  /\ Mailbox!Init => Ample!Init
  /\ Mailbox!Next => Ample!Next
  /\ Ample!MailboxSafe => Mailbox!MailboxSafe
<1>1. Ample!MailboxAssumption /\ Ample!PoolIsAmple
  BY BoardMailbox DEF Mailbox!MailboxAssumption, Ample!MailboxAssumption,
     Mailbox!PoolIsAmple, Ample!PoolIsAmple
<1>2. Mailbox!Init => Ample!Init
  BY DEF Mailbox!Init, Ample!Init, Mailbox!Slaves, Ample!Slaves,
     Mailbox!Buffers, Ample!Buffers, Mailbox!NoBuffer, Ample!NoBuffer,
     Mailbox!NoCall, Ample!NoCall, Mailbox!EmergencyMessage,
     Ample!EmergencyMessage
<1>3. Mailbox!Next => Ample!Next
  BY DEF Mailbox!Slaves, Ample!Slaves, Mailbox!Buffers, Ample!Buffers,
     Mailbox!NoBuffer, Ample!NoBuffer, Mailbox!NoCall, Ample!NoCall,
     Mailbox!Calls, Ample!Calls, Mailbox!Request, Ample!Request,
     Mailbox!Answer, Ample!Answer, Mailbox!EmergencyMessage,
     Ample!EmergencyMessage, Mailbox!poolVars, Ample!poolVars,
     Mailbox!deviceVars, Ample!deviceVars, Mailbox!workerVars,
     Ample!workerVars, Mailbox!vars, Ample!vars, Mailbox!Dropped,
     Ample!Dropped, Mailbox!Begin, Ample!Begin, Mailbox!Return, Ample!Return,
     Mailbox!NoMailbox, Ample!NoMailbox, Mailbox!Send, Ample!Send,
     Mailbox!Ticket, Ample!Ticket, Mailbox!Written, Ample!Written,
     Mailbox!GiveTicketBack, Ample!GiveTicketBack, Mailbox!SendDone,
     Ample!SendDone, Mailbox!SendExpires, Ample!SendExpires, Mailbox!Receive,
     Ample!Receive, Mailbox!ReceiveExpires, Ample!ReceiveExpires,
     Mailbox!Matches, Ample!Matches, Mailbox!Compare, Ample!Compare,
     Mailbox!Worker, Ample!Worker, Mailbox!Incoming, Ample!Incoming,
     Mailbox!NextInTurn, Ample!NextInTurn, Mailbox!Lose, Ample!Lose,
     Mailbox!Repeat, Ample!Repeat, Mailbox!ReadFails, Ample!ReadFails,
     Mailbox!Read, Ample!Read, Mailbox!InHandler, Ample!InHandler,
     Mailbox!WriteMailbox, Ample!WriteMailbox, Mailbox!Pending, Ample!Pending,
     Mailbox!FirstPending, Ample!FirstPending, Mailbox!InOrder, Ample!InOrder,
     Mailbox!Kept, Ample!Kept, Mailbox!BuffersOf, Ample!BuffersOf,
     Mailbox!Tidy, Ample!Tidy, Mailbox!WriteFirst, Ample!WriteFirst,
     Mailbox!OutHandler, Ample!OutHandler, Mailbox!Handler, Ample!Handler,
     Mailbox!Serve, Ample!Serve, Mailbox!Emergency, Ample!Emergency,
     Mailbox!Next, Ample!Next, Mailbox!Cardinality, Ample!Cardinality,
     Cardinality
<1>4. Ample!MailboxSafe => Mailbox!MailboxSafe
  BY DEF Mailbox!Slaves, Ample!Slaves, Mailbox!Buffers, Ample!Buffers,
     Mailbox!NoBuffer, Ample!NoBuffer, Mailbox!NoCall, Ample!NoCall,
     Mailbox!Calls, Ample!Calls, Mailbox!Request, Ample!Request,
     Mailbox!Answer, Ample!Answer, Mailbox!EmergencyMessage,
     Ample!EmergencyMessage, Mailbox!Messages, Ample!Messages,
     Mailbox!Entries, Ample!Entries, Mailbox!TypeOK, Ample!TypeOK,
     Mailbox!Holders, Ample!Holders, Mailbox!BuffersConserved,
     Ample!BuffersConserved, Mailbox!SentMeansTaken, Ample!SentMeansTaken,
     Mailbox!OwnUntilFailure, Ample!OwnUntilFailure, Mailbox!RequestIsKept,
     Ample!RequestIsKept, Mailbox!MailboxSafe, Ample!MailboxSafe,
     Mailbox!Cardinality, Ample!Cardinality, Cardinality
<1> QED
  BY <1>1, <1>2, <1>3, <1>4

(* The small pool is the one of the proofs that need no bound on it.       *)
LEMMA SmallPoolIsScarce ==
  /\ Scarce!MailboxAssumption
  /\ SmallPool!Init => Scarce!Init
  /\ SmallPool!Next => Scarce!Next
  /\ Scarce!NoBufferTwice => SmallPool!NoBufferTwice
<1>1. Scarce!MailboxAssumption
  BY BoardMailbox DEF SmallPool!MailboxAssumption, Scarce!MailboxAssumption
<1>2. SmallPool!Init => Scarce!Init
  BY DEF SmallPool!Init, Scarce!Init, SmallPool!Slaves, Scarce!Slaves,
     SmallPool!Buffers, Scarce!Buffers, SmallPool!NoBuffer, Scarce!NoBuffer,
     SmallPool!NoCall, Scarce!NoCall, SmallPool!EmergencyMessage,
     Scarce!EmergencyMessage
<1>3. SmallPool!Next => Scarce!Next
  BY DEF SmallPool!Slaves, Scarce!Slaves, SmallPool!Buffers, Scarce!Buffers,
     SmallPool!NoBuffer, Scarce!NoBuffer, SmallPool!NoCall, Scarce!NoCall,
     SmallPool!Calls, Scarce!Calls, SmallPool!Request, Scarce!Request,
     SmallPool!Answer, Scarce!Answer, SmallPool!EmergencyMessage,
     Scarce!EmergencyMessage, SmallPool!poolVars, Scarce!poolVars,
     SmallPool!deviceVars, Scarce!deviceVars, SmallPool!workerVars,
     Scarce!workerVars, SmallPool!vars, Scarce!vars, SmallPool!Dropped,
     Scarce!Dropped, SmallPool!Begin, Scarce!Begin, SmallPool!Return,
     Scarce!Return, SmallPool!NoMailbox, Scarce!NoMailbox, SmallPool!Send,
     Scarce!Send, SmallPool!Ticket, Scarce!Ticket, SmallPool!Written,
     Scarce!Written, SmallPool!GiveTicketBack, Scarce!GiveTicketBack,
     SmallPool!SendDone, Scarce!SendDone, SmallPool!SendExpires,
     Scarce!SendExpires, SmallPool!Receive, Scarce!Receive,
     SmallPool!ReceiveExpires, Scarce!ReceiveExpires, SmallPool!Matches,
     Scarce!Matches, SmallPool!Compare, Scarce!Compare, SmallPool!Worker,
     Scarce!Worker, SmallPool!Incoming, Scarce!Incoming, SmallPool!NextInTurn,
     Scarce!NextInTurn, SmallPool!Lose, Scarce!Lose, SmallPool!Repeat,
     Scarce!Repeat, SmallPool!ReadFails, Scarce!ReadFails, SmallPool!Read,
     Scarce!Read, SmallPool!InHandler, Scarce!InHandler,
     SmallPool!WriteMailbox, Scarce!WriteMailbox, SmallPool!Pending,
     Scarce!Pending, SmallPool!FirstPending, Scarce!FirstPending,
     SmallPool!InOrder, Scarce!InOrder, SmallPool!Kept, Scarce!Kept,
     SmallPool!BuffersOf, Scarce!BuffersOf, SmallPool!Tidy, Scarce!Tidy,
     SmallPool!WriteFirst, Scarce!WriteFirst, SmallPool!OutHandler,
     Scarce!OutHandler, SmallPool!Handler, Scarce!Handler, SmallPool!Serve,
     Scarce!Serve, SmallPool!Emergency, Scarce!Emergency, SmallPool!Next,
     Scarce!Next, SmallPool!Cardinality, Scarce!Cardinality, Cardinality
<1>4. Scarce!NoBufferTwice => SmallPool!NoBufferTwice
  BY DEF SmallPool!Slaves, Scarce!Slaves, SmallPool!Buffers, Scarce!Buffers,
     SmallPool!Holders, Scarce!Holders, SmallPool!NoBufferTwice,
     Scarce!NoBufferTwice, SmallPool!Cardinality, Scarce!Cardinality,
     Cardinality
<1> QED
  BY <1>1, <1>2, <1>3, <1>4

(* Which part runs stays, and so do the mailboxes while another one does.  *)
LEMMA MailboxSteps ==
  ASSUME [BoardNext]_boardVars
  PROVE  /\ part' = part
         /\ part = "mailbox" => [Ample!Next]_(Ample!vars)
         /\ part = "small pool" => [Scarce!Next]_(Scarce!vars)
         /\ part \notin {"mailbox", "small pool"} => UNCHANGED mbxVars
<1>1. UNCHANGED mbxVars =>
        /\ [Ample!Next]_(Ample!vars) /\ [Scarce!Next]_(Scarce!vars)
  BY DEF mbxVars, Ample!vars, Ample!poolVars, Ample!deviceVars, Ample!workerVars,
     Scarce!vars, Scarce!poolVars, Scarce!deviceVars, Scarce!workerVars
<1>2. CASE MailboxPart
  <2>1. /\ part' = part
        /\ \/ part = "mailbox" /\ Mailbox!Next
           \/ part = "small pool" /\ SmallPool!Next
    BY <1>2 DEF MailboxPart
  <2>2. Mailbox!Next => Ample!Next
    BY MailboxIsAmple
  <2>3. SmallPool!Next => Scarce!Next
    BY SmallPoolIsScarce
  <2> QED
    BY <2>1, <2>2, <2>3
<1>3. CASE ~MailboxPart
  <2>1. part' = part /\ UNCHANGED mbxVars
    <3>1. CASE UNCHANGED boardVars
      BY <3>1 DEF boardVars
    <3>2. CASE BoardNext
      BY <1>3, <3>2 DEF BoardNext, HostPart, DevicePart, BusOffPart, RingPart, LogPart,
         SnapshotPart
    <3> QED
      BY <3>1, <3>2
  <2>2. [Ample!Next]_(Ample!vars) /\ [Scarce!Next]_(Scarce!vars)
    BY <1>1, <2>1
  <2> QED
    BY <2>1, <2>2
<1> QED
  BY <1>2, <1>3

(* The part that runs keeps its invariant.                                 *)
MailboxInv ==
  /\ part = "mailbox" => Ample!AmpleInv
  /\ part = "small pool" => Scarce!BaseInv

(* The mailboxes start in their invariant.                                *)
LEMMA MailboxStarts == BoardInit => MailboxInv
<1> SUFFICES ASSUME BoardInit PROVE MailboxInv
  OBVIOUS
<1>1. ASSUME part = "mailbox" PROVE Ample!AmpleInv
  <2>1. Ample!Init /\ Ample!MailboxAssumption
    BY <1>1, MailboxIsAmple DEF BoardInit
  <2> QED
    BY <2>1, Ample!InitAmple
<1>2. ASSUME part = "small pool" PROVE Scarce!BaseInv
  <2>1. Scarce!Init /\ Scarce!MailboxAssumption
    BY <1>2, SmallPoolIsScarce DEF BoardInit
  <2> QED
    BY <2>1, Scarce!InitBase
<1> QED
  BY <1>1, <1>2 DEF MailboxInv

(* Each step of the board keeps it.                                        *)
LEMMA MailboxStays == MailboxInv /\ [BoardNext]_boardVars => MailboxInv'
<1> SUFFICES ASSUME MailboxInv, [BoardNext]_boardVars PROVE MailboxInv'
  OBVIOUS
<1>1. part' = part
  BY MailboxSteps
<1>2. ASSUME part = "mailbox" PROVE Ample!AmpleInv'
  <2>1. /\ Ample!AmpleInv /\ [Ample!Next]_(Ample!vars)
        /\ Ample!MailboxAssumption /\ Ample!PoolIsAmple
    BY <1>2, MailboxSteps, MailboxIsAmple DEF MailboxInv
  <2> QED
    BY <2>1, Ample!AmpleStep
<1>3. ASSUME part = "small pool" PROVE Scarce!BaseInv'
  <2>1. /\ Scarce!BaseInv /\ [Scarce!Next]_(Scarce!vars)
        /\ Scarce!MailboxAssumption
    BY <1>3, MailboxSteps, SmallPoolIsScarce DEF MailboxInv
  <2> QED
    BY <2>1, Scarce!BaseStep
<1> QED
  BY <1>1, <1>2, <1>3 DEF MailboxInv

(* The invariant says what a caller of the mailbox relies on.              *)
LEMMA MailboxHolds == MailboxInv => MailboxSafe
<1> SUFFICES ASSUME MailboxInv PROVE MailboxSafe
  OBVIOUS
<1>1. ASSUME part = "mailbox" PROVE Mailbox!MailboxSafe
  <2>1. Ample!AmpleInv /\ Ample!MailboxAssumption /\ Ample!PoolIsAmple
    BY <1>1, MailboxIsAmple DEF MailboxInv
  <2>2. Ample!MailboxSafe
    BY <2>1, Ample!AmpleSafe
  <2> QED
    BY <2>2, MailboxIsAmple
<1>2. ASSUME part = "small pool" PROVE SmallPool!NoBufferTwice
  <2>1. Scarce!BaseInv /\ Scarce!MailboxAssumption
    BY <1>2, SmallPoolIsScarce DEF MailboxInv
  <2>2. Scarce!NoBufferTwice
    BY <2>1, Scarce!BaseOnce
  <2> QED
    BY <2>2, SmallPoolIsScarce
<1> QED
  BY <1>1, <1>2 DEF MailboxSafe

(* No buffer of the mailbox pool is lost or in two hands, a call compares  *)
(* what came with the request it sent and gets its own answer until one    *)
(* has failed; when the pool runs out, still no buffer is in two hands     *)
(* (ec_main.c, ec_coe.c).                                                  *)
THEOREM MailboxOnBoard == BoardSpec => []MailboxSafe
BY MailboxStarts, MailboxStays, MailboxHolds, PTL DEF BoardSpec

(* Only a request whose call waits for it is written, in either mailbox.   *)
LEMMA MailboxWrites ==
  ASSUME MailboxInv, [BoardNext]_boardVars, NEW s \in Mailbox!Slaves,
         mbxTaken'[s] # mbxTaken[s]
  PROVE  pc = "send" /\ s = call.slave /\ mbxTaken'[s] = call.id
<1>1. part \in {"mailbox", "small pool"}
  BY MailboxSteps DEF mbxVars
<1>2. CASE part = "mailbox"
  <2>1. /\ Ample!BaseInv /\ [Ample!Next]_(Ample!vars)
        /\ Ample!MailboxAssumption /\ s \in Ample!Slaves
    BY <1>2, MailboxSteps, MailboxIsAmple
       DEF MailboxInv, Ample!AmpleInv, Mailbox!Slaves, Ample!Slaves
  <2> QED
    BY <2>1, Ample!WriteStep
<1>3. CASE part = "small pool"
  <2>1. /\ Scarce!BaseInv /\ [Scarce!Next]_(Scarce!vars)
        /\ Scarce!MailboxAssumption /\ s \in Scarce!Slaves
    BY <1>3, MailboxSteps, SmallPoolIsScarce
       DEF MailboxInv, Mailbox!Slaves, Scarce!Slaves
  <2> QED
    BY <2>1, Scarce!WriteStep
<1> QED
  BY <1>1, <1>2, <1>3

(* A request whose call has given it up is never written to a drive, with  *)
(* either pool (ecx_mbxexpirequeue and ecx_mbxouthandler in ec_main.c).    *)
THEOREM GivenUpOnBoard == BoardSpec => Mailbox!NoLateWrite
<1> DEFINE Late == \A s \in Mailbox!Slaves : mbxTaken'[s] # mbxTaken[s] =>
                     pc = "send" /\ s = call.slave /\ mbxTaken'[s] = call.id
<1>1. MailboxInv /\ [BoardNext]_boardVars => [Late]_(Mailbox!vars)
  BY MailboxWrites
<1> HIDE DEF Late
<1>2. BoardSpec => [][Late]_(Mailbox!vars)
  BY <1>1, MailboxStarts, MailboxStays, PTL DEF BoardSpec
<1> QED
  BY <1>2 DEF Mailbox!NoLateWrite, Late
=============================================================================
