---------------------------- MODULE MCMotionLoop ----------------------------
(***************************************************************************)
(* Model checking of MotionLoop; the .cfg files give the constants.        *)
(***************************************************************************)
EXTENDS MotionLoop

(* Bound: a behaviour is followed until the drives leave TEST for good.    *)
MayStillPlay == drive \in {"enabling", "test"}

(* The slots outside the queue are written before they are read again.     *)
Live(i) == \E n \in 1..traj.count : SlotAt(traj, n) = i

(* Once the safety request is latched the ages only change the flags, and  *)
(* these only the reason a HOLD is given, which nothing checked here looks *)
(* at.                                                                     *)
Watching ==
  IF latch THEN <<flags.timedOut, flags.online>> ELSE <<cmdAge, hbAge, flags>>

View ==
  <<[traj EXCEPT !.points =
       [i \in Slots |-> IF Live(i) THEN @[i] ELSE [seq |-> 0]]],
    can, latch, Watching, ecatVars, timeVars>>
=============================================================================
