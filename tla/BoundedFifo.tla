----------------------------- MODULE BoundedFifo -----------------------------
(***************************************************************************)
(* What a receive queue between an interrupt and a task promises: frames   *)
(* leave in the order they came, none twice; only the newest is refused,   *)
(* only when Depth frames wait, and every refusal is counted.              *)
(***************************************************************************)
EXTENDS Naturals, Sequences

CONSTANTS
  Frames,   \* what is queued
  Depth,    \* places
  CountMod  \* the counter of refusals wraps here

VARIABLES queue, out, dropped
vars == <<queue, out, dropped>>

(* "none": nothing was taken yet.                                          *)
Init == queue = <<>> /\ out = "none" /\ dropped = 0

Put(f) ==
  /\ Len(queue) < Depth
  /\ queue' = Append(queue, f)
  /\ UNCHANGED <<out, dropped>>

Refuse ==
  /\ Len(queue) = Depth
  /\ dropped' = (dropped + 1) % CountMod
  /\ UNCHANGED <<queue, out>>

Take ==
  /\ queue # <<>>
  /\ out' = Head(queue) /\ queue' = Tail(queue)
  /\ UNCHANGED dropped

Next == (\E f \in Frames : Put(f)) \/ Refuse \/ Take
SafeSpec == Init /\ [][Next]_vars
Spec == SafeSpec /\ WF_vars(Take)
=============================================================================
