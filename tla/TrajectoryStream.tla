-------------------------- MODULE TrajectoryStream --------------------------
(***************************************************************************)
(* What the trajectory buffer promises its two users, without the ring,    *)
(* the sequence numbers or the generations: a bounded first-in first-out   *)
(* stream that a fresh RESET point opens, that starts playing only once    *)
(* Prefill points are pending, and that anything unusual closes for good,  *)
(* remembering the first cause until the next stream opens.                *)
(***************************************************************************)
EXTENDS Integers, Sequences

CONSTANTS
  Item,      \* trajectory points
  Cause,     \* reasons for closing a stream
  Capacity,  \* most points that may be pending
  Prefill    \* points that must be pending before playback starts

VARIABLES
  open,      \* points may be appended and delivered
  playing,   \* playback of the open stream has started
  pending,   \* the accepted points not yet delivered, oldest first
  cause,     \* why the last stream was closed, "NONE" while one is open
  out        \* the point delivered last

streamVars == <<open, playing, pending, cause, out>>

StreamInit ==
  /\ open = FALSE
  /\ playing = FALSE
  /\ pending = <<>>
  /\ cause = "NONE"
  /\ out \in Item

(* A RESET point discards whatever was pending and opens a stream.         *)
OpenStream(i) ==
  /\ open' = TRUE
  /\ playing' = FALSE
  /\ pending' = <<i>>
  /\ cause' = "NONE"
  /\ UNCHANGED out

AppendPoint(i) ==
  /\ open
  /\ Len(pending) < Capacity
  /\ pending' = Append(pending, i)
  /\ UNCHANGED <<open, playing, cause, out>>

DeliverPoint ==
  /\ open
  /\ pending # <<>>
  /\ playing \/ Len(pending) >= Prefill
  /\ out' = Head(pending)
  /\ pending' = Tail(pending)
  /\ playing' = TRUE
  /\ UNCHANGED <<open, cause>>

(* Closing a closed stream keeps the cause it was closed for.              *)
CloseStream(c) ==
  /\ open' = FALSE
  /\ playing' = FALSE
  /\ pending' = <<>>
  /\ cause' = IF cause = "NONE" THEN c ELSE cause
  /\ UNCHANGED out

StreamNext ==
  \/ \E i \in Item : OpenStream(i) \/ AppendPoint(i)
  \/ DeliverPoint
  \/ \E c \in Cause : CloseStream(c)

StreamSpec == StreamInit /\ [][StreamNext]_streamVars

=============================================================================
