---------------------------- MODULE HostSession ----------------------------
(***************************************************************************)
(* The numbered frames of the host as the firmware takes them: motion      *)
(* control 0x181 and host heartbeat 0x183.  A new host process numbers its *)
(* frames from 0, while the firmware keeps the last number it took until   *)
(* its own restart.  A frame may be lost, or come twice when the sender    *)
(* misses the acknowledgement.                                             *)
(*                                                                         *)
(* MaxUnseen bounds how many numbers in a row never reach the filter.      *)
(***************************************************************************)
EXTENDS SequenceTracker

CONSTANT MaxUnseen

ASSUME MaxUnseenAssumption == MaxUnseen \in Nat /\ MaxUnseen < Half - 1

VARIABLES
  next,     \* the number the host gives its next frame, per stream
  tracker,  \* app_can_sequence_states, per stream
  frame,    \* the last frame put on the bus: its stream and number
  ignored,  \* frames refused in a row since the host started, per stream
  unseen,   \* numbers in a row the filter did not see, per stream
  reached,  \* the last frame reached the filter
  taken     \* how often it was acted on

vars == <<next, tracker, frame, ignored, unseen, reached, taken>>

Streams == {"control", "heartbeat"}

TypeOK ==
  /\ next \in [Streams -> Numbers]
  /\ tracker \in [Streams -> Trackers]
  /\ frame \in [stream : Streams, number : Numbers]
  /\ ignored \in [Streams -> Nat]
  /\ unseen \in [Streams -> 0 .. MaxUnseen]
  /\ reached \in BOOLEAN
  /\ taken \in Nat

Init ==
  /\ next = [s \in Streams |-> 0]
  /\ tracker = [s \in Streams |-> Fresh]
  /\ frame = [stream |-> "heartbeat", number |-> 0]
  /\ ignored = [s \in Streams |-> 0]
  /\ unseen = [s \in Streams |-> 0]
  /\ reached = FALSE
  /\ taken = 0

(* control_sequence_ and heartbeat_tx_sequence_ start at 0.                *)
HostRestart ==
  /\ next' = [s \in Streams |-> 0]
  /\ ignored' = [s \in Streams |-> 0]
  /\ UNCHANGED <<tracker, frame, unseen, reached, taken>>

Number(s) ==
  /\ next' = [next EXCEPT ![s] = Following(@)]
  /\ frame' = [stream |-> s, number |-> next[s]]

(* APP_CAN_ParseMotionControl and APP_CAN_ParseHostHeartbeat: a number     *)
(* that is not ahead is APP_CAN_PARSE_SEQUENCE_ERROR.                      *)
Arrive(s) ==
  /\ Number(s)
  /\ tracker' = [tracker EXCEPT ![s] = Take(@, next[s])]
  /\ unseen' = [unseen EXCEPT ![s] = 0]
  /\ reached' = TRUE
  /\ \/ /\ Accepts(tracker[s], next[s])
        /\ taken' = 1
        /\ ignored' = [ignored EXCEPT ![s] = 0]
     \/ /\ ~Accepts(tracker[s], next[s])
        /\ taken' = 0
        /\ ignored' = [ignored EXCEPT ![s] = @ + 1]

(* The last frame comes a second time.                                     *)
ArriveAgain ==
  /\ reached
  /\ tracker' = [tracker EXCEPT ![frame.stream] = Take(@, frame.number)]
  /\ taken' = IF Accepts(tracker[frame.stream], frame.number) THEN taken + 1 ELSE taken
  /\ UNCHANGED <<next, frame, ignored, unseen, reached>>

(* The frame is lost, or it is a quick stop: that is obeyed whatever its   *)
(* number, before the filter, which does not see the number.               *)
PassFilterBy(s) ==
  /\ unseen[s] < MaxUnseen
  /\ Number(s)
  /\ unseen' = [unseen EXCEPT ![s] = @ + 1]
  /\ reached' = FALSE
  /\ taken' = 0
  /\ UNCHANGED <<tracker, ignored>>

Next ==
  \/ HostRestart
  \/ \E s \in Streams : Arrive(s) \/ PassFilterBy(s)
  \/ ArriveAgain

Spec == Init /\ [][Next]_vars

-----------------------------------------------------------------------------
(* However the host and the firmware stand when a new host process starts, *)
(* and whatever is lost meanwhile, the firmware refuses at most half the   *)
(* range and one more of its frames in a row: an operator who repeats a    *)
(* request is heard, and a heartbeat ends the silence in bounded time.     *)
HeardAgain == \A s \in Streams : ignored[s] <= Half + 1

(* A frame that comes twice is acted on once.                              *)
TakenOnce == taken <= 1
=============================================================================
