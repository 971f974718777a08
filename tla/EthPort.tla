------------------------------- MODULE EthPort -------------------------------
(***************************************************************************)
(* The Ethernet port under the EtherCAT master (nicdrv.c, bsp_eth_raw.c).  *)
(* A request travels in a slot, an answer names the slot it belongs to and *)
(* nothing else: a late answer, or the second one to a request that was    *)
(* sent twice, must be gone before its slot is used again.  Only the       *)
(* EtherCAT task uses the port, one exchange after the other: either       *)
(* process data, one or two frames that are sent first and waited for in   *)
(* their order, or one register access, sent again until it is answered.   *)
(*                                                                         *)
(* Abstracted: what a frame carries.  The state of a slot is whether it is *)
(* EC_BUF_EMPTY, since nothing else of it is ever read.  A frame that is   *)
(* too short, no EtherCAT frame or of a bad length is dropped like one of  *)
(* another slot.  Answers come back in the order of the requests, as from  *)
(* one line of slaves; a send that fails is a request that gets lost.      *)
(***************************************************************************)
EXTENDS Naturals, Sequences, FiniteSetsExt, Functions

CONSTANTS
  Slots,        \* EC_MAXBUF
  Descriptors,  \* ETH_RX_DESC_CNT
  Attempts,     \* bound: how often a request is sent
  Late          \* bound: exchanges an answer may be behind when it arrives

(* What the theorems assume of them (EtherCATProofs): a slot comes round   *)
(* later than its last answer leaves the receive ring.                     *)
PortAssumption ==
  /\ Late \in Nat \ {0} /\ Attempts \in Nat \ {0}
  /\ Descriptors \in Nat /\ Descriptors >= 2
  /\ Slots \in Nat /\ Slots > 2 * Late + Descriptors + 1

VARIABLES
  port,     \* lastidx, and the slots that are not EC_BUF_EMPTY
  pending,  \* the slots of this exchange not yet waited for, in order
  resends,  \* how often the request may still be sent again
  polled,   \* whether this wait has looked for a frame
  wire,     \* answers on their way; age: exchanges begun since the request
  ring,     \* answers in the receive descriptors
  held,     \* the frame HAL_ETH_ReadData returned, before it is copied
  answer,   \* age of the last answer taken in this exchange
  since     \* exchanges since the port was set up, up to MaxAge
vars == <<port, pending, resends, polled, wire, ring, held, answer, since>>

MaxAge == Late + Descriptors + 1
Frames == [slot: 0..Slots - 1, age: 0..MaxAge]
None == [slot |-> Slots, age |-> 0]
NoAnswer == MaxAge + 1
Idle == pending = <<>>

SetUp == [last |-> 0, busy |-> {}]

Init ==
  /\ port = SetUp /\ pending = <<>> /\ resends = 0 /\ polled = FALSE
  /\ wire = <<>> /\ ring = <<>> /\ held = None
  /\ answer = NoAnswer /\ since = 0

----------------------------------------------------------------------------
\* The next empty slot after the last one; without one, the last one again.
\* Mutant: the search begins at the first slot each time.
getindexLowest(p) ==
  LET free == {i \in 0..Slots - 1 : i \notin p.busy}
  IN IF free = {} THEN p
     ELSE [last |-> Min(free), busy |-> p.busy \cup {Min(free)}]
getindex(p) ==
  LET steps == {k \in 1..Slots : (p.last + k) % Slots \notin p.busy}
      slot == (p.last + Min(steps)) % Slots
  IN IF steps = {} THEN p ELSE [last |-> slot, busy |-> p.busy \cup {slot}]

Older(frames) == [i \in DOMAIN frames |-> [frames[i] EXCEPT !.age = @ + 1]]
Sent(slots) == [i \in DOMAIN slots |-> [slot |-> slots[i], age |-> 0]]

\* No answer is on its way for longer than Late exchanges.
Begin(slots, again) ==
  /\ Idle /\ \A i \in DOMAIN wire : wire[i].age < Late
  /\ pending' = slots /\ resends' = again /\ polled' = FALSE
  /\ wire' = Older(wire) \o Sent(slots) /\ ring' = Older(ring)
  /\ answer' = NoAnswer /\ since' = Min({since + 1, MaxAge})
  /\ UNCHANGED held

\* One frame, or one to read and one to write where LRW is blocked.
SendProcessData ==
  LET one == getindex(port)
      two == getindex(one)
  IN \/ port' = one /\ Begin(<<one.last>>, 0)
     \/ port' = two /\ Begin(<<one.last, two.last>>, 0)

\* ecx_BRD, ecx_FPWR and the like, which differ in what they ask for.
Access ==
  /\ port' = getindex(port)
  /\ Begin(<<port'.last>>, Attempts - 1)

\* The wait for the first pending slot is over and its slot is released.
\* Mutant: a slot that got no answer is kept.
EndWaitKeeping(found) ==
  /\ pending' = Tail(pending) /\ polled' = FALSE /\ resends' = 0
  /\ port' = IF found = NoAnswer THEN port
             ELSE [port EXCEPT !.busy = @ \ {Head(pending)}]
  /\ answer' = IF found = NoAnswer THEN answer ELSE found
EndWait(found) ==
  /\ pending' = Tail(pending) /\ polled' = FALSE /\ resends' = 0
  /\ port' = [port EXCEPT !.busy = @ \ {Head(pending)}]
  /\ answer' = IF found = NoAnswer THEN answer ELSE found

\* The descriptor goes back to the hardware before its frame is copied.
\* Mutant: as long as there is no frame the timer is not looked at.
ReadDataUntimed ==
  /\ ~Idle /\ held = None /\ ring # <<>>
  /\ held' = Head(ring) /\ ring' = Tail(ring)
  /\ UNCHANGED <<port, pending, resends, polled, wire, answer, since>>
ReadData ==
  /\ ~Idle /\ held = None
  /\ \/ ring = <<>> /\ ~polled /\ polled' = TRUE /\ UNCHANGED <<ring, held>>
     \/ /\ ring # <<>> /\ held' = Head(ring) /\ ring' = Tail(ring)
        /\ UNCHANGED polled
  /\ UNCHANGED <<port, pending, resends, wire, answer, since>>

\* The copy: once every descriptor was filled again, the buffer is that of
\* the newest frame.
Copied == IF Len(ring) = Descriptors THEN ring[Descriptors] ELSE held

\* Mutant: any answer will do.
MatchesAny(f) == TRUE
Matches(f) == f.slot = Head(pending)

TakeFrame ==
  /\ held # None /\ held' = None
  /\ IF Matches(Copied) THEN EndWait(Copied.age)
     ELSE polled' = TRUE /\ UNCHANGED <<port, pending, resends, answer>>
  /\ UNCHANGED <<wire, ring, since>>

\* The timer is looked at after each poll.  What is left of the total time
\* decides whether the request is sent again.
Expire ==
  /\ ~Idle /\ held = None /\ polled
  /\ \/ /\ resends > 0 /\ resends' = resends - 1
        /\ wire' = wire \o Sent(<<Head(pending)>>) /\ polled' = FALSE
        /\ UNCHANGED <<port, pending, answer>>
     \/ EndWait(NoAnswer) /\ UNCHANGED wire
  /\ UNCHANGED <<ring, held, since>>

\* The port is closed and set up again; the descriptors are left as they are.
Restart ==
  /\ Idle /\ port' = SetUp /\ since' = 0
  /\ UNCHANGED <<pending, resends, polled, wire, ring, held, answer>>

\* An answer comes back, or is lost on its way or for want of a descriptor.
Arrive ==
  /\ wire # <<>> /\ wire' = Tail(wire)
  /\ \/ Len(ring) < Descriptors /\ ring' = Append(ring, Head(wire))
     \/ UNCHANGED ring
  /\ UNCHANGED <<port, pending, resends, polled, held, answer, since>>

Task == ReadData \/ TakeFrame \/ Expire
Next == SendProcessData \/ Access \/ Task \/ Restart \/ Arrive

\* The task has the highest priority and polls without yielding.
Spec == Init /\ [][Next]_vars /\ WF_vars(Task)

----------------------------------------------------------------------------
TypeOK ==
  /\ port \in [last: 0..Slots - 1, busy: SUBSET (0..Slots - 1)]
  /\ pending \in Seq(0..Slots - 1) /\ Len(pending) <= 2
  /\ resends \in 0..Attempts - 1 /\ polled \in BOOLEAN
  /\ wire \in Seq(Frames) /\ ring \in Seq(Frames) /\ held \in Frames \cup {None}
  /\ answer \in 0..NoAnswer /\ since \in 0..MaxAge

(* The slots in use are those still waited for, each for one frame: no     *)
(* path out of an exchange keeps a slot, so getindex always finds one.     *)
SlotsReturned ==
  /\ port.busy = Range(pending)
  /\ Cardinality(port.busy) = Len(pending)

(* What is taken for the answer of an exchange answers that exchange,      *)
(* however late, often or out of its time other answers come; an answer    *)
(* from before the port was set up again is the only other one it may be,  *)
(* since the numbering starts again then.                                  *)
AnswerIsOwn == answer \in {0, NoAnswer} \/ answer >= since

PortSafe == TypeOK /\ SlotsReturned /\ AnswerIsOwn

(* Every exchange ends, answered or not.                                   *)
ExchangeEnds == ~Idle ~> Idle
=============================================================================
