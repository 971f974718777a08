---------------------------- MODULE CyclicMailbox ----------------------------
(***************************************************************************)
(* The mailboxes of the drives while the bus is operational (ec_main.c,    *)
(* ec_coe.c).  The SDO worker, a task of low priority, queues a request,   *)
(* waits until it is written, then waits for the answer; the EtherCAT task *)
(* calls ecx_mbxhandler after each good cycle with a limit of one message: *)
(* what the drives sent comes first, what the worker queued only when      *)
(* nothing came in.  Both take their buffers from one pool.  The EtherCAT  *)
(* task polls and never yields within a call, so a call is one action;     *)
(* the worker is cut into its critical sections.                           *)
(*                                                                         *)
(* Abstracted: SDO data, which fit one message (ECAT_RUNTIME_SDO_DATA_SIZE *)
(* is 4), and the protocols other than CoE, which the drives do not use.   *)
(***************************************************************************)
EXTENDS Naturals, FiniteSets, Sequences

CONSTANTS
  N,         \* drives with a mailbox
  Objects,   \* <<index, subindex>> of the objects the worker asks for
  PoolSize,  \* EC_MBXPOOLSIZE
  Noisy,     \* drives that may send emergencies
  MaxCalls,  \* bound: SDO calls
  MaxLost    \* bound: datagrams lost on their way out or back

MailboxAssumption ==
  N \in Nat \ {0} /\ PoolSize \in Nat /\ MaxCalls \in Nat /\ MaxLost \in Nat

(* Buffers enough for all: a request and its answer for each call, and one *)
(* more each time a lost read takes a buffer in vain; no emergencies.      *)
PoolIsAmple == PoolSize >= 2 * MaxCalls + MaxLost /\ Noisy = {}

Slaves == 1..N
Buffers == 1..PoolSize
NoBuffer == 0

NoCall == [id |-> 0, slave |-> 0, kind |-> "none", obj |-> <<0, 0>>]
Calls == [id: 1..MaxCalls, slave: Slaves, kind: {"read", "write"}, obj: Objects]
Request(c) == [type |-> "request", call |-> c]
Answer(c) == [type |-> "answer", call |-> c]
EmergencyMessage == [type |-> "emergency", call |-> NoCall]
Messages == [type: {"request", "answer", "emergency"}, call: Calls \cup {NoCall}]

VARIABLES
  free,      \* mbxpool: the empty list, a ring
  content,   \* what was last written into each buffer
  queue,     \* mbxtxqueue, from its tail; a ticket is valid until "remove"
  coembxin,  \* the answer the handler keeps for the worker, one per drive
  rmp,       \* mbxrmpstate: step of the robust mailbox protocol
  last,      \* lastmbxpos: the drive that was served last
  inbox,     \* drive: the request it works on, then the one in SM0
  taken,     \* drive: counter of the last request it took
  outbox,    \* drive: messages for the master, the first one in SM1
  pc, call,  \* worker: where it is in ecx_SDOread or ecx_SDOwrite
  sdop,      \* worker: the buffer SDOp points into
  mbxIn,     \* worker: MbxIn
  result,    \* worker: what the last call returned
  lost, failed  \* datagrams lost; whether a call has failed so far
poolVars == <<free, content>>
deviceVars == <<inbox, taken, outbox>>
workerVars == <<pc, call, sdop, mbxIn, result, failed>>
vars == <<poolVars, queue, coembxin, rmp, last, deviceVars, workerVars, lost>>

Init ==
  /\ free = [i \in Buffers |-> i]
  /\ content = [b \in Buffers |-> EmergencyMessage]
  /\ queue = <<>> /\ last = 1
  /\ coembxin = [s \in Slaves |-> NoBuffer] /\ rmp = [s \in Slaves |-> 0]
  /\ inbox = [s \in Slaves |-> <<>>] /\ outbox = [s \in Slaves |-> <<>>]
  /\ taken = [s \in Slaves |-> 0]
  /\ pc = "idle" /\ call = NoCall /\ sdop = NoBuffer /\ mbxIn = NoBuffer
  /\ result = [ok |-> FALSE, answer |-> EmergencyMessage]
  /\ lost = 0 /\ failed = FALSE

Dropped(b) == IF b = NoBuffer THEN <<>> ELSE <<b>>

----------------------------------------------------------------------------
(* The worker.  One SDO call follows the other.                            *)

(* The preliminary ecx_mbxreceive with a timeout of 0, which takes an      *)
(* answer that is still there out of the way.                              *)
Begin(c) ==
  /\ pc = "idle" /\ c.id = call.id + 1
  /\ call' = c /\ pc' = "get" /\ sdop' = NoBuffer
  /\ mbxIn' = coembxin[c.slave]
  /\ coembxin' = [coembxin EXCEPT ![c.slave] = NoBuffer]
  /\ UNCHANGED <<poolVars, queue, rmp, last, deviceVars, result, failed, lost>>

Return(ok, answer) ==
  /\ pc' = "idle" /\ result' = [ok |-> ok, answer |-> answer]
  /\ failed' = (failed \/ ~ok) /\ mbxIn' = NoBuffer

(* No buffer: the call returns the result of the preliminary receive, and  *)
(* the buffer that one may have brought is not dropped.                    *)
NoMailbox ==
  /\ pc = "get" /\ free = <<>>
  /\ Return(mbxIn # NoBuffer, IF mbxIn = NoBuffer THEN EmergencyMessage
                              ELSE content[mbxIn])
  /\ UNCHANGED <<poolVars, queue, coembxin, rmp, last, deviceVars, call, sdop,
                 lost>>

(* ecx_getmbx, the request, ecx_mbxaddqueue                                *)
Send ==
  /\ pc = "get" /\ free # <<>>
  /\ sdop' = Head(free) /\ free' = Tail(free) /\ pc' = "send"
  /\ content' = [content EXCEPT ![Head(free)] = Request(call)]
  /\ queue' = Append(queue, [slave |-> call.slave, buffer |-> Head(free),
                             state |-> "REQ", remove |-> FALSE])
  /\ UNCHANGED <<coembxin, rmp, last, deviceVars, call, mbxIn, result, failed,
                 lost>>

Ticket == CHOOSE i \in DOMAIN queue : ~queue[i].remove
Written == queue[Ticket].state = "DONE"
(* Mutant: the ticket is given back, the entry is not marked.              *)
GiveTicketOnly == UNCHANGED queue
GiveTicketBack == queue' = [queue EXCEPT ![Ticket].remove = TRUE]

(* ecx_mbxdonequeue, or ecx_mbxexpirequeue that finds the request done     *)
SendDone ==
  /\ pc = "send" /\ Written /\ GiveTicketBack
  /\ pc' = "receive"
  /\ free' = free \o Dropped(mbxIn) /\ mbxIn' = NoBuffer
  /\ UNCHANGED <<content, coembxin, rmp, last, deviceVars, call, sdop, result,
                 failed, lost>>

(* Mutant: what has expired counts as sent.                                *)
SendExpiresAsDone ==
  /\ pc = "send" /\ ~Written /\ GiveTicketBack
  /\ pc' = "receive"
  /\ free' = free \o Dropped(mbxIn) /\ mbxIn' = NoBuffer
  /\ UNCHANGED <<content, coembxin, rmp, last, deviceVars, call, sdop, result,
                 failed, lost>>

(* Mutant: the caller drops the buffer the handler will drop again.        *)
SendExpiresAndDrops ==
  /\ pc = "send" /\ ~Written /\ GiveTicketBack
  /\ Return(FALSE, EmergencyMessage)
  /\ free' = free \o Dropped(mbxIn) \o Dropped(queue[Ticket].buffer)
  /\ UNCHANGED <<content, coembxin, rmp, last, deviceVars, call, sdop, lost>>

(* EC_TIMEOUTTXM passed and ecx_mbxexpirequeue finds the request pending.  *)
SendExpires ==
  /\ pc = "send" /\ ~Written /\ GiveTicketBack
  /\ Return(FALSE, EmergencyMessage) /\ free' = free \o Dropped(mbxIn)
  /\ UNCHANGED <<content, coembxin, rmp, last, deviceVars, call, sdop, lost>>

(* ecx_mbxreceive finds an answer, while waiting or in its last attempt    *)
Receive ==
  /\ pc = "receive" /\ coembxin[call.slave] # NoBuffer
  /\ mbxIn' = coembxin[call.slave] /\ pc' = "compare"
  /\ coembxin' = [coembxin EXCEPT ![call.slave] = NoBuffer]
  /\ UNCHANGED <<poolVars, queue, rmp, last, deviceVars, call, sdop, result,
                 failed, lost>>

(* ECAT_RUNTIME_SDO_RESPONSE_TIMEOUT_US passed and nothing has come.       *)
ReceiveExpires ==
  /\ pc = "receive" /\ coembxin[call.slave] = NoBuffer
  /\ Return(FALSE, EmergencyMessage)
  /\ UNCHANGED <<poolVars, queue, coembxin, rmp, last, deviceVars, call, sdop,
                 lost>>

(* A write compares index and subindex, a read the index only; what it     *)
(* compares with is what its request's buffer holds by now.                *)
Matches ==
  LET asked == content[sdop].call.obj
      got == content[mbxIn].call.obj
  IN got[1] = asked[1] /\ (call.kind = "write" => got[2] = asked[2])

Compare ==
  /\ pc = "compare" /\ Return(Matches, content[mbxIn])
  /\ free' = Append(free, mbxIn)
  /\ UNCHANGED <<content, queue, coembxin, rmp, last, deviceVars, call, sdop,
                 lost>>

Worker ==
  \/ \E c \in Calls : Begin(c)
  \/ NoMailbox \/ Send \/ SendDone \/ SendExpires
  \/ Receive \/ ReceiveExpires \/ Compare

----------------------------------------------------------------------------
(* The EtherCAT task: ecx_mbxhandler with ECAT_MBX_SERVICE_LIMIT, 1.       *)

(* Drives whose turn counts against the limit: the robust protocol is      *)
(* under way, or their mailbox is full and there is a buffer for it.       *)
Incoming == {s \in Slaves : rmp[s] > 0 \/ (outbox[s] # <<>> /\ free # <<>>)}

(* Mutant: each call starts again at the first drive.                      *)
FirstInTurn == CHOOSE s \in Incoming : \A t \in Incoming : s <= t

(* The first of them after the drive that was served last                  *)
NextInTurn ==
  LET Distance(s) == (s + N - last - 1) % N
  IN CHOOSE s \in Incoming : \A t \in Incoming : Distance(s) <= Distance(t)

Lose == lost < MaxLost /\ lost' = lost + 1

(* One step of the robust mailbox protocol: ask for the state of SM1, ask  *)
(* for a repetition, wait for its acknowledgement.                         *)
Repeat(s) ==
  /\ rmp[s] > 0
  /\ \/ rmp' = [rmp EXCEPT ![s] = (@ + 1) % 4] /\ UNCHANGED lost
     \/ Lose /\ UNCHANGED rmp
  /\ UNCHANGED <<poolVars, coembxin, deviceVars>>

(* Mutant: what a failed read brought is kept, and will be repeated.       *)
ReadFailsAndKeeps(s) ==
  LET b == Head(free)
  IN /\ rmp[s] = 0 /\ Lose
     /\ rmp' = [rmp EXCEPT ![s] = 1]
     /\ content' = [content EXCEPT ![b] = Head(outbox[s])]
     /\ IF coembxin[s] = NoBuffer
        THEN coembxin' = [coembxin EXCEPT ![s] = b] /\ free' = Tail(free)
        ELSE UNCHANGED coembxin /\ free' = Append(Tail(free), b)
     /\ UNCHANGED deviceVars

(* The read of a full mailbox fails: its content will be repeated.         *)
ReadFails(s) ==
  /\ rmp[s] = 0 /\ Lose
  /\ rmp' = [rmp EXCEPT ![s] = 1]
  /\ free' = Append(Tail(free), Head(free))
  /\ UNCHANGED <<content, coembxin, deviceVars>>

(* Mutant: an answer that finds the place taken is not put back.           *)
ReadKeepsOverrun(s) ==
  LET b == Head(free)
      message == Head(outbox[s])
  IN /\ rmp[s] = 0
     /\ content' = [content EXCEPT ![b] = message]
     /\ outbox' = [outbox EXCEPT ![s] = Tail(@)]
     /\ IF message.type = "answer" /\ coembxin[s] = NoBuffer
        THEN coembxin' = [coembxin EXCEPT ![s] = b] /\ free' = Tail(free)
        ELSE UNCHANGED coembxin /\ free' = Tail(free)
     /\ UNCHANGED <<rmp, lost, inbox, taken>>

(* A CoE answer is kept if the place is free; anything else goes back.     *)
Read(s) ==
  LET b == Head(free)
      message == Head(outbox[s])
  IN /\ rmp[s] = 0
     /\ content' = [content EXCEPT ![b] = message]
     /\ outbox' = [outbox EXCEPT ![s] = Tail(@)]
     /\ IF message.type = "answer" /\ coembxin[s] = NoBuffer
        THEN coembxin' = [coembxin EXCEPT ![s] = b] /\ free' = Tail(free)
        ELSE UNCHANGED coembxin /\ free' = Append(Tail(free), b)
     /\ UNCHANGED <<rmp, lost, inbox, taken>>

(* ecx_mbxinhandler                                                        *)
InHandler ==
  /\ Incoming # {}
  /\ last' = NextInTurn
  /\ Repeat(NextInTurn) \/ ReadFails(NextInTurn) \/ Read(NextInTurn)
  /\ UNCHANGED <<queue, workerVars>>

(* A drive takes a request unless its mailbox is still full, in which case *)
(* the datagram comes back with a working counter of 0; it drops one whose *)
(* counter it has just seen.  ok: the datagram came back and was counted.  *)
WriteMailbox(c, ok) ==
  \/ /\ inbox[c.slave] # <<>> /\ ~ok /\ UNCHANGED <<inbox, taken, lost>>
  \/ /\ Len(inbox[c.slave]) < 2 /\ (IF ok THEN UNCHANGED lost ELSE Lose)
     /\ inbox' = IF taken[c.slave] = c.id THEN inbox
                 ELSE [inbox EXCEPT ![c.slave] = Append(@, c)]
     /\ taken' = [taken EXCEPT ![c.slave] = c.id]
  \/ /\ ~ok /\ Lose /\ UNCHANGED <<inbox, taken>>

(* Mutant: what was given up is still pending.                             *)
PendingThoughRemoved(e) == e.state # "DONE"
Pending(e) == ~e.remove /\ e.state # "DONE"
FirstPending == CHOOSE i \in DOMAIN queue :
  Pending(queue[i]) /\ \A j \in 1..(i - 1) : ~Pending(queue[j])
(* The numbers of K in their order                                         *)
InOrder(K) == CHOOSE f \in [1..Cardinality(K) -> K] :
  \A i, j \in 1..Cardinality(K) : i < j => f[i] < f[j]

(* Mutant: only entries that still have a buffer leave the queue.          *)
KeptOnceWritten(entries) ==
  LET order == InOrder({i \in DOMAIN entries :
                          ~entries[i].remove \/ entries[i].buffer = NoBuffer})
  IN [j \in DOMAIN order |-> entries[order[j]]]
Kept(entries) ==
  LET order == InOrder({i \in DOMAIN entries : ~entries[i].remove})
  IN [j \in DOMAIN order |-> entries[order[j]]]
BuffersOf(entries) ==
  LET order == InOrder({i \in DOMAIN entries :
                          entries[i].remove /\ entries[i].buffer # NoBuffer})
  IN [j \in DOMAIN order |-> entries[order[j]].buffer]

(* ecx_mbxouthandler.  Entries to be removed are dropped and written ones  *)
(* turned to the head until one is pending; that one is written and turned *)
(* to the head too.                                                        *)
Tidy ==
  /\ \A i \in DOMAIN queue : ~Pending(queue[i])
  /\ queue' = Kept(queue) /\ free' = free \o BuffersOf(queue)
  /\ UNCHANGED <<inbox, taken, lost>>

(* Mutant: the pool is a stack, the buffer just written is the next.      *)
WriteFirstOnStack ==
  /\ \E i \in DOMAIN queue : Pending(queue[i])
  /\ LET before == SubSeq(queue, 1, FirstPending - 1)
         after == SubSeq(queue, FirstPending + 1, Len(queue))
         entry == queue[FirstPending]
     IN \E ok \in BOOLEAN :
          /\ WriteMailbox(content[entry.buffer].call, ok)
          /\ queue' = after \o Kept(before) \o
               <<IF ok THEN [entry EXCEPT !.state = "DONE", !.buffer = NoBuffer]
                 ELSE [entry EXCEPT !.state = "FAIL"]>>
          /\ free' = (IF ok THEN <<entry.buffer>> ELSE <<>>) \o free
                       \o BuffersOf(before)

WriteFirst ==
  /\ \E i \in DOMAIN queue : Pending(queue[i])
  /\ LET before == SubSeq(queue, 1, FirstPending - 1)
         after == SubSeq(queue, FirstPending + 1, Len(queue))
         entry == queue[FirstPending]
     IN \E ok \in BOOLEAN :
          /\ WriteMailbox(content[entry.buffer].call, ok)
          /\ queue' = after \o Kept(before) \o
               <<IF ok THEN [entry EXCEPT !.state = "DONE", !.buffer = NoBuffer]
                 ELSE [entry EXCEPT !.state = "FAIL"]>>
          /\ free' = free \o BuffersOf(before)
                          \o (IF ok THEN <<entry.buffer>> ELSE <<>>)

OutHandler ==
  /\ Incoming = {}
  /\ Tidy \/ WriteFirst
  /\ UNCHANGED <<content, coembxin, rmp, last, outbox, workerVars>>

Handler == InHandler \/ OutHandler

----------------------------------------------------------------------------
(* The drives, which answer as late as they like.                          *)
Serve(s) ==
  /\ inbox[s] # <<>> /\ Len(outbox[s]) < 2
  /\ outbox' = [outbox EXCEPT ![s] = Append(@, Answer(Head(inbox[s])))]
  /\ inbox' = [inbox EXCEPT ![s] = Tail(@)]
  /\ UNCHANGED <<poolVars, queue, coembxin, rmp, last, taken, workerVars, lost>>

Emergency(s) ==
  /\ s \in Noisy /\ outbox[s] = <<>>
  /\ outbox' = [outbox EXCEPT ![s] = <<EmergencyMessage>>]
  /\ UNCHANGED <<poolVars, queue, coembxin, rmp, last, inbox, taken, workerVars,
                 lost>>

Next ==
  \/ Worker \/ Handler
  \/ \E s \in Slaves : Serve(s) \/ Emergency(s)

Spec == Init /\ [][Next]_vars

(* A good cycle follows a bad one within three, or the bus is given up,    *)
(* and both timeouts of the worker end.                                    *)
SendEnds == SendDone \/ SendExpires
ReceiveEnds == Receive \/ ReceiveExpires
Prepare == NoMailbox \/ Send
FairSpec ==
  /\ Spec /\ WF_vars(Handler) /\ WF_vars(Prepare) /\ WF_vars(SendEnds)
  /\ WF_vars(ReceiveEnds) /\ WF_vars(Compare)

----------------------------------------------------------------------------
Entries == [slave: Slaves, buffer: Buffers \cup {NoBuffer},
            state: {"REQ", "FAIL", "DONE"}, remove: BOOLEAN]

(* Every variable keeps its type; no ring holds more than the pool has, a  *)
(* request is in the queue without "remove" only while its call waits for  *)
(* it, and an entry without a buffer is one that was written.              *)
TypeOK ==
  /\ free \in Seq(Buffers) /\ Len(free) <= PoolSize
  /\ content \in [Buffers -> Messages]
  /\ queue \in Seq(Entries) /\ Len(queue) <= PoolSize
  /\ Cardinality({i \in DOMAIN queue : ~queue[i].remove})
       = (IF pc = "send" THEN 1 ELSE 0)
  /\ \A i \in DOMAIN queue :
       queue[i].buffer = NoBuffer <=> queue[i].state = "DONE"
  /\ coembxin \in [Slaves -> Buffers \cup {NoBuffer}]
  /\ rmp \in [Slaves -> 0..3] /\ last \in Slaves
  /\ taken \in [Slaves -> 0..MaxCalls]
  /\ \A s \in Slaves :
       /\ inbox[s] \in Seq(Calls) /\ Len(inbox[s]) <= 2
       /\ outbox[s] \in Seq(Messages) /\ Len(outbox[s]) <= 2
  /\ pc \in {"idle", "get", "send", "receive", "compare"}
  /\ call \in Calls \cup {NoCall}
  /\ sdop \in Buffers \cup {NoBuffer} /\ mbxIn \in Buffers \cup {NoBuffer}
  /\ result \in [ok: BOOLEAN, answer: Messages]
  /\ lost \in 0..MaxLost /\ failed \in BOOLEAN

Holders(b) ==
  LET places == free \o [i \in DOMAIN queue |-> queue[i].buffer]
                     \o coembxin \o <<mbxIn>>
  IN Cardinality({i \in DOMAIN places : places[i] = b})

(* Buffers are neither lost nor handed out twice: each one is in exactly   *)
(* one place, the pool, the transmit queue, a drive's answer or the        *)
(* worker's hands, however sends expire and answers come late or twice.    *)
BuffersConserved == \A b \in Buffers : Holders(b) = 1

(* Also when the pool is used up, where a call that finds no buffer loses  *)
(* the one it holds, no buffer is in two places: what one task fills is    *)
(* never filled by the other at the same time.                             *)
NoBufferTwice == \A b \in Buffers : Holders(b) <= 1

(* A request whose call has given it up is never written to a drive        *)
(* afterwards (ecx_mbxexpirequeue takes it out of the handler's reach):    *)
(* only the call that waits for its own request has one written.           *)
NoLateWrite ==
  [][\A s \in Slaves : taken'[s] # taken[s] =>
       pc = "send" /\ s = call.slave /\ taken'[s] = call.id]_vars

(* The worker waits for an answer only when the drive has taken its        *)
(* request, so that a silent drive is what a receive timeout means.        *)
SentMeansTaken ==
  pc \in {"receive", "compare"} => taken[call.slave] = call.id

(* As long as no call has failed, every call gets the answer to its own    *)
(* request: only a call that was given up leaves an answer behind.         *)
OwnUntilFailure ==
  pc = "idle" /\ ~failed /\ call # NoCall => result.answer = Answer(call)

(* The worker compares an answer with the request it sent: the buffer of   *)
(* the request, which is back in the pool by then, was not used again.     *)
RequestIsKept == pc = "compare" => content[sdop] = Request(call)

(* The five together: what a caller of the mailbox may rely on.            *)
MailboxSafe ==
  TypeOK /\ BuffersConserved /\ SentMeansTaken /\ OwnUntilFailure /\ RequestIsKept

(* Unless a noisy drive floods the handler, the transmit queue drains:     *)
(* what was written or given up leaves it, and its buffer is free again.   *)
QueueDrains == []<>(queue = <<>> \/ \E s \in Noisy : outbox[s] # <<>>)

(* The limit of one message a cycle does not let a noisy drive keep the    *)
(* handler from the others: what a quiet drive has to say is read.         *)
QuietIsRead ==
  \A s \in Slaves \ Noisy : outbox[s] # <<>> ~> outbox[s] = <<>>
=============================================================================
