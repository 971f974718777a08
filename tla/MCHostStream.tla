--------------------------- MODULE MCHostStream ---------------------------
(***************************************************************************)
(* Model checking of HostStream; the .cfg files give the constants.  The   *)
(* view forgets what no later step can tell apart.                         *)
(***************************************************************************)
EXTENDS HostStream

(* Sequence numbers matter relative to the next one, counts relative to    *)
(* the firmware's counter.                                                 *)
RelSeq(s) == (s - nextSeq) % SeqMod
RelCount(c) == (c - taken) % CountMod

(* Generations are only compared for equality, and a new one is new: the   *)
(* order of those that are remembered is enough.                           *)
Age(g) == (traj.generation - g) % GenMod
Starting == sched.state = "ResetAwaitingAck" \/ worker.kind = "RESET"
Remembered ==
  {Age(sched.status.generation)}
    \cup {Age(report[i].generation) : i \in DOMAIN report}
    \cup (IF Starting THEN {Age(sched.genBefore)} ELSE {})
    \cup (IF sched.state = "Streaming" THEN {Age(sched.generation)} ELSE {})
Rank(g) == Cardinality({a \in Remembered : 0 < a /\ a <= Age(g)})

(* A report's sequence number is only compared with that of the RESET      *)
(* which is under way, the last frame sent, and one that does not match it *)
(* never will; the other numbers only matter while a stream is open.       *)
Resetting ==
  sched.state = "ResetAwaitingAck" \/ (worker.kind = "RESET" /\ worker.pc = "book")
Digest(r, answers) ==
  IF Active(r)
  THEN <<r.state, r.latched, Rank(r.generation), r.depth, RelCount(r.count),
         answers /\ r.expected = nextSeq>>
  ELSE <<r.state, r.latched, Rank(r.generation)>>

SchedView ==
  <<[sched EXCEPT
       !.terminal   = IF sched.state = "Finishing" THEN @ ELSE "Holding",
       !.genBefore  = IF Starting THEN Rank(@) ELSE 0,
       !.resetSeq   = 0,
       !.tracking   = @ /\ sched.state = "Streaming",
       !.ahead      = IF sched.state = "Streaming" THEN @ ELSE 0,
       !.lastCount  = IF sched.state = "Streaming" THEN RelCount(@) ELSE 0,
       !.generation = IF sched.state = "Streaming" THEN Rank(@) ELSE 0,
       !.status     = 0],
    Digest(sched.status, Resetting)>>

View ==
  <<SchedView, worker.pc, worker.kind, ctl, comm, mgmt,
    [i \in DOMAIN wire |-> 
       <<wire[i].kind, IF wire[i].kind \in {"RESET", "APPLY"}
                       THEN RelSeq(wire[i].seq) ELSE 0>>],
    traj.state, traj.count, traj.grace,
    IF Active(traj) THEN RelSeq(traj.expected) ELSE 0,
    latched, [i \in DOMAIN report |-> Digest(report[i], Resetting)], lastKind,
    IF RemoteAllowsReset(sched) THEN age.status ELSE 0, age.report>>
=============================================================================
