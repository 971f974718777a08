----------------------------- MODULE EcatMaster -----------------------------
(***************************************************************************)
(* ECAT_Process: how the EtherCAT master of the firmware (ECAT.c, and the  *)
(* state changes in ECAT_runtime.c) takes its slaves from the first link   *)
(* to OPERATIONAL, and what it then believes of them.  The slaves change   *)
(* state when they like, fall back, stop answering and answer again; any   *)
(* frame may be lost.  A call of ECAT_Process that waits for the bus is    *)
(* split where it does.                                                    *)
(*                                                                         *)
(* Abstracted: the work of SOEM between two state changes is that it       *)
(* succeeds or fails, a drive's layout is right or wrong (PdoMapping), and *)
(* the drive sequence in OPERATIONAL continues or fails (DriveEnable).     *)
(***************************************************************************)
EXTENDS Naturals

CONSTANTS
  Slaves,        \* the slaves expected on the bus: ECAT_EXPECTED_SLAVES
  ProbeCount,    \* ECAT_PROBE_COUNT
  WaitCycles,    \* ECAT_RUNTIME_OP_WAIT_CYCLES
  StableCycles,  \* ECAT_RUNTIME_OP_STABLE_CYCLES
  FaultLimit     \* ECAT_RUNTIME_WKC_FAULT_LIMIT

(* What the theorems assume of them (EtherCATProofs).                      *)
MasterAssumption ==
  /\ ProbeCount \in Nat \ {0} /\ FaultLimit \in Nat \ {0}
  /\ StableCycles \in Nat \ {0} /\ WaitCycles \in Nat

VARIABLES
  state,    \* ECAT_ctx.state
  pc,       \* where a call of ECAT_Process waits for the bus
  open,     \* context_open
  ready,    \* cyclic_mbx_service_ready
  probes,   \* probe_attempt_count
  cycle, stable,  \* the locals of ECAT_RuntimeWaitForOpStable
  bad,      \* bad_wkc_continuous
  seen,     \* slavelist[].state: what was last read of every slave
  input,    \* whether the IOmap holds an input of the slave, or still zeros
  output,   \* the RxPDO: not prepared, or safe with a target from the input
  al,       \* the state of every slave
  ctl,      \* the state asked of it, not yet reached or refused
  present,  \* the slaves that answer
  asked,    \* history: the last state that was asked of all slaves
  told      \* history: the slaves that a request of this master has reached
master == <<state, pc, open, ready, probes, cycle, stable, bad, seen, input, output>>
bus == <<al, ctl, present, asked, told>>
vars == <<master, bus>>

AlStates == {"INIT", "PREOP", "SAFEOP", "OP"}
MasterStates == {"WAIT_LINK", "SOEM_INIT", "PROBE", "DISCOVER", "PREOP", "SDO", "PDO_ASSIGN",
                 "MAP", "SAFEOP", "OP_REQUEST", "OPERATIONAL", "ERROR"}

(* ECAT_state_transitions, in the order of its rows.                       *)
Transitions ==
  { <<"WAIT_LINK", "LINK_UP", "SOEM_INIT">>, <<"SOEM_INIT", "SOEM_INIT_OK", "PROBE">>,
    <<"PROBE", "PROBE_OK", "DISCOVER">>, <<"DISCOVER", "DISCOVER_OK", "PREOP">>,
    <<"PREOP", "PREOP_OK", "SDO">>, <<"SDO", "SDO_DONE", "PDO_ASSIGN">>,
    <<"PDO_ASSIGN", "PDO_ASSIGN_OK", "MAP">>, <<"MAP", "MAP_OK", "SAFEOP">>,
    <<"SAFEOP", "SAFEOP_OK", "OP_REQUEST">>, <<"OP_REQUEST", "OP_STABLE", "OPERATIONAL">> }

Init ==
  /\ state = "WAIT_LINK" /\ pc = "top" /\ open = FALSE /\ ready = FALSE
  /\ probes = 0 /\ cycle = 0 /\ stable = 0 /\ bad = 0
  /\ seen = [s \in Slaves |-> "none"]
  /\ input = [s \in Slaves |-> "zero"] /\ output = [s \in Slaves |-> "none"]
  /\ al \in [Slaves -> AlStates] /\ ctl \in [Slaves -> AlStates \cup {"none"}] /\ present \in SUBSET Slaves
  /\ asked = "none" /\ told = {}

----------------------------------------------------------------------------
(* The bus, as SOEM sees it.                                               *)

(* A request overwrites the one before it in every slave that it reaches.  *)
Reach(reached, target) ==
  /\ ctl' = [s \in Slaves |-> IF s \in reached THEN target ELSE ctl[s]]
  /\ told' = told \cup reached

(* ecx_writestate(context, 0): a broadcast, which may be lost anywhere on  *)
(* its way from slave to slave.                                            *)
Broadcast(target) == asked' = target /\ \E reached \in SUBSET present : Reach(reached, target)

(* ecx_readstate: a slave that does not answer reads as no state at all.   *)
ReadStates(answering) == seen' = [s \in Slaves |-> IF s \in answering THEN al[s] ELSE "none"]
Answers == {{}, present}

(* ecx_statecheck(context, 0, ...): the states of those who answer, or-ed. *)
AggregateIs(target) == present # {} /\ \A s \in present : al[s] = target

(* A working counter is complete if every slave handled the process data,  *)
(* which a slave in SAFE-OP does as well as one in OP.                     *)
Handling == {s \in present : al[s] \in {"SAFEOP", "OP"}}
Complete == Handling = Slaves
Received == input' = [s \in Slaves |-> IF s \in Handling THEN "actual" ELSE input[s]]

----------------------------------------------------------------------------
(* ECAT_EnterError; the worker is idle before the runtime has jobs for it, *)
(* and BrakeRelease models the closing when it has.                        *)
EnterError == state' = "ERROR" /\ pc' = "top" /\ ready' = FALSE /\ open' = FALSE

Transition(event) ==
  LET next == {s \in MasterStates : <<state, event, s>> \in Transitions} IN
  IF next = {} THEN EnterError
  ELSE state' \in next /\ pc' = "top" /\ UNCHANGED <<open, ready>>
Stay == UNCHANGED <<state, pc, open, ready>>
Wait(where) == pc' = where /\ UNCHANGED <<state, open, ready>>

In(s, where) == state = s /\ pc = where

WaitLink ==
  /\ In("WAIT_LINK", "top") /\ Transition("LINK_UP")
  /\ UNCHANGED <<probes, cycle, stable, bad, seen, input, output, bus>>

StepSoemInit ==
  /\ In("SOEM_INIT", "top")
  /\ input' = [s \in Slaves |-> "zero"]
  /\ EnterError \/ (state' = "PROBE" /\ pc' = "top" /\ open' = TRUE /\ UNCHANGED ready)
  /\ UNCHANGED <<probes, cycle, stable, bad, seen, output, bus>>

(* One BRD a call; its answer may be lost.                                 *)
StepProbe ==
  /\ In("PROBE", "top") /\ probes' = probes + 1
  /\ \E answering \in Answers :
       \/ answering = Slaves /\ Transition("PROBE_OK")
       \/ answering # Slaves /\ probes' < ProbeCount /\ Stay
       \/ answering # Slaves /\ probes' >= ProbeCount /\ EnterError
  /\ UNCHANGED <<cycle, stable, bad, seen, input, output, bus>>

(* The first half of ecx_config_init: INIT is asked of all and the slaves  *)
(* are counted.  Nobody looks whether the request arrived.                 *)
DetectSlaves ==
  /\ In("DISCOVER", "top") /\ Broadcast("INIT")
  /\ \E answering \in Answers :
       \/ answering = {} /\ EnterError
       \/ answering # {} /\ Wait(IF answering = Slaves THEN "configure" ELSE "mismatch")
  /\ UNCHANGED <<probes, cycle, stable, bad, seen, input, output, al, present>>

(* The second half: each slave that was counted is waited for in INIT, in  *)
(* vain or not, and then asked for PRE-OP by itself.                       *)
ConfigInit == UNCHANGED asked /\ \E reached \in SUBSET present : Reach(reached, "PREOP")

(* Only the count decides, after all of it.                                *)
StepDiscover ==
  /\ state = "DISCOVER" /\ pc \in {"configure", "mismatch"} /\ ConfigInit
  /\ IF pc = "configure" THEN Transition("DISCOVER_OK") ELSE EnterError
  /\ UNCHANGED <<probes, cycle, stable, bad, seen, input, output, al, present>>

PreOpRequest ==
  /\ In("PREOP", "top") /\ Broadcast("PREOP") /\ Wait("check")
  /\ UNCHANGED <<probes, cycle, stable, bad, seen, input, output, al, present>>

(* Mutant: the aggregate of those who answer is taken for all slaves.      *)
PreOpCheckAggregate ==
  /\ In("PREOP", "check")
  /\ \E answering \in Answers : ReadStates(answering)
  /\ IF AggregateIs("PREOP") THEN Transition("PREOP_OK") ELSE EnterError
  /\ UNCHANGED <<probes, cycle, stable, bad, input, output, bus>>

(* The per-slave check is made on what was read after the request; it is   *)
(* the first that looks where the slaves really are.                       *)
AllSeen(target) == \A s \in Slaves : seen'[s] = target
PreOpCheck ==
  /\ In("PREOP", "check")
  /\ \E answering \in Answers : ReadStates(answering)
  /\ IF AllSeen("PREOP") THEN Transition("PREOP_OK") ELSE EnterError
  /\ UNCHANGED <<probes, cycle, stable, bad, input, output, bus>>

(* Reading the identities and the present assignment decides nothing, but  *)
(* that every slave speaks CoE.                                            *)
ReadSdo(s, event) ==
  /\ In(s, "top") /\ (Transition(event) \/ EnterError)
  /\ UNCHANGED <<probes, cycle, stable, bad, seen, input, output, bus>>
ReadBasicSdoInfo == ReadSdo("SDO", "SDO_DONE")
StepPdoAssignment == ReadSdo("PDO_ASSIGN", "PDO_ASSIGN_OK")

(* Mutant: SOEM is left to ask for SAFE-OP when it has mapped a slave.     *)
StepPdoConfigAutomatic ==
  /\ In("MAP", "top")
  /\ \/ /\ present = Slaves /\ \A s \in Slaves : al[s] = "PREOP"
        /\ state' = "SAFEOP" /\ pc' = "top" /\ ready' = TRUE /\ UNCHANGED open
     \/ EnterError
  /\ Broadcast("SAFEOP")
  /\ input' = [s \in Slaves |-> "zero"]
  /\ UNCHANGED <<probes, cycle, stable, bad, seen, output, al, present>>

(* The IOmap is cleared and laid out, and the layout of every slave read   *)
(* back; with manualstatechange SOEM asks for no state.  The mailboxes are *)
(* read cyclically from here on.                                           *)
StepPdoConfig ==
  /\ In("MAP", "top")
  /\ \/ /\ present = Slaves /\ \A s \in Slaves : al[s] = "PREOP"
        /\ state' = "SAFEOP" /\ pc' = "top" /\ ready' = TRUE /\ UNCHANGED open
     \/ EnterError
  /\ input' = [s \in Slaves |-> "zero"]
  /\ UNCHANGED <<probes, cycle, stable, bad, seen, output, bus>>

(* ECAT_RuntimeEnterSafeOp, up to the request, to its answer, and the      *)
(* exchange, whose working counter is only logged.                         *)
SafeOpRequest ==
  /\ In("SAFEOP", "top")
  /\ \E answering \in Answers : ReadStates(answering)
  /\ IF AllSeen("PREOP") THEN Broadcast("SAFEOP") /\ Wait("check")
     ELSE EnterError /\ UNCHANGED <<ctl, asked, told>>
  /\ UNCHANGED <<probes, cycle, stable, bad, input, output, al, present>>

SafeOpCheck ==
  /\ In("SAFEOP", "check")
  /\ (AggregateIs("SAFEOP") /\ Wait("exchange")) \/ EnterError
  /\ \E answering \in Answers : ReadStates(answering)
  /\ UNCHANGED <<probes, cycle, stable, bad, input, output, bus>>

SafeOpExchange ==
  /\ In("SAFEOP", "exchange")
  /\ Received \/ UNCHANGED input
  /\ output' = [s \in Slaves |-> IF input'[s] = "actual" THEN "safe" ELSE "safe at zero"]
  /\ Transition("SAFEOP_OK") \/ EnterError
  /\ UNCHANGED <<probes, cycle, stable, bad, seen, bus>>

(* ECAT_RuntimeRequestOp: the safe outputs are sent ahead, to whoever      *)
(* answers, and the request follows.                                       *)
PreloadSafeOutputs ==
  /\ In("OP_REQUEST", "top")
  /\ \/ Handling # {} /\ Received /\ Broadcast("OP") /\ Wait("wait")
     \/ EnterError /\ UNCHANGED <<input, ctl, asked, told>>
  /\ cycle' = 0 /\ stable' = 0
  /\ UNCHANGED <<probes, bad, seen, output, al, present>>

(* One cycle of ECAT_RuntimeWaitForOpStable; either frame may be lost.     *)
OpWaitCycle ==
  /\ In("OP_REQUEST", "wait") /\ stable < StableCycles /\ cycle < WaitCycles
  /\ cycle' = cycle + 1
  /\ \/ Complete /\ AggregateIs("OP") /\ stable' = stable + 1 /\ Received
     \/ stable' = 0 /\ (Received \/ UNCHANGED input)
  /\ Stay /\ UNCHANGED <<probes, bad, seen, output, bus>>

(* Mutant: a slave that is not in OP ends the request where it is.         *)
OpWaitedAbandon ==
  /\ In("OP_REQUEST", "wait") /\ stable >= StableCycles
  /\ \E answering \in Answers : ReadStates(answering)
  /\ IF AllSeen("OP") THEN Transition("OP_STABLE") ELSE EnterError
  /\ bad' = IF AllSeen("OP") THEN 0 ELSE bad
  /\ UNCHANGED <<probes, cycle, stable, input, output, bus>>

(* Mutant: the aggregate is taken for every slave's own state.             *)
OpWaitedAggregate ==
  /\ In("OP_REQUEST", "wait") /\ stable >= StableCycles
  /\ \E answering \in Answers : ReadStates(answering)
  /\ Transition("OP_STABLE") /\ bad' = 0
  /\ UNCHANGED <<probes, cycle, stable, input, output, bus>>

(* The aggregate was stable: every slave is now read for itself.           *)
OpWaited ==
  /\ In("OP_REQUEST", "wait") /\ stable >= StableCycles
  /\ \E answering \in Answers : ReadStates(answering)
  /\ IF AllSeen("OP") THEN Transition("OP_STABLE") ELSE Wait("fallback")
  /\ bad' = IF AllSeen("OP") THEN 0 ELSE bad
  /\ UNCHANGED <<probes, cycle, stable, input, output, bus>>

(* Mutant: it is waited as long as it takes.                               *)
OpTimedOutNever ==
  /\ In("OP_REQUEST", "wait") /\ stable < StableCycles /\ cycle >= WaitCycles
  /\ cycle' = 0 /\ Stay
  /\ UNCHANGED <<probes, stable, bad, seen, input, output, bus>>

OpTimedOut ==
  /\ In("OP_REQUEST", "wait") /\ stable < StableCycles /\ cycle >= WaitCycles
  /\ Wait("fallback")
  /\ UNCHANGED <<probes, cycle, stable, bad, seen, input, output, bus>>

(* ECAT_RuntimeFallbackSafeOp asks once and looks at no result.            *)
FallbackSafeOp ==
  /\ In("OP_REQUEST", "fallback") /\ Broadcast("SAFEOP") /\ EnterError
  /\ \E answering \in Answers : ReadStates(answering)
  /\ UNCHANGED <<probes, cycle, stable, bad, input, output, al, present>>

(* A cycle in OPERATIONAL.  A good one services the mailboxes, unless the  *)
(* drive sequence fails; a bad one is tolerated up to a limit, if the      *)
(* drive sequence can be rolled back.                                      *)
MailboxServiced == open /\ ready
(* Mutant: bad cycles are counted no further than the limit.               *)
StepOperationalTolerant ==
  /\ In("OPERATIONAL", "top")
  /\ \/ Complete /\ Received /\ bad' = 0
     \/ UNCHANGED input /\ bad' = IF bad + 1 < FaultLimit THEN bad + 1 ELSE bad
  /\ Stay /\ UNCHANGED <<probes, cycle, stable, seen, output, bus>>

StepOperational ==
  /\ In("OPERATIONAL", "top")
  /\ \/ /\ Complete /\ Received /\ bad' = 0
        /\ (MailboxServiced /\ Stay) \/ EnterError
     \/ /\ Received \/ UNCHANGED input
        /\ bad' = bad + 1
        /\ (bad' < FaultLimit /\ Stay) \/ EnterError
  /\ UNCHANGED <<probes, cycle, stable, seen, output, bus>>

(* Mutant: a snapshot is given as soon as there is a context.              *)
SnapshotEarly == open /\ bad = 0

(* When ECAT_GetFeedbackSnapshot has something to report.                  *)
SnapshotAvailable == state = "OPERATIONAL" /\ open /\ bad = 0

Process ==
  \/ WaitLink \/ StepSoemInit \/ StepProbe \/ DetectSlaves \/ StepDiscover
  \/ PreOpRequest \/ PreOpCheck \/ ReadBasicSdoInfo \/ StepPdoAssignment \/ StepPdoConfig
  \/ SafeOpRequest \/ SafeOpCheck \/ SafeOpExchange
  \/ PreloadSafeOutputs \/ OpWaitCycle \/ OpWaited \/ OpTimedOut \/ FallbackSafeOp
  \/ StepOperational

----------------------------------------------------------------------------
(* The slaves.                                                             *)
Follows ==
  [INIT |-> {"PREOP"}, PREOP |-> {"INIT", "SAFEOP"}, SAFEOP |-> {"INIT", "PREOP", "OP"},
   OP |-> {"INIT", "PREOP", "SAFEOP"}]

(* A slave reaches the state asked of it, or refuses it.                   *)
Obey(s) ==
  /\ ctl[s] # "none" /\ ctl' = [ctl EXCEPT ![s] = "none"]
  /\ \/ ctl[s] \in Follows[al[s]] /\ al' = [al EXCEPT ![s] = ctl[s]]
     \/ UNCHANGED al
  /\ UNCHANGED <<present, asked, told, master>>

(* It leaves OP for an error of its own, or starts anew.                   *)
Fall(s) ==
  /\ \/ al[s] = "OP" /\ al' = [al EXCEPT ![s] = "SAFEOP"]
     \/ al[s] # "INIT" /\ al' = [al EXCEPT ![s] = "INIT"]
  /\ ctl' = [ctl EXCEPT ![s] = "none"] /\ UNCHANGED <<present, asked, told, master>>

(* It stops answering, or answers again.                                   *)
Vanish(s) == present' = present \ {s} /\ s \in present /\ UNCHANGED <<al, ctl, asked, told, master>>
Return(s) == present' = present \cup {s} /\ s \notin present /\ UNCHANGED <<al, ctl, asked, told, master>>

Slave(s) == Obey(s) \/ Fall(s) \/ Vanish(s) \/ Return(s)
Next == Process \/ \E s \in Slaves : Slave(s)

(* The task runs; the bus owes nothing.  WAIT_LINK waits for a cable.      *)
Fairness == WF_vars(state # "WAIT_LINK" /\ Process)
Spec == Init /\ [][Next]_vars
FairSpec == Spec /\ Fairness

----------------------------------------------------------------------------
TypeOK ==
  /\ state \in MasterStates /\ pc \in {"top", "configure", "mismatch", "check", "exchange", "wait", "fallback"}
  /\ open \in BOOLEAN /\ ready \in BOOLEAN /\ probes \in 0..ProbeCount
  /\ cycle \in 0..WaitCycles /\ stable \in 0..StableCycles /\ bad \in 0..FaultLimit
  /\ seen \in [Slaves -> AlStates \cup {"none"}]
  /\ input \in [Slaves -> {"zero", "actual"}]
  /\ output \in [Slaves -> {"none", "safe", "safe at zero"}]
  /\ al \in [Slaves -> AlStates] /\ ctl \in [Slaves -> AlStates \cup {"none"}]
  /\ present \subseteq Slaves /\ asked \in AlStates \cup {"none"}
  /\ told \subseteq Slaves

(* No slave is ahead of the master, whatever it was doing when the master  *)
(* started and however many requests are lost.  While the layouts are read *)
(* and rewritten none runs, and none exchanges process data but one that   *)
(* heard nothing of this master yet and follows what was asked of it       *)
(* before.  None is in OP before the safe outputs of all are prepared.     *)
Configuring == state \in {"SDO", "PDO_ASSIGN", "MAP"} \/ In("SAFEOP", "top")
SlavesFollow ==
  /\ Configuring =>
       \A s \in Slaves : al[s] \in {"INIT", "PREOP"} \/ (al[s] = "SAFEOP" /\ s \notin told)
  /\ state \in {"SAFEOP", "OP_REQUEST", "OPERATIONAL"} =>
       \A s \in Slaves : al[s] = "OP" => \A t \in Slaves : output[t] # "none"

(* The master is in OPERATIONAL only after every slave was read in OP for  *)
(* itself while its mailboxes were served, and no cycle of it can find the *)
(* "cyclic mailbox service invariant" broken.                              *)
OperationalProven ==
  [][state' = "OPERATIONAL" =>
       /\ MailboxServiced'
       /\ state # "OPERATIONAL" => \A s \in Slaves : s \in present /\ al[s] = "OP"]_vars

(* What ECAT_GetFeedbackSnapshot hands to the CAN bus never holds the      *)
(* zeros of a cleared IOmap, although the exchange in SAFE-OP may have     *)
(* been lost unnoticed.                                                    *)
SnapshotIsReal == SnapshotAvailable => \A s \in Slaves : input[s] = "actual"

(* Types, and the two together: what every state of the start shows.       *)
MasterSafe == TypeOK /\ SlavesFollow /\ SnapshotIsReal

(* When OP was asked for and not reached, SAFE-OP is asked for before      *)
(* ERROR (ECAT.c:24): the slaves are not left with a request to run.       *)
FailureFallsBack ==
  [][state = "OP_REQUEST" /\ state' = "ERROR" => asked' # "OP"]_vars

(* The two together: how OPERATIONAL is entered, and how it is missed.     *)
StartIsProven == OperationalProven /\ FailureFallsBack

(* Once there is a link, the start comes to a verdict, whatever the bus    *)
(* does; and a slave that is gone for good ends OPERATIONAL.               *)
StartEnds == state # "WAIT_LINK" ~> state \in {"OPERATIONAL", "ERROR"}
LossEnds == \A s \in Slaves : <>[](s \notin present) => <>[](state # "OPERATIONAL")
(* The two together.                                                       *)
MasterEnds == StartEnds /\ LossEnds
=============================================================================
