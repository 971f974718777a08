------------------------------- MODULE EtherCAT -------------------------------
(***************************************************************************)
(* The steps the EtherCAT task takes one after the other, from the link to *)
(* enabled axes: the layout of a drive, the start of the bus, the brakes,  *)
(* the enable sequence; and the Ethernet port under all of them.  Each     *)
(* begins in every state the ones before it may leave behind, so that one  *)
(* run explores them side by side: part is chosen at the start, the other  *)
(* parts keep the state they start in.                                     *)
(***************************************************************************)
EXTENDS BrakeRelease

CONSTANTS
  \* of the layout of a drive, and of that of one that ignores writes, see
  \* PdoMapping
  Rx, Tx, Entries, Old, SilentRx, SilentTx, SilentEntries, SilentOld, BitsOf,
  MaxEntries,
  \* of the start of the bus, see EcatMaster
  BusSlaves, ProbeCount, OpWaitCycles, OpStableCycles, BusFaultLimit,
  \* of the enable sequence, see DriveEnable
  DriveAxes, DelayCycles, Timeout, LossCycles, TargetCycles, EnableRollbackLimit,
  EnableFaultLimit,
  \* of the Ethernet port, see EthPort
  Slots, Descriptors, Attempts, Late

VARIABLES
  part,
  dict, phase, pos, ok, first,
  state, pc, context, mailbox, probes, cycle, stable, badCycles, seen,
  input, output, al, ctl, present, asked, told,
  axesOp, taskPc, runtime, badExchanges, accepted, controlword, wire, axis,
  csp, settled, quick,
  port, pending, resends, polled, frames, ring, held, answer, since

pdoVars == <<dict, phase, pos, ok, first>>
busVars == <<state, pc, context, mailbox, probes, cycle, stable, badCycles,
             seen, input, output, al, ctl, present, asked, told>>
axesVars == <<axesOp, taskPc, runtime, badExchanges, accepted, controlword,
              wire, axis, csp, settled, quick>>
portVars == <<port, pending, resends, polled, frames, ring, held, answer,
              since>>
allVars == <<part, vars, pdoVars, busVars, axesVars, portVars>>

----------------------------------------------------------------------------
Pdo == INSTANCE PdoMapping WITH Silent <- FALSE
SilentPdo == INSTANCE PdoMapping
               WITH Silent <- TRUE, Rx <- SilentRx, Tx <- SilentTx,
                    Entries <- SilentEntries, Old <- SilentOld
ASSUME EtherCATLayout == Pdo!LayoutAssumption /\ SilentPdo!LayoutAssumption

Bus == INSTANCE EcatMaster
         WITH Slaves <- BusSlaves, WaitCycles <- OpWaitCycles,
              StableCycles <- OpStableCycles, FaultLimit <- BusFaultLimit,
              open <- context, ready <- mailbox, bad <- badCycles
ASSUME EtherCATBus == Bus!MasterAssumption

Enable == INSTANCE DriveEnable
            WITH Axes <- DriveAxes, StableCycles <- TargetCycles,
                 RollbackLimit <- EnableRollbackLimit,
                 FaultLimit <- EnableFaultLimit,
                 op <- axesOp, pc <- taskPc, bad <- badExchanges

Port == INSTANCE EthPort WITH wire <- frames
ASSUME EtherCATPort == Port!PortAssumption

----------------------------------------------------------------------------
EtherCATInit ==
  /\ part \in {"layout", "silent layout", "bus", "brakes", "enable",
              "port"}
  /\ Init /\ Bus!Init /\ Enable!Init /\ Port!Init
  /\ IF part = "silent layout" THEN SilentPdo!Init ELSE Pdo!Init
  /\ part # "brakes" => \A x \in DOMAIN mode : mode[x] = 8
  /\ part \notin {"layout", "silent layout"} => dict = Pdo!Filled(Pdo!Wanted)
  /\ part # "bus" =>
       /\ present = BusSlaves
       /\ \A s \in present : al[s] = "INIT" /\ ctl[s] = "none"
  /\ part # "enable" => csp /\ settled

PdoPart ==
  /\ \/ part = "layout" /\ Pdo!Next
     \/ part = "silent layout" /\ SilentPdo!Next
  /\ UNCHANGED <<part, vars, busVars, axesVars, portVars>>
BusPart ==
  /\ part = "bus" /\ Bus!Next
  /\ UNCHANGED <<part, vars, pdoVars, axesVars, portVars>>
BrakePart ==
  /\ part = "brakes" /\ Next
  /\ UNCHANGED <<part, pdoVars, busVars, axesVars, portVars>>
EnablePart ==
  /\ part = "enable" /\ Enable!Next
  /\ UNCHANGED <<part, vars, pdoVars, busVars, portVars>>
PortPart ==
  /\ part = "port" /\ Port!Next
  /\ UNCHANGED <<part, vars, pdoVars, busVars, axesVars>>
EtherCATNext == PdoPart \/ BusPart \/ BrakePart \/ EnablePart \/ PortPart

(* Each part has the fairness that its module states for it.               *)
EtherCATSpec ==
  /\ EtherCATInit /\ [][EtherCATNext]_allVars
  /\ WF_vars(part = "brakes" /\ Task)
  /\ WF_vars(part = "brakes" /\ ProcessRuntimeSdoWorker)
  /\ \A x \in Slaves \X Axes : WF_vars(part = "brakes" /\ Feedback(x))
  /\ WF_busVars(part = "bus" /\ state # "WAIT_LINK" /\ Bus!Process)
  /\ WF_axesVars(part = "enable" /\ Enable!Task)
  /\ WF_portVars(part = "port" /\ Port!Task)

----------------------------------------------------------------------------
(* The sequence of the brakes ends, and an error closes the context, in    *)
(* the part that runs it (BrakeRelease).                                   *)
BrakesEnd == part = "brakes" => SequenceEnds

(* No assignment of a drive is in force over a half written map, and what  *)
(* passes has the wanted layout, silent drives included (PdoMapping).      *)
LayoutSafe ==
  /\ part = "layout" =>
       Pdo!TypeOK /\ Pdo!NeverHalfMapped /\ Pdo!PassedIsWanted
  /\ part = "silent layout" => SilentPdo!PassedIsWanted

(* No slave that a request has reached runs ahead of the master, though no *)
(* request is known to arrive, no zeros of a cleared image are reported as *)
(* positions (EcatMaster), and what an exchange on the Ethernet port takes *)
(* for its answer is that (EthPort).                                       *)
MasterSafe == Bus!MasterSafe /\ Port!PortSafe

(* OPERATIONAL is entered on what every slave says for itself, and left to *)
(* ERROR, before it was reached, by way of SAFE-OP (EcatMaster).           *)
StartIsProven == Bus!StartIsProven

(* A start comes to a verdict, a lost slave is noticed (EcatMaster), and   *)
(* every exchange on the port ends, answered or not (EthPort).             *)
MasterEnds == Bus!MasterEnds /\ Port!ExchangeEnds

(* Words reach an axis in the order of CiA402, and axes that were given up *)
(* are not enabled again (DriveEnable).                                    *)
WordsSafe == Enable!WordsSafe

(* An axis in fault has all of them taken back (DriveEnable).              *)
FaultStopsAll == Enable!FaultStopsAll
=============================================================================
