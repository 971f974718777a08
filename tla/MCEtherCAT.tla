------------------------------ MODULE MCEtherCAT ------------------------------
(***************************************************************************)
(* EtherCAT for TLC.                                                       *)
(*                                                                         *)
(* Layouts: three PDOs, in a drive that held nothing, another layout with  *)
(* a PDO besides that the firmware does not know, or the right maps under  *)
(* the wrong assignment; one PDO of one entry a direction in the drive     *)
(* that ignores writes.                                                    *)
(* Bus: two slaves that fall, vanish, return, refuse and obey late.        *)
(* Enable sequence: two axes that trip at any time, on a bus that loses    *)
(* frames.                                                                 *)
(* Port: six slots for two descriptors, as few as PortAssumption allows.   *)
(***************************************************************************)
EXTENDS EtherCAT

EntryBits == [none |-> 0, control |-> 16, target |-> 32, control2 |-> 16,
              status |-> 16, actual |-> 32, speed |-> 32]

DriveRx == <<"p1", "p2">>
DriveTx == <<"q1">>
DriveEntries == [p1 |-> <<"control", "target">>, p2 |-> <<"control2">>,
                 q1 |-> <<"status", "actual">>]
Layout(rx, tx, p1, p2, q1) ==
  [rxassign |-> rx, txassign |-> tx, p1 |-> p1, p2 |-> p2, q1 |-> q1]
DriveOld ==
  {Layout(<<>>, <<>>, <<>>, <<>>, <<>>),
   Layout(<<"p2", "p9">>, <<"q1">>, <<>>, <<"speed", "control2", "control">>,
          <<"actual", "status">>),
   Layout(<<"p2", "p1">>, <<"q1">>, <<"control", "target">>, <<"control2">>,
          <<"status", "actual">>)}

OneRx == <<"p1">>
OneEntries == [p1 |-> <<"target">>, q1 |-> <<"actual">>]
OneOld == {[rxassign |-> <<"p1">>, txassign |-> <<"q1">>,
            p1 |-> <<"speed">>, q1 |-> <<"status">>],
           [rxassign |-> <<>>, txassign |-> <<>>, p1 |-> <<>>, q1 |-> <<>>]}

TwoSlaves == {"s1", "s2"}
TwoAxes == {"a1", "a2"}

(* What the rest of a start depends on.  The probes are counted to their   *)
(* end only, who was told of it matters until SAFE-OP is asked for, and in *)
(* ERROR the master no longer looks at anything.                           *)
Preparing == Bus!Configuring \/ state \in {"DISCOVER", "PREOP"}
BusView ==
  IF state = "ERROR" THEN <<state, present>>
  ELSE <<state, pc, context, mailbox, cycle, stable, badCycles, seen,
         input, output, al, ctl, present, asked,
         IF state = "PROBE" THEN probes ELSE 0,
         IF Preparing THEN told ELSE {}>>
View == <<part, vars, pdoVars, axesVars, portVars, BusView>>
=============================================================================
