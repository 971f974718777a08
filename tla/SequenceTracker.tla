--------------------------- MODULE SequenceTracker ---------------------------
(***************************************************************************)
(* The filter both ends of the CAN link put in front of a numbered stream: *)
(* SequenceTracker::accept on the host, APP_CAN_AcceptSequence in the      *)
(* firmware.  Numbers are one octet, so Half is 128 in the code.           *)
(***************************************************************************)
EXTENDS Naturals

CONSTANT Half

ASSUME HalfAssumption == Half \in Nat /\ Half >= 2

Modulus == 2 * Half
Numbers == 0 .. (Modulus - 1)
Trackers == [received : BOOLEAN, last : Numbers]
Fresh == [received |-> FALSE, last |-> 0]

Following(s) == IF s = Modulus - 1 THEN 0 ELSE s + 1

(* The forward distance, an octet subtraction in the code.                 *)
Ahead(last, s) == IF s >= last THEN s - last ELSE s + Modulus - last

(* Mutants: only the next number is taken; a repeated number is taken.     *)
AcceptsNextOnly(t, s) == t.received => Ahead(t.last, s) = 1
AcceptsRepeats(t, s) == t.received => Ahead(t.last, s) < Half

Accepts(t, s) == t.received => Ahead(t.last, s) \in 1 .. (Half - 1)

Take(t, s) == IF Accepts(t, s) THEN [received |-> TRUE, last |-> s] ELSE t
=============================================================================
