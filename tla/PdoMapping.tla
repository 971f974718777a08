----------------------------- MODULE PdoMapping -----------------------------
(***************************************************************************)
(* How ECAT_pdo_map.c brings the process data of a drive into the layout   *)
(* the firmware is compiled for: it compares the drive's object dictionary *)
(* with the wanted one, and rewrites it by SDO transfers if it differs.    *)
(* The drive keeps its dictionary while the controller restarts, so that a *)
(* configuration may be interrupted after any transfer and begin again on  *)
(* what the last one left.  One drive; they are configured in turn and     *)
(* share nothing.                                                          *)
(***************************************************************************)
EXTENDS Naturals, Sequences, SequencesExt

CONSTANTS
  Rx, Tx,     \* ECAT_rxpdo_assign, ECAT_txpdo_assign: sequences of PDOs
  Entries,    \* ECAT_explicit_pdo_maps: the sequence of entries of every PDO
  MaxEntries, \* the entries an object has room for
  BitsOf,     \* the bits of an entry, its low byte
  Old,        \* the dictionaries that a drive may have been delivered with
  Silent      \* whether a drive may acknowledge a write and ignore it

VARIABLES
  dict,       \* the drive's objects: a count (subindex 0) and its entries
  phase,      \* what the firmware does
  pos,        \* where it is in that: which object, which transfer of it
  ok,         \* po2so_ok
  first       \* history: the dictionary at the beginning
vars == <<dict, phase, pos, ok, first>>

Maps == Rx \o Tx
Assignments == {"rxassign", "txassign"}
Pdos == ToSet(Maps)
Objects == Assignments \cup Pdos
Wanted == [o \in Objects |-> CASE o = "rxassign" -> Rx [] o = "txassign" -> Tx [] OTHER -> Entries[o]]

(* The objects have room for what they held and for what they shall hold.  *)
(* No PDO is mapped twice.                                                 *)
LayoutAssumption ==
  /\ MaxEntries \in Nat
  /\ \A values \in Old \cup {Wanted} : \A o \in Objects :
       values[o] \in Seq(ToSet(values[o])) /\ Len(values[o]) <= MaxEntries
  /\ IsInjective(Maps) /\ Assignments \cap Pdos = {}

(* The value of an object: the entries that its count leaves in force.     *)
InForce(object) == [i \in 1..object.count |-> object.entry[i]]
Value(o) == InForce(dict[o])

----------------------------------------------------------------------------
Transfer(o, sub, value) == [object |-> o, sub |-> sub, value |-> value]
Fill(o) == [i \in DOMAIN Wanted[o] |-> Transfer(o, i, Wanted[o][i])]
(* ECAT_PdoMapWriteExplicit and WriteAssignment: the object is emptied,    *)
(* then its entries are written, then its count.                           *)
WriteObject(o) == <<Transfer(o, 0, 0)>> \o Fill(o) \o <<Transfer(o, 0, Len(Wanted[o]))>>
VerifyObject(o) == <<Transfer(o, 0, Len(Wanted[o]))>> \o Fill(o)
ForAll(Op(_), objects) == [i \in DOMAIN objects |-> Op(objects[i])]
Both == <<"rxassign", "txassign">>

Disabling == ForAll(LAMBDA o : <<Transfer(o, 0, 0)>>, Both)

(* Mutant: the maps are rewritten under their assignments.                 *)
RewritingInPlace == ForAll(WriteObject, Maps \o Both)

(* ECAT_PdoMapRewriteExplicitConfiguration before its verification.        *)
Rewriting == Disabling \o ForAll(WriteObject, Maps \o Both)

(* ECAT_PdoMapVerifyExplicitConfiguration.                                 *)
Verifying == ForAll(VerifyObject, Both \o Maps)

(* The transfer that is due, whether it is the last, the one after it      *)
Due(list) == list[pos[1]][pos[2]]
AtEnd(list) == pos[1] = Len(list) /\ pos[2] = Len(list[pos[1]])
Advance(list) ==
  pos' = IF pos[2] < Len(list[pos[1]]) THEN <<pos[1], pos[2] + 1>> ELSE <<pos[1] + 1, 1>>

----------------------------------------------------------------------------
Room(s) == [i \in 1..MaxEntries |-> IF i <= Len(s) THEN s[i] ELSE "none"]
Filled(values) == [o \in Objects |-> [count |-> Len(values[o]), entry |-> Room(values[o])]]

Init ==
  /\ \E values \in Old \cup {Wanted} : dict = Filled(values)
  /\ phase = "start" /\ pos = <<1, 1>> /\ ok = FALSE /\ first = dict

GoTo(next) == phase' = next /\ pos' = <<1, 1>>

(* The slave is in PRE-OP without error and speaks CoE, or it is not.      *)
Start ==
  /\ phase = "start" /\ (GoTo("compare") \/ GoTo("load")) /\ ok' = FALSE
  /\ UNCHANGED <<dict, first>>

Matches(t) == IF t.sub = 0 THEN dict[t.object].count = t.value ELSE dict[t.object].entry[t.sub] = t.value
Apply(t) == IF t.sub = 0 THEN [dict EXCEPT ![t.object].count = t.value]
            ELSE [dict EXCEPT ![t.object].entry[t.sub] = t.value]

(* A read that fails counts as a difference.                               *)
Reading(from, differs) ==
  /\ phase = from /\ UNCHANGED <<dict, first>>
  /\ \/ GoTo(differs) /\ UNCHANGED ok
     \/ /\ Matches(Due(Verifying))
        /\ IF AtEnd(Verifying)
           THEN GoTo("load") /\ ok' = TRUE
           ELSE Advance(Verifying) /\ UNCHANGED <<phase, ok>>

Compare == Reading("compare", "rewrite")
ReadBack == Reading("readback", "disable")

(* The answer to a write may be lost; a write may be refused or ignored.   *)
Written(t, acknowledged) ==
  \/ dict' = Apply(t)
  \/ (acknowledged => Silent) /\ UNCHANGED dict

(* Mutant: every write having been acknowledged, none is read back.        *)
RewriteTrusting ==
  /\ phase = "rewrite" /\ UNCHANGED first
  /\ \E acknowledged \in BOOLEAN :
       /\ Written(Due(Rewriting), acknowledged)
       /\ \/ ~acknowledged /\ GoTo("disable") /\ UNCHANGED ok
          \/ /\ acknowledged
             /\ IF AtEnd(Rewriting) THEN GoTo("load") /\ ok' = TRUE
                ELSE Advance(Rewriting) /\ UNCHANGED <<phase, ok>>

Rewrite ==
  /\ phase = "rewrite" /\ UNCHANGED <<ok, first>>
  /\ \E acknowledged \in BOOLEAN :
       /\ Written(Due(Rewriting), acknowledged)
       /\ \/ ~acknowledged /\ GoTo("disable")
          \/ acknowledged /\ ~AtEnd(Rewriting) /\ Advance(Rewriting) /\ UNCHANGED phase
          \/ acknowledged /\ AtEnd(Rewriting) /\ GoTo("readback")

(* ECAT_PdoMapDisableAssignments, whose results nobody reads.              *)
Disable ==
  /\ phase = "disable" /\ UNCHANGED <<ok, first>>
  /\ Written(Due(Disabling), FALSE)
  /\ IF AtEnd(Disabling) THEN GoTo("load") ELSE Advance(Disabling) /\ UNCHANGED phase

(* ECAT_PdoMapLoad and the checks of the I/O map: the bits of the PDOs in  *)
(* force, if they can be read; an assigned index of 0 is skipped.          *)
Bits(pdos, EntriesOf(_)) ==
  FoldSeq(LAMBDA p, sum : sum + FoldSeq(LAMBDA e, s : s + BitsOf[e], 0, EntriesOf(p)),
          0, SelectSeq(pdos, LAMBDA p : p # "none"))
SizesRight ==
  /\ Bits(Value("rxassign"), Value) = Bits(Rx, LAMBDA p : Entries[p])
  /\ Bits(Value("txassign"), Value) = Bits(Tx, LAMBDA p : Entries[p])

Load ==
  /\ phase = "load" /\ UNCHANGED <<dict, ok, first>>
  /\ \/ ok /\ SizesRight /\ GoTo("passed")
     \/ GoTo("failed")

(* The controller restarts at any moment; the drive keeps its dictionary.  *)
Restart == phase # "start" /\ GoTo("start") /\ UNCHANGED <<dict, ok, first>>

Configure == Start \/ Compare \/ Rewrite \/ ReadBack \/ Disable \/ Load
Next == Configure \/ Restart

Spec == Init /\ [][Next]_vars

----------------------------------------------------------------------------
(* Every variable keeps its type, and pos stays within the list at hand.   *)
Values == {"none"} \cup UNION {ToSet(old[o]) : old \in Old \cup {Wanted}, o \in Objects}
Within(list) == pos[1] \in DOMAIN list /\ pos[2] \in DOMAIN list[pos[1]]
TypeOK ==
  /\ dict \in [Objects -> [count : 0..MaxEntries, entry : [1..MaxEntries -> Values]]]
  /\ phase \in {"start", "compare", "rewrite", "readback", "disable", "load", "passed", "failed"}
  /\ ok \in BOOLEAN
  /\ phase \in {"compare", "readback"} => Within(Verifying)
  /\ phase = "rewrite" => Within(Rewriting)
  /\ phase = "disable" => Within(Disabling)

(* A drive that passes has exactly the wanted layout, whatever it had, and *)
(* whatever its answers were worth.                                        *)
PassedIsWanted == phase = "passed" => \A o \in Objects : Value(o) = Wanted[o]

(* No assignment is ever in force over a map that the firmware has begun   *)
(* and not finished, not after a lost answer, nor after restarts: a drive  *)
(* would exchange a layout nobody meant.  PDOs it does not know it does    *)
(* not touch.                                                              *)
NeverHalfMapped ==
  \A a \in Assignments : \A p \in ToSet(Value(a)) \cap Pdos :
    Value(p) \in {Wanted[p], InForce(first[p])}

=============================================================================
