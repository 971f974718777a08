---------------------------- MODULE TxPdoSnapshot ----------------------------
(***************************************************************************)
(* The double buffer of ECAT_runtime.c through which the EtherCAT task     *)
(* hands what the drives report to the task that prints it.  There is no   *)
(* lock: the reader copies, and keeps the copy only when the sequence      *)
(* number did not move meanwhile.                                          *)
(*                                                                         *)
(* The EtherCAT task has the higher priority: it captures in one step of   *)
(* the reader's, which are single copies.  A snapshot is its own sequence  *)
(* number; the text made of it is left out.                                *)
(***************************************************************************)
EXTENDS Naturals

CONSTANTS
  Slaves,      \* ECAT_SLAVE_COUNT: parts of a snapshot, copied one by one
  Buffers,     \* ECAT_RUNTIME_SNAPSHOT_BUFFER_COUNT
  Tries,       \* copies the reader attempts in a pass
  SeqMod,      \* 2^32, where a sequence number wraps: a multiple of Buffers
  MaxCaptures  \* bound, below SeqMod: captures during one pass of the reader

(* What the theorems assume of them (BoardProofs).                         *)
SnapshotAssumption ==
  /\ Slaves \in Nat \ {0} /\ Tries \in Nat \ {0}
  /\ Buffers \in Nat /\ Buffers > 1
  /\ SeqMod \in Nat \ {0} /\ \E k \in 1 .. SeqMod : SeqMod = k * Buffers
  /\ MaxCaptures \in Nat /\ MaxCaptures < SeqMod

Seqs == 0..SeqMod - 1
Parts == 1..Slaves
None == SeqMod

VARIABLES
  buffer,    \* txpdo_snapshot, with report number and drive state
  publish,   \* txpdo_snapshot_publish_sequence
  consumed,  \* txpdo_snapshot_consumed_sequence
  rd,        \* the reader: step, attempt, its sequence number, parts copied
  reported,  \* history: the snapshot printed last
  captures   \* captures since the reader's pass began
vars == <<buffer, publish, consumed, rd, reported, captures>>

Init ==
  /\ buffer = [b \in 0..Buffers - 1 |-> [p \in Parts |-> 0]]
  /\ publish = 0 /\ consumed = 0 /\ captures = 0 /\ reported = None
  /\ rd = [pc |-> "look", try |-> 0, seq |-> 0, part |-> 0,
           copy |-> [p \in Parts |-> 0]]

NextSeq == (publish + 1) % SeqMod

(* Mutant: published into the buffer the last snapshot is in.              *)
CaptureInPlace ==
  /\ captures < MaxCaptures
  /\ buffer' = [buffer EXCEPT ![publish % Buffers] = [p \in Parts |-> NextSeq]]
  /\ publish' = NextSeq /\ captures' = captures + 1
  /\ reported' = IF reported = NextSeq THEN None ELSE reported
  /\ UNCHANGED <<consumed, rd>>

(* ECAT_RuntimeCaptureTxPdoSnapshots, all slaves mapped.                   *)
Capture ==
  /\ captures < MaxCaptures
  /\ buffer' = [buffer EXCEPT ![NextSeq % Buffers] = [p \in Parts |-> NextSeq]]
  /\ publish' = NextSeq /\ captures' = captures + 1
  /\ reported' = IF reported = NextSeq THEN None ELSE reported
  /\ UNCHANGED <<consumed, rd>>

(* ECAT_RuntimeResetAfterError: what was not printed is not wanted.        *)
ResetAfterError ==
  /\ consumed' = publish
  /\ UNCHANGED <<buffer, publish, rd, reported, captures>>

----------------------------------------------------------------------------
(* ECAT_RuntimeProcessTxPdoReport                                          *)
Idle == [rd EXCEPT !.pc = "look", !.try = 0]

Look ==
  /\ rd.pc = "look"
  /\ IF publish = consumed
     THEN rd' = Idle
     ELSE rd' = [rd EXCEPT !.pc = "copy", !.seq = publish, !.part = 1]
  /\ captures' = IF rd.try = 0 THEN 0 ELSE captures
  /\ UNCHANGED <<buffer, publish, consumed, reported>>

Copy ==
  /\ rd.pc = "copy"
  /\ rd' = [rd EXCEPT !.copy[rd.part] = buffer[rd.seq % Buffers][rd.part],
                      !.part = @ + 1,
                      !.pc = IF rd.part = Slaves THEN "check" ELSE "copy"]
  /\ UNCHANGED <<buffer, publish, consumed, reported, captures>>

(* Mutant: an attempt that fails is not retried.                           *)
CheckOnce ==
  /\ rd.pc = "check"
  /\ rd' = IF publish = rd.seq THEN [rd EXCEPT !.pc = "consume"] ELSE Idle
  /\ UNCHANGED <<buffer, publish, consumed, reported, captures>>

Check ==
  /\ rd.pc = "check"
  /\ rd' = IF publish = rd.seq THEN [rd EXCEPT !.pc = "consume"]
           ELSE IF rd.try + 1 < Tries
                THEN [rd EXCEPT !.pc = "look", !.try = @ + 1]
                ELSE Idle
  /\ UNCHANGED <<buffer, publish, consumed, reported, captures>>

(* Mutant: what the reader saw is not marked as printed.                   *)
ConsumeLater ==
  /\ rd.pc = "consume"
  /\ reported' = rd.seq /\ rd' = Idle
  /\ UNCHANGED <<buffer, publish, consumed, captures>>

Consume ==
  /\ rd.pc = "consume"
  /\ consumed' = rd.seq /\ reported' = rd.seq /\ rd' = Idle
  /\ UNCHANGED <<buffer, publish, captures>>

ProcessTxPdoReport == Look \/ Copy \/ Check \/ Consume

Next == Capture \/ ResetAfterError \/ ProcessTxPdoReport
Spec == Init /\ [][Next]_vars
(* The reporting task runs every millisecond.                              *)
FairSpec == Spec /\ WF_vars(ProcessTxPdoReport)

----------------------------------------------------------------------------
(* Every variable has its type, and a pass its bounds.                     *)
TypeOK ==
  /\ buffer \in [0..Buffers - 1 -> [Parts -> Seqs]]
  /\ publish \in Seqs /\ consumed \in Seqs /\ captures \in 0..MaxCaptures
  /\ reported \in Seqs \cup {None}
  /\ rd \in [pc : {"look", "copy", "check", "consume"}, try : 0..Tries - 1,
             seq : Seqs, part : 0..Slaves + 1, copy : [Parts -> Seqs]]

(* What is printed is one snapshot, and the one whose number it carries,   *)
(* although the copy is preempted anywhere (ECAT_runtime.c:2627).          *)
ReportIsWhole == rd.pc = "consume" => \A p \in Parts : rd.copy[p] = rd.seq

(* No snapshot is printed twice, although the EtherCAT task resets the     *)
(* reader's own counter after an error (ECAT_runtime.c:237).               *)
NeverTwice == rd.pc = "consume" => rd.seq # reported

(* The three together: a report is one whole snapshot, printed once.       *)
SnapshotSafe == TypeOK /\ ReportIsWhole /\ NeverTwice

(* When fewer captures than attempts fall into a pass, the reader never    *)
(* starves: as long as snapshots are taken, some are printed.              *)
SnapshotsPrinted ==
  ([]<><<Capture>>_vars /\ <>[][Capture \/ ProcessTxPdoReport]_vars)
  => []<>(rd.pc = "consume")
=============================================================================
