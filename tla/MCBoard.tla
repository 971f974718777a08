------------------------------- MODULE MCBoard -------------------------------
(***************************************************************************)
(* Board for TLC.                                                          *)
(*                                                                         *)
(* Numbered frames: numbers that wrap after 10, one in a row that the      *)
(* filter does not see.  A tick is a position period (2 ms); the times of  *)
(* the code, shortened in their order.                                     *)
(* Bus-off: stops never fail, since nothing retries them (README); starts  *)
(* may.                                                                    *)
(* The indices of the ring wrap after two rounds, the numbers of the       *)
(* reports after three; the large pool has a buffer for every place that   *)
(* can hold one, the small one does not.                                   *)
(***************************************************************************)
EXTENDS Board

TwoFrames == {"a", "b"}
OneObject == {<<1, 0>>}
FirstDrive == {1}
=============================================================================
