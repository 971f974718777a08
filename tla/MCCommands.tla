----------------------------- MODULE MCCommands -----------------------------
(***************************************************************************)
(* Commands for TLC.  Of the jog mode, a tick stands for a good part of    *)
(* the command time-out, and a wait for a service may be longer.  Of the   *)
(* motion commands, two kinds of goals are as good as three: the servers   *)
(* differ in their kind only; a second goal meets what is left of the      *)
(* first, a late stop, cancellation or message.                            *)
(***************************************************************************)
EXTENDS CommandNodes

TwoKinds == {"MoveJ", "MovePose"}
=============================================================================
