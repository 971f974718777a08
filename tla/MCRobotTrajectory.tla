------------------------- MODULE MCRobotTrajectory -------------------------
(* Small instances of RobotTrajectory for TLC.                             *)
EXTENDS RobotTrajectory

=============================================================================
