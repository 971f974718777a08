\* The bound on the goals ends every behaviour of the motion command node.
SPECIFICATION CommandsSpec
CONSTANTS
  Timeout = 2
  MaxRequests = 2
  CanFdSafety = TRUE
  Kinds <- TwoKinds
  MaxGoals = 2
  MaxStops = 1
  HoldOnCancel = TRUE
CHECK_DEADLOCK FALSE
INVARIANTS
  MoveItModeIsMoveIt
  FaultNeverIgnored
  OneCommand
  CancelledStandsStill
PROPERTIES
  StopsOnSilence
  GoalsEnd
