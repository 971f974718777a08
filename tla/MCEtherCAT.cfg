\* The brakes of the three slaves of the robot, and the instances
\* that MCEtherCAT describes.
CONSTANTS
  LastSlave = 3
  WaitCycles = 1
  RollbackLimit = 3
  Rx <- DriveRx
  Tx <- DriveTx
  Entries <- DriveEntries
  Old <- DriveOld
  SilentRx <- OneRx
  SilentTx <- DriveTx
  SilentEntries <- OneEntries
  SilentOld <- OneOld
  BitsOf <- EntryBits
  MaxEntries = 4
  BusSlaves <- TwoSlaves
  ProbeCount = 2
  OpWaitCycles = 4
  OpStableCycles = 3
  BusFaultLimit = 3
  DriveAxes <- TwoAxes
  DelayCycles = 2
  Timeout = 4
  LossCycles = 2
  TargetCycles = 3
  EnableRollbackLimit = 3
  EnableFaultLimit = 5
  Slots = 6
  Descriptors = 2
  Attempts = 2
  Late = 1
SPECIFICATION EtherCATSpec
\* Every sequence is over at some time, and a bus in ERROR stays there.
CHECK_DEADLOCK FALSE
INVARIANTS
  CommandedOnce
  BrakesSafe
  LayoutSafe
  MasterSafe
PROPERTIES
  StartIsProven
  WordsSafe
  FaultStopsAll
  BrakesEnd
  MasterEnds
VIEW View
