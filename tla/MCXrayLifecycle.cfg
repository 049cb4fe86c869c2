SPECIFICATION FairSpec
CONSTANTS
  Consent = TRUE
  ContainmentEnabled = TRUE
  IfaceConfigured = TRUE
  MaxSpawns = 2
  MaxLines = 1
  MaxEpochs = 2
INVARIANTS
  TypeOK
  OwnedCoreIsTracked
  CloseLeavesNoCore
  CoreNotBlackholed
  CountEndsAtZero
PROPERTIES
  ExitIsNoticed
  RestartRefusedByOthers
