SPECIFICATION Spec
CONSTANTS
  Consent = TRUE
  ContainmentEnabled = TRUE
  IfaceConfigured = FALSE
  MaxSpawns = 2
  MaxLines = 1
  MaxEpochs = 2
PROPERTIES
  ExitClearsLiveness
