SPECIFICATION Spec
CONSTANTS
  N = 1
  window_limit = 2
  circuit_base_ms = 1
  Jitter <- MCJitter
  Outcomes <- MCOutcomes
  U64Max = 2000
  MaxRequests = 2
  Clock <- MCClock
PROPERTIES
  RecoveryThroughProbeOnly
CHECK_DEADLOCK FALSE
