SPECIFICATION FairSpec
CONSTANTS
  N = 2
  window_limit = 2
  circuit_base_ms = 1
  Jitter <- MCJitter
  Outcomes <- MCOutcomes
  U64Max = 2000
  MaxRequests = 2
  Clock <- MCClock
INVARIANTS
  TypeOK
  StateMatchesFailures
  StreakIsNewestSamples
  NoPhantomLoad
  HalfOpenHasProbe
  NoProbeStarvation
PROPERTIES
  OpenArmIsProbed
CHECK_DEADLOCK FALSE
