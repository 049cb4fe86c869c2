SPECIFICATION FairSpec
CONSTANTS
  MaxOffers = 2
  Timeout = 2
  MaxHello = 24
  MaxRecord = 6
  MinBody = 2
  Lengths = {0, 1, 4, 6, 7, 20, 21}
  MaxWait = 5
INVARIANTS
  TypeOK
  BuffersBounded
  PinnedPerByte
  LockIsAgreed
PROPERTY WorkerEnds
CHECK_DEADLOCK FALSE
