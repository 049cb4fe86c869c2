SPECIFICATION Spec
CONSTANTS
  MaxOffers = 2
  Timeout = 2
  MaxHello = 24
  MaxRecord = 6
  MinBody = 2
  Lengths = {4, 6}
  MaxWait = 3
INVARIANT RejectMismatchFailsClosed
CHECK_DEADLOCK FALSE
