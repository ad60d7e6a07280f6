SPECIFICATION FairSpec
CONSTANTS
  None = None
  Sends = {s1}
  Procs = {server, command}
  MaxTry = 3
  MaxTime = 5
  MaxFaults = 2
  MaxFailed = 5
INVARIANTS NothingLost
PROPERTIES GivesUpLate ImplementsDelivery IsSettled
CHECK_DEADLOCK FALSE
