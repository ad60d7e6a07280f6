SPECIFICATION FairSpec
CONSTANTS
  None = None
  Free = Free
  Scheduler = Scheduler
  Deleter = Deleter
  p1 = p1
  p2 = p2
  c1 = c1
  c2 = c2
  Paths = {p1}
  Clients = {c1}
  Visibilities = {"public"}
  InputStatus = {""}
  InputDates = {2}
  Failing = {c1}
  MaxTime = 3
  Times <- MCTimes
  Retention = 0
  MaxRestarts = 1
PROPERTIES DueIsPublished ExpiredIsPurged
