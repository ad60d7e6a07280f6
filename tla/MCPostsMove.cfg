SPECIFICATION Spec
CONSTANTS
  None = None
  Free = Free
  Scheduler = Scheduler
  Deleter = Deleter
  p1 = p1
  p2 = p2
  c1 = c1
  c2 = c2
  Paths = {p1, p2}
  Clients = {c1}
  Visibilities = {"public"}
  InputStatus = {"scheduled"}
  InputDates = {0}
  Failing = {}
  MaxTime = 1
  Times <- MCTimes
  Retention = 0
  MaxRestarts = 0
SYMMETRY PathSymmetry
INVARIANT SharedIsKnown
PROPERTY ImplementsStore
