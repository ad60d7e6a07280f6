SPECIFICATION Spec
CONSTANTS
  None = None
  Free = Free
  Scheduler = Scheduler
  Deleter = Deleter
  p1 = p1
  p2 = p2
  c1 = c1
  c2 = c2
  Paths = {p1}
  Clients = {c1, c2}
  Visibilities = {"public"}
  InputStatus = {"", "scheduled"}
  InputDates = {1, 2}
  Failing = {}
  MaxTime = 2
  Times <- MCTimes
  Retention = 0
  MaxRestarts = 0
SYMMETRY ClientSymmetry
INVARIANTS MarkedHasDate
PROPERTIES RowsVanishMarked NoEarlyPublication
