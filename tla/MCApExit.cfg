SPECIFICATION Spec
CONSTANTS
  None = None
  Sends = {s1}
  Procs = {command}
  MaxTry = 2
  MaxTime = 2
  MaxFaults = 1
  MaxFailed = 3
PROPERTIES AnnouncedIsQueued
CHECK_DEADLOCK FALSE
