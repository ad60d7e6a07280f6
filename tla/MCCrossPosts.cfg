SPECIFICATION Spec
CONSTANTS
  None = None
  Path = {"p", "q"}
  Service = {"telegram", "atproto", "tts"}
  MaxRequests = 6
  MaxFaults = 1
INVARIANTS ServiceMatchesPost AnnouncedIsShown NeverTwice MessageIsCurrent
CHECK_DEADLOCK FALSE
CONSTRAINT NotExcused
