SPECIFICATION FairSpec
CONSTANTS
  None = None
  p1 = p1
  p2 = p2
  r1 = r1
  r2 = r2
  n1 = n1
  Pages = {p1, p2}
  MovedTo <- MCMovedTo
  Notes = {n1}
  Requests = {r1, r2}
  MaxComments = 2
  MaxInputs = 3
  MaxFaults = 1
INVARIANTS MentionFollowsSource ShownCommentIsCurrent OneCommentPerNote NoOrphan
PROPERTY QueueDrains
CHECK_DEADLOCK FALSE
