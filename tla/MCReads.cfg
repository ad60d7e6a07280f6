SPECIFICATION FairSpec
CONSTANTS
  None = None
  Clients = {c1, c2}
  Paths = {p1, p2}
  MaxWrites = 2
  Asked = {p1}
INVARIANTS StalePageIsLate StaleAnswerIsLate MissIsFresh
PROPERTIES CachesCatchUp
