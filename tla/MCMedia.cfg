SPECIFICATION MediaSpec
CONSTANTS
  None = None
  a = a
  b = b
  v = v
  w = w
  p1 = p1
  t1 = t1
  c1 = c1
  c2 = c2
  migrator = migrator
  Images = {a, b}
  Names = {a, b, v, w}
  Types = {t1}
  VariantOf <- MCVariantOf
  PictureOf <- MCPictureOf
  Clients = {c1, c2}
  Migrator = migrator
  Posts = {p1}
  MaxFaults = 1
  MaxRequests = 3
SYMMETRY ImageSymmetry
INVARIANTS FilesMatchRows ReferencesResolve
CHECK_DEADLOCK FALSE
