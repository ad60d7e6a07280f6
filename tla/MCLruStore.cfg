SPECIFICATION Spec
CONSTANTS
  Nil = Nil
  k1 = k1
  k2 = k2
  v1 = v1
  v2 = v2
  g1 = g1
  g2 = g2
  e1 = e1
  e2 = e2
  e3 = e3
  e4 = e4
  e5 = e5
  Keys = {k1, k2}
  Values = {v1, v2}
  Getters = {g1, g2}
  Elements = {e1, e2, e3}
  Costs = {1, 2}
  Durations = {0, 1}
  MaxCost = 2
  MaxTime = 2
SYMMETRY Symmetry
INVARIANTS ListFits
PROPERTIES ImplementsLossyCache
