CONSTANTS
  k1 = k1
  k2 = k2
  k3 = k3
  w1 = w1
  w2 = w2
  Key = {k1, k2, k3}
  Writer = {w1, w2}
  Ttls = {0, 1}
  Batch = 1
  MaxCaches = 2
  Loads <- MCLoads
SYMMETRY Symmetry
SPECIFICATION Spec
INVARIANTS WritesKept FlagCovers SweepComplete
