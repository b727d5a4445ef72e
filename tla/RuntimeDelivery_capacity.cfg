\* Two concurrent calls for two environments on two cells that cannot hold both when one grows; two keys for one content.
SPECIFICATION Spec
CONSTANTS
  e1 = e1  e2 = e2  r1 = r1  r2 = r2  r3 = r3  small = small  big = big
  other = other  k1 = k1  k2 = k2  k3 = k3  k4 = k4  k5 = k5  w1 = w1  w2 = w2
  o1 = o1  o2 = o2
  None = None
  NotCommitted = NotCommitted
  Env = {e1, e2}
  Cell = {1, 2}
  Content = {small, big, other}
  Release = {r1, r2, r3}
  Key = {k1, k2, k3, k4, k5}
  Worker = {w1, w2}
  Observer = {}
  Command <- CapacityCommands
  Units <- CapacityUnits
  Class <- CapacityClass
  CellClass <- TwoCellClass
  Capacity <- TwoCapacity
SYMMETRY Symmetry
INVARIANTS ReleasesAreOwnedAndUnique CapacityAccounted
CHECK_DEADLOCK FALSE
