\* Three concurrent transactions on one organization with two owners.
SPECIFICATION Spec
CONSTANTS
  p1 = p1  p2 = p2  p3 = p3  k1 = k1  k2 = k2  k3 = k3  k4 = k4  k5 = k5
  k6 = k6  k7 = k7  k8 = k8  k9 = k9
  w1 = w1  w2 = w2  w3 = w3
  Principal = {p1, p2}
  Key = {k1, k2, k3, k4, k5, k6, k7, k8, k9}
  Worker = {w1, w2, w3}
  Command <- OwnerCommands
SYMMETRY Symmetry
INVARIANTS OwnerRemains SnapshotsAreCurrent
PROPERTIES ImplementsLedger
CHECK_DEADLOCK FALSE
