\* Two requests and two retries of one identity, with concurrent runs and cancellations.
SPECIFICATION Spec
CONSTANTS
  i1 = i1  i2 = i2  b1 = b1  b2 = b2  b3 = b3
  k1 = k1  k2 = k2  k3 = k3  k4 = k4  w1 = w1  w2 = w2  c1 = c1  c2 = c2
  None = None
  Identity = {i1}
  Build = {b1, b2}
  Key = {k1, k2, k3, k4}
  Command <- Commands
  Runner = {w1, w2}
  Canceller = {c1}
SYMMETRY Symmetry
INVARIANTS TrustedIffSucceeded BackendOnceAndStopped
PROPERTIES ImplementsLedger
CHECK_DEADLOCK FALSE
