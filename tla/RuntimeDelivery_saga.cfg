\* Two deployments and a rollback, with two reconcilers that apply observations late.
SPECIFICATION Spec
CONSTANTS
  e1 = e1  e2 = e2  r1 = r1  r2 = r2  r3 = r3  small = small  big = big
  other = other  k1 = k1  k2 = k2  k3 = k3  k4 = k4  k5 = k5  w1 = w1  w2 = w2
  o1 = o1  o2 = o2
  None = None
  NotCommitted = NotCommitted
  Env = {e1}
  Cell = {1}
  Content = {small, big}
  Release = {r1, r2}
  Key = {k1, k2, k3}
  Worker = {w1}
  Observer = {o1, o2}
  Command <- SagaCommands
  Units <- MCUnits
  Class <- MCClass
  CellClass <- OneCellClass
  Capacity <- OneCapacity
SYMMETRY Symmetry
INVARIANTS SagaAgreement OnlyOneActiveRelease ActiveReleaseWasReady
PROPERTIES NothingIsTakenBack ImplementsLedger
CHECK_DEADLOCK FALSE
