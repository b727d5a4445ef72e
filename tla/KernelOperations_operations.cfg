\* One operation, moved on and canceled concurrently, and the delivery of its events.
SPECIFICATION OperationSpec
CONSTANTS
  d1 = d1  c1 = c1  w1 = w1  w2 = w2  k1 = k1
  Event = {1, 2}
  Dispatcher = {d1}
  Consumer = {c1}
  Limit = 1
  Reused = {2}
  Caller = {w1}
  Canceler = {w2}
  CancelKey = {k1}
INVARIANTS EventsAreHistory CancelRepliesStayTrue HandledAtMostOnce
PROPERTIES EventuallyHandled
CHECK_DEADLOCK FALSE
