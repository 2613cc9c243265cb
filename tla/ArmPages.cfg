CONSTANTS
  Links = {l1, l2, l3, l4, out}
  First = l1
  Safe = {l1, l2, l3, l4}
  None = None
  MaxPages = 3
  MaxAttempts = 2
SPECIFICATION FairSpec
INVARIANTS TypeOK ReturnedIsComplete BoundedRequests
PROPERTIES AbortStopsRequests ListEnds
CHECK_DEADLOCK FALSE
