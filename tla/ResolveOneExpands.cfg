CONSTANTS
  Ids = {a, b}
  Parts = {p}
  None = None
  Scores = {60, 100}
  Minimum = 40
  Exact = 100
  Expandable = {b}
  Requests = {"none"}
SPECIFICATION Spec
INVARIANTS EverySelectionKept
CHECK_DEADLOCK FALSE
