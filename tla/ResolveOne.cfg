CONSTANTS
  Ids = {a, b}
  Parts = {p, q}
  None = None
  Scores = {0, 30, 60, 100, 130}
  Minimum = 40
  Exact = 100
  Expandable = {b}
  Requests = {"none", "full", "revision", "short", "center", "conflict"}
SPECIFICATION FairSpec
INVARIANTS TypeOK RepositoryFirst ChoiceIsJustified ExactSelectionKept
PROPERTIES DecidedIsNotSkipped Settles
CHECK_DEADLOCK FALSE
