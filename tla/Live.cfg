CONSTANTS
  s = s
  p = p
  ms = ms
  mp = mp
  apim = apim
  bus = bus
  topic = topic
  conn = conn
  logic = logic
  Options <- Used
  Stacks = {s, p}
  Homes <- Located
  Persistent = p
  MarkerOf <- Marker
  Core = {apim}
  Ext = {logic}
  Lanes = {bus, conn}
  Connectors = {conn}
  Optional = {"apis"}
  Nested = {topic}
  Parent <- TopicOf
  FatalUnits = {"stub"}
  CleanupOrder <- Order
  None = None
  Foreign = Foreign
  Untagged = Untagged
  Taken <- Collisions
  MaxRuns = 2
  MaxPolls = 1
  MaxFaults = 1
  Workers = {w1, w2}
  CaseFilter = {"ambiguity", "logic-apps-list-swagger", "app-service-apispecpath-runtime"}
  Absent = {"logic-app"}
  Seeding = {"ambiguity"}
  Faults = {"temp", "clear", "seed"}
SPECIFICATION BothSpec
INVARIANTS Typed CleanMeansGone EvidenceIsTrue OthersSeeDefinition
PROPERTIES OnlyOwnDeleted NothingBeforeManifest RunEnds
CHECK_DEADLOCK FALSE
