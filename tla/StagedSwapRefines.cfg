CONSTANTS
  Runs = {r1, r2}
  Files = {root, dep, dep2, sidecar}
  Sidecars = {sidecar}
  MemberSets = {{root, dep}, {root, dep2}}
  Original = Original
  Torn = Torn
  Absent = Absent
  NoDir = NoDir
  NoRun = NoRun
  Faults = {"write", "rename", "verify", "restore", "rmStage", "crash"}
SPECIFICATION FairSpec
PROPERTIES ImplementsAtomicPublish EveryExportSettles
CHECK_DEADLOCK FALSE
