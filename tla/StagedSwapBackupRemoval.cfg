CONSTANTS
  Runs = {r1}
  Files = {root, dep, dep2, sidecar}
  Sidecars = {sidecar}
  MemberSets = {{root, dep}, {root, dep2}}
  Original = Original
  Torn = Torn
  Absent = Absent
  NoDir = NoDir
  NoRun = NoRun
  Faults = {"rmBackup"}
SPECIFICATION Spec
PROPERTY AnyFailureRestoresPrior
CHECK_DEADLOCK FALSE
