CONSTANTS
  c1 = c1
  c2 = c2
  c3 = c3
  c4 = c4
  p1 = p1
  p2 = p2
  shared = shared
  f1 = f1
  f2 = f2
  f3 = f3
  f4 = f4
  root = root
  other = other
  sidecar = sidecar
  Candidates = {c1, c2, c3, c4}
  HydratedBy <- Hydrators
  Unbound = Unbound
  Folders = {shared, f1, f2, f3, f4}
  Setups <- Confined
  Files = {root, other, sidecar}
  Derived = sidecar
  Before = Before
  Torn = Torn
  Absent = Absent
  Nobody = Nobody
  Faults = {"hydrate", "export", "write", "derive"}
SPECIFICATION Spec
INVARIANTS TypeOK AccountIsRight SpecsHold ResolvedMeansComplete DerivedHold
CHECK_DEADLOCK FALSE
