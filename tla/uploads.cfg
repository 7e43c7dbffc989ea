CONSTANTS
  Uploads = {u1, u2}
  Callers = {c1}
  Sweepers = {s1}
  Backends = {"local", "s3"}
  Ttl = 1
  Keep = 1
  Batch = 1
  MaxPuts = 1
  Horizon = 4
  Faults = {"restart", "storage", "db", "off"}
SPECIFICATION Spec
INVARIANTS ReadyIsChecked ReclaimedInTime
PROPERTY NoOrphan
SYMMETRY Alike
CHECK_DEADLOCK FALSE
