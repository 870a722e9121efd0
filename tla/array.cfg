\* One slot and everything that can happen to it.
SPECIFICATION ArraySpec
CONSTANTS
  Pid = {p1, p2}
  NSlots = 1
  r1 = r1
  r2 = r2
  n1 = n1
  j1 = j1
  j2 = j2
  jn = jn
  Result = {r1, r2, n1}
  Job = {j1, j2, jn}
  JobOf <- ThreeJobs
  NciJobs = {jn}
  EnumLimit = 2
  MaxScans = 1
  None = None
  Faults = {"crash", "stale", "reread"}
INVARIANTS
  ArrayTypeOK
  SentOnce
  RightJob
SYMMETRY Interchangeable
