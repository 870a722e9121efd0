\* Two slots, under fairness.
SPECIFICATION ArrayFairSpec
CONSTANTS
  Pid = {p1, p2}
  NSlots = 2
  r1 = r1
  r2 = r2
  n1 = n1
  j1 = j1
  j2 = j2
  jn = jn
  Result = {r1, n1}
  Job = {j1, jn}
  JobOf <- TwoJobs
  NciJobs = {jn}
  EnumLimit = 2
  MaxScans = 1
  None = None
  Faults = {"crash"}
PROPERTIES
  Stocked
  Released
