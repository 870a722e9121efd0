\* A file of up to two blocks, two handlers, and four faults.
SPECIFICATION UploadFairSpec
CONSTANTS
  Size = 3
  BlockSize = 2
  Threshold = 2
  Proc = {p1, p2}
  NFiles = 2
  MaxFaults = 4
  None = None
INVARIANTS
  UploadTypeOK
  Contiguous
  UploadedComplete
PROPERTIES
  Finished
\* The upload comes to an end.
CHECK_DEADLOCK FALSE
