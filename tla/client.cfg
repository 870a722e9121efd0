\* One job with a big or a small input file, and three faults of any kind.
SPECIFICATION ClientFairSpec
CONSTANTS
  MaxFaults = 3
INVARIANTS
  ClientTypeOK
  WholeInput
  Acknowledged
  SuccessStored
  NeverLost
PROPERTIES
  StartedAlone
  Reported
\* The client is done with the job.
CHECK_DEADLOCK FALSE
