\* Programs crash, replies get lost and queries of the purger fail; one program at a time.
SPECIFICATION Spec
CONSTANTS
  NIds = 3
  MinQuorum = 1
  InitTarget = 2
  MaxError = 1
  MaxTotal = 2
  MaxSuccess = 2
  Answers = {"a"}
  MaxBusy = 1
  Programs = {"assimilator", "file_deleter", "purger"}
  Faults = {"crash", "reply", "purge"}
INVARIANTS
  TotalBound
  AckedReceived
PROPERTIES
  SuccessKept
  LateReportKept
\* The job ends, and with it everything the programs have to do.
CHECK_DEADLOCK FALSE
