\* One program at a time, under fairness.
SPECIFICATION FairSpec
CONSTANTS
  NIds = 3
  MinQuorum = 1
  InitTarget = 2
  MaxError = 1
  MaxTotal = 2
  MaxSuccess = 2
  Answers = {"a"}
  MaxBusy = 1
  Programs = {"assimilator", "file_deleter", "purger"}
  Faults = {"badfile", "cancel"}
PROPERTIES
  Cleaned
\* The job ends, and with it everything the programs have to do.
CHECK_DEADLOCK FALSE
