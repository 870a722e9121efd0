\* Any two programs overlap, under fairness.
SPECIFICATION FairSpec
CONSTANTS
  NIds = 3
  MinQuorum = 1
  InitTarget = 1
  MaxError = 1
  MaxTotal = 2
  MaxSuccess = 2
  Answers = {"a"}
  MaxBusy = 2
  Programs = {"assimilator"}
  Faults = {}
PROPERTIES
  Assimilated
\* The job ends, and with it everything the programs have to do.
CHECK_DEADLOCK FALSE
