\* Any two programs overlap; all of them run.
SPECIFICATION Spec
CONSTANTS
  NIds = 3
  MinQuorum = 1
  InitTarget = 2
  MaxError = 1
  MaxTotal = 2
  MaxSuccess = 2
  Answers = {"a"}
  MaxBusy = 2
  Programs = {"assimilator", "file_deleter"}
  Faults = {}
INVARIANTS
  TypeOK
  CopiesConsistent
  AckedRecorded
  AwaitingFileKept
PROPERTIES
  ImplementsJobLife
\* The job ends, and with it everything the programs have to do.
CHECK_DEADLOCK FALSE
