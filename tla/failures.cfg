\* Everything around the programs fails; one program at a time.
SPECIFICATION Spec
CONSTANTS
  NIds = 3
  MinQuorum = 1
  InitTarget = 2
  MaxError = 1
  MaxTotal = 2
  MaxSuccess = 2
  Answers = {"a"}
  MaxBusy = 1
  Programs = {"assimilator", "file_deleter", "purger"}
  Faults = {"transient", "badfile", "host", "credit", "unlink", "cancel", "detach", "defer", "delay"}
INVARIANTS
  ReadyHasReason
  FailedNotSent
  DecidedNotSent
  DidntNeedNotSent
  InputsKept
  CanonicalFileKept
  DeletedMeansGone
  NotForgotten
  NoOrphans
PROPERTIES
  ValidKept
  ErrorsSticky
\* The job ends, and with it everything the programs have to do.
CHECK_DEADLOCK FALSE
