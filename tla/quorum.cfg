\* Any two programs overlap; two of three results must agree, and no file is deleted.
SPECIFICATION Spec
CONSTANTS
  a = a
  b = b
  NIds = 4
  MinQuorum = 2
  InitTarget = 2
  MaxError = 1
  MaxTotal = 3
  MaxSuccess = 3
  Answers = {a, b}
  MaxBusy = 2
  Programs = {}
  Faults = {}
SYMMETRY Interchangeable
INVARIANTS
  ValidAgree
PROPERTIES
  QuorumAgrees
\* The job ends, and with it everything the programs have to do.
CHECK_DEADLOCK FALSE
