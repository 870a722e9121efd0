\* An upload that is given up is reported as a success.
SPECIFICATION ClientSpec
CONSTANTS
  MaxFaults = 3
INVARIANTS
  FailureReported
CHECK_DEADLOCK FALSE
