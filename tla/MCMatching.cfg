SPECIFICATION FairSpec
CONSTANTS
  Inputs <- MCInputs
INVARIANTS TypeOK OperationsConserved MatchesReference
PROPERTIES Terminates
CHECK_DEADLOCK FALSE
