CONSTANTS
  Branches = {1, 2}
  Deployments <- MCDeployments
  Keep = 2
  Wrap = 100
  Faults = {"crash", "error"}
SPECIFICATION LiveSpec
INVARIANTS TypeOK NoBlockSkipped
PROPERTY CatchesUp
\* The chain stops at its maximal height.
CHECK_DEADLOCK FALSE
